------------------------ MODULE GuestReconnectProofs ------------------------
\* Proofs about GuestReconnect, for any number of streams and any set of
\* scenarios: no request of a fenced stream is sent up, an answer is taken
\* by the guest that asked, and what an enrolled guest needs to come back
\* stays true.
EXTENDS GuestReconnect, SequenceTheorems, TLAPS

--------------------
\* The inductive invariant

Speakers == {"enroll", "reconnect"}

\* the frames in a stream
In(s) == {s[i] : i \in DOMAIN s}

\* Which worker goes through which stages.
Roles ==
    /\ work.enroll.pc \in {"idle", "wait", "enroll", "enrolling", "install"}
    /\ work.reconnect.pc \in {"idle", "begin", "proof", "accept", "config", "redeem", "fetch", "ready", "install"}
    /\ work.resume.pc \in {"idle", "mint"} /\ work.recover.pc \in {"idle", "authorize"}
    /\ \A w \in Speakers : (work[w].pc = "idle" <=> work[w].conn = None)
    /\ work.resume.conn = None /\ work.recover.conn = None

\* Where the session is, and what the guest, the workers and the channel know of it.
Placed ==
    /\ entry.gen = store.place /\ link \in {0, store.runnerGen}
    /\ guest.up => entry.state = "running"
    /\ guest.conn # None => guest.up
    /\ entry.state # "running" => entry.hub = None
    /\ entry.state = "resuming" => entry.epoch = 0
    /\ work.resume.pc = "mint" => entry.state = "resuming"
    /\ \A w \in Speakers : work[w].gen <= entry.gen /\ (entry.state = "resuming" => work[w].gen # entry.gen)
    /\ ~chan.served => ~chan.pending /\ (guest.up => guest.conn = None /\ guest.id = "none")

\* No hub is a stream that was fenced.
HubUnfenced == entry.hub \notin past.fenced

\* Who holds the ends of a stream.
Wired ==
    /\ \A c \in Conns : wire[c].guest => guest.conn = c
    /\ \A c \in Conns : wire[c].host => c = entry.hub \/ \E w \in Speakers : work[w].conn = c
    /\ \A c \in Conns : ~wire[c].host => wire[c].up = <<>>
    /\ work.enroll.conn # None => work.enroll.conn # work.reconnect.conn
    /\ entry.hub # None => \A w \in Speakers : work[w].conn # entry.hub

OnlyAsks(c) == \A f \in In(wire[c].up) : f.k = "ask"

\* What the guest may still have sent on the stream of a worker.
Sent ==
    /\ entry.hub # None => OnlyAsks(entry.hub)
    /\ \A w \in Speakers : work[w].pc # "idle" =>
        LET up == wire[work[w].conn].up IN
        /\ work[w].pc \in Calling => up = <<>>
        /\ work[w].pc = "install" => OnlyAsks(work[w].conn)
        /\ work[w].pc \notin Calling \cup {"install"} => Len(up) <= 1

\* Where the guest stands while a worker, or the hub, is at the other end of its stream.
AtEnroll ==
    LET down == wire[guest.conn].down
        up == wire[guest.conn].up
        at == work.enroll.pc IN
    /\ at \in {"wait", "enroll"} => \/ guest.pc = "config" /\ up = <<>> /\ Len(down) <= 1
                                    \/ guest.pc = "enrolling" /\ down = <<>>
    /\ at = "enrolling" => guest.pc = "enrolling" /\ down = <<>>
    /\ at = "install" => guest.pc \in {"enrolling", "serving"}

AtReconnect ==
    LET down == wire[guest.conn].down
        up == wire[guest.conn].up
        at == work.reconnect.pc IN
    /\ at = "begin" => guest.pc \in {"challenge", "config"} /\ down = <<>>
    /\ at = "proof" => \/ /\ guest.pc \in {"challenge", "config"} /\ up = <<>> /\ Len(down) <= 1
                          /\ \A f \in In(down) : f.k = "challenge"
                       \/ guest.pc = "accepted" /\ down = <<>>
    /\ at \in {"accept", "config"} => guest.pc = "accepted" /\ down = <<>>
    /\ at = "redeem" => \/ guest.pc = "accepted" /\ up = <<>> /\ Len(down) <= 2
                        \/ guest.pc = "delivery" /\ up = <<>> /\ Len(down) <= 1
                        \/ guest.pc = "secrets" /\ down = <<>>
    /\ at = "fetch" => guest.pc = "secrets" /\ down = <<>>
    /\ at = "ready" => \/ guest.pc = "secrets" /\ up = <<>> /\ Len(down) <= 1
                       \/ guest.pc = "ready" /\ down = <<>>
    /\ at = "install" => guest.pc \in {"ready", "serving"}

Stand ==
    guest.conn # None =>
        /\ work.enroll.conn = guest.conn => AtEnroll
        /\ work.reconnect.conn = guest.conn => AtReconnect
        /\ entry.hub = guest.conn => guest.pc \in {"enrolling", "ready", "serving"}

\* What the guest has still to read at each stage, whoever is at the other end; and it asks for
\* nothing before it is served.
Told ==
    /\ guest.pc \in {"boot", "idle", "off"} <=> guest.conn = None
    /\ guest.conn # None =>
        LET down == wire[guest.conn].down IN
        /\ guest.pc = "config" => Len(down) <= 1
        /\ guest.pc = "challenge" => Len(down) <= 1 /\ \A f \in In(down) : f.k = "challenge"
        /\ guest.pc = "accepted" => Len(down) <= 2
        /\ guest.pc = "delivery" => Len(down) <= 1
        /\ guest.pc # "serving" => /\ \A a \in asks : a.conn # guest.conn
                                   /\ \A f \in In(wire[guest.conn].up) : f.k # "ask"

\* A request the current guest made: an earlier one, or the one it waits for.
Mine(id, tag) == id <= guest.seq /\ (id = guest.seq /\ guest.ask # 0 => tag = guest.ask)

\* Everything on its way between the guest and the control plane on the guest's stream is the guest's own.
Voice ==
    guest.conn # None =>
        /\ \A a \in asks : a.conn = guest.conn => Mine(a.id, a.tag)
        /\ \A f \in In(wire[guest.conn].up) : f.k = "ask" => Mine(f.n, f.m)
        /\ \A f \in In(wire[guest.conn].down) : f.k = "answer" => Mine(f.n, f.m)

\* Under one control connection a forward's number stands for one request.
Forwarded ==
    \A a \in asks :
        /\ a.link <= store.runnerGen
        /\ a.at # "hub" => a.link # 0
        /\ a.at # "hub" /\ a.link = link =>
            a.n <= fwd.seq /\ \A f \in fwd.pending : f.n = a.n => f.id = a.id /\ f.hub = a.conn

\* The store has the guest's key, for this placement.
Vouched == past.remint \/ (store.identity = guest.vm /\ store.gen = store.place)
\* The store will not issue epoch n again.
Issued(n) == past.remint \/ n <= store.epoch

\* What an enrolment, and a reconnect, have told the guest and the runner is still true.
KeptGuest ==
    /\ guest.up /\ guest.id = "enrolled" => Vouched /\ Issued(guest.epoch)
    /\ guest.up /\ guest.id # "enrolled" => guest.epoch = 0 /\ guest.pc \in {"boot", "config", "enrolling"}
    /\ guest.up /\ guest.pc \in {"boot", "config"} => guest.id = "none"
    /\ Issued(entry.epoch)
    /\ guest.pc \in {"ready", "serving"} => guest.env = guest.token

KeptEnrolling ==
    guest.conn # None /\ guest.pc = "enrolling" =>
        /\ \A f \in In(wire[guest.conn].up) : f.k = "enroll" /\ f.n = guest.token /\ f.m = guest.vm
        /\ \A f \in In(wire[guest.conn].down) : f.n = guest.token /\ Vouched
        /\ work.enroll.conn = guest.conn /\ work.enroll.pc = "enrolling" /\ work.enroll.call # "no" =>
            /\ work.enroll.token = guest.token
            /\ IF work.enroll.call = "ok" THEN Vouched ELSE work.enroll.n = guest.vm

KeptAccepted ==
    guest.conn # None /\ guest.pc = "accepted" =>
        \A f \in In(wire[guest.conn].down) : f.k = "accepted" => Issued(f.n)

KeptSecrets ==
    guest.conn # None /\ guest.pc = "secrets" =>
        /\ \A f \in In(wire[guest.conn].up) : f.n = guest.token
        /\ \A f \in In(wire[guest.conn].down) : f.n = guest.token
        /\ work.reconnect.conn = guest.conn /\ work.reconnect.pc = "fetch" => work.reconnect.cap = guest.token

KeptReconnect ==
    work.reconnect.gen = entry.gen =>
        /\ work.reconnect.pc = "accept" /\ work.reconnect.call = "ok" => Issued(work.reconnect.n)
        /\ work.reconnect.pc \in {"config", "redeem", "fetch", "ready", "install"} => Issued(work.reconnect.epoch)

Kept == KeptGuest /\ KeptEnrolling /\ KeptAccepted /\ KeptSecrets /\ KeptReconnect

IInv == TypeOK /\ Roles /\ Placed /\ HubUnfenced /\ Wired /\ Sent /\ Stand /\ Told /\ Voice /\ Forwarded /\ Kept

--------------------
\* Streams

\* What is in a stream that is empty, or holds one frame.
LEMMA InFew ==
    /\ In(<<>>) = {}
    /\ \A f : In(<<f>>) = {f}
    /\ \A f, h : In(<<f, h>>) = {f, h}
BY DEF In

\* A frame or two make a stream.
LEMMA FrameSeq ==
    /\ \A f \in Frames : <<f>> \in Seq(Frames)
    /\ \A f, h \in Frames : <<f, h>> \in Seq(Frames)
OBVIOUS

\* What is in two streams put together.
LEMMA InJoin ==
    ASSUME NEW s \in Seq(Frames), NEW t \in Seq(Frames)
    PROVE  s \o t \in Seq(Frames) /\ In(s \o t) = In(s) \cup In(t) /\ Len(s \o t) = Len(s) + Len(t)
<1>1. /\ s \o t \in Seq(Frames) /\ Len(s \o t) = Len(s) + Len(t)
      /\ \A i \in 1 .. Len(s) + Len(t) : (s \o t)[i] = IF i <= Len(s) THEN s[i] ELSE t[i - Len(s)]
  BY ConcatProperties
<1>2. Len(s) \in Nat /\ Len(t) \in Nat /\ DOMAIN s = 1..Len(s) /\ DOMAIN t = 1..Len(t)
  BY LenProperties
<1>3. DOMAIN (s \o t) = 1..(Len(s) + Len(t))
  BY <1>1, LenProperties
<1>4. ASSUME NEW f \in In(s \o t)
      PROVE  f \in In(s) \cup In(t)
  <2>1. PICK i \in 1..(Len(s) + Len(t)) : f = (s \o t)[i]
    BY <1>4, <1>3 DEF In
  <2>2. CASE i <= Len(s)
    BY <2>1, <2>2, <1>1, <1>2 DEF In
  <2>3. CASE ~(i <= Len(s))
    <3>1. i - Len(s) \in 1..Len(t) /\ f = t[i - Len(s)]
      BY <2>1, <2>3, <1>1, <1>2
    <3> QED
      BY <3>1, <1>2 DEF In
  <2> QED
    BY <2>2, <2>3
<1>5. ASSUME NEW f \in In(s)
      PROVE  f \in In(s \o t)
  <2>1. PICK i \in 1..Len(s) : f = s[i]
    BY <1>5, <1>2 DEF In
  <2>2. i \in 1..(Len(s) + Len(t)) /\ f = (s \o t)[i]
    BY <2>1, <1>1, <1>2
  <2> QED
    BY <2>2, <1>3 DEF In
<1>6. ASSUME NEW f \in In(t)
      PROVE  f \in In(s \o t)
  <2>1. PICK i \in 1..Len(t) : f = t[i]
    BY <1>6, <1>2 DEF In
  <2>2. Len(s) + i \in 1..(Len(s) + Len(t)) /\ f = (s \o t)[Len(s) + i]
    BY <2>1, <1>1, <1>2
  <2> QED
    BY <2>2, <1>3 DEF In
<1> QED
  BY <1>1, <1>4, <1>5, <1>6

\* What is left of a stream once its first frame is read.
LEMMA InTail ==
    ASSUME NEW s \in Seq(Frames), s # <<>>
    PROVE  /\ Head(s) \in Frames /\ Head(s) \in In(s)
           /\ Tail(s) \in Seq(Frames) /\ In(Tail(s)) \subseteq In(s)
           /\ Len(s) \in Nat /\ Len(Tail(s)) = Len(s) - 1
           /\ Len(s) <= 1 => Tail(s) = <<>>
<1>1. /\ Head(s) \in Frames /\ Tail(s) \in Seq(Frames) /\ Len(Tail(s)) = Len(s) - 1
      /\ \A i \in 1 .. Len(Tail(s)) : Tail(s)[i] = s[i + 1]
  BY HeadTailProperties
<1>2. Len(s) \in Nat \ {0} /\ DOMAIN s = 1..Len(s)
  BY LenProperties, EmptySeq
<1>3. Head(s) = s[1] /\ Head(s) \in In(s)
  BY <1>2 DEF In
<1>4. ASSUME NEW f \in In(Tail(s))
      PROVE  f \in In(s)
  <2>1. PICK i \in 1..(Len(s) - 1) : f = Tail(s)[i]
    BY <1>4, <1>1, LenProperties DEF In
  <2>2. i + 1 \in 1..Len(s) /\ f = s[i + 1]
    BY <2>1, <1>1, <1>2
  <2> QED
    BY <2>2, <1>2 DEF In
<1>5. Len(s) <= 1 => Tail(s) = <<>>
  BY <1>1, <1>2, EmptySeq
<1> QED
  BY <1>1, <1>2, <1>3, <1>4, <1>5

\* What is in a stream is a frame; an empty stream has no length.
LEMMA InFrames ==
    ASSUME NEW s \in Seq(Frames)
    PROVE  In(s) \subseteq Frames /\ Len(s) \in Nat /\ (Len(s) = 0 <=> s = <<>>)
<1>1. Len(s) \in Nat /\ s \in [1..Len(s) -> Frames] /\ DOMAIN s = 1..Len(s)
  BY LenProperties
<1>2. Len(<<>>) = 0 /\ (s # <<>> => Len(s) \in Nat \ {0})
  BY EmptySeq
<1> QED
  BY <1>1, <1>2 DEF In

\* What a write to the guest's end changes.
LEMMA DownEffect ==
    ASSUME wire \in [Conns -> Streams], NEW c \in Conns, NEW frames \in Seq(Frames)
    PROVE  /\ Down(c, frames) \in [Conns -> Streams]
           /\ \A d \in Conns : /\ Down(c, frames)[d].host = wire[d].host /\ Down(c, frames)[d].guest = wire[d].guest
                               /\ Down(c, frames)[d].up = wire[d].up
                               /\ d # c => Down(c, frames)[d] = wire[d]
           /\ wire[c].host /\ wire[c].guest => Down(c, frames)[c].down = wire[c].down \o frames
           /\ ~(wire[c].host /\ wire[c].guest) => Down(c, frames) = wire
<1>1. wire[c] \in Streams /\ wire[c].down \o frames \in Seq(Frames)
  BY InJoin DEF Streams
<1> QED
  BY <1>1 DEF Down, Streams

\* What a write to the runner's end changes.
LEMMA UpEffect ==
    ASSUME wire \in [Conns -> Streams], NEW c \in Conns, NEW frames \in Seq(Frames)
    PROVE  /\ Up(c, frames) \in [Conns -> Streams]
           /\ \A d \in Conns : /\ Up(c, frames)[d].host = wire[d].host /\ Up(c, frames)[d].guest = wire[d].guest
                               /\ Up(c, frames)[d].down = wire[d].down
                               /\ d # c => Up(c, frames)[d] = wire[d]
           /\ wire[c].host /\ wire[c].guest => Up(c, frames)[c].up = wire[c].up \o frames
           /\ ~(wire[c].host /\ wire[c].guest) => Up(c, frames) = wire
<1>1. wire[c] \in Streams /\ wire[c].up \o frames \in Seq(Frames)
  BY InJoin DEF Streams
<1> QED
  BY <1>1 DEF Up, Streams

\* What the reading of a frame at the guest's end changes.
LEMMA TakeDownEffect ==
    ASSUME NEW v \in [Conns -> Streams], NEW c \in Conns, v[c].down # <<>>
    PROVE  /\ TakeDown(v, c) \in [Conns -> Streams]
           /\ \A d \in Conns : /\ TakeDown(v, c)[d].host = v[d].host /\ TakeDown(v, c)[d].guest = v[d].guest
                               /\ TakeDown(v, c)[d].up = v[d].up
                               /\ d # c => TakeDown(v, c)[d] = v[d]
           /\ TakeDown(v, c)[c].down = Tail(v[c].down)
<1>1. v[c] \in Streams /\ Tail(v[c].down) \in Seq(Frames)
  BY InTail DEF Streams
<1> QED
  BY <1>1 DEF TakeDown, Streams

\* What the reading of a frame at the runner's end changes.
LEMMA TakeUpEffect ==
    ASSUME NEW v \in [Conns -> Streams], NEW c \in Conns, v[c].up # <<>>
    PROVE  /\ TakeUp(v, c) \in [Conns -> Streams]
           /\ \A d \in Conns : /\ TakeUp(v, c)[d].host = v[d].host /\ TakeUp(v, c)[d].guest = v[d].guest
                               /\ TakeUp(v, c)[d].down = v[d].down
                               /\ d # c => TakeUp(v, c)[d] = v[d]
           /\ TakeUp(v, c)[c].up = Tail(v[c].up)
<1>1. v[c] \in Streams /\ Tail(v[c].up) \in Seq(Frames)
  BY InTail DEF Streams
<1> QED
  BY <1>1 DEF TakeUp, Streams

\* What the guest's answer to a frame changes.
LEMMA RepliedEffect ==
    ASSUME wire \in [Conns -> Streams], guest.conn \in Conns, NEW frames \in Seq(Frames), wire[guest.conn].down # <<>>
    PROVE  /\ Replied(frames) \in [Conns -> Streams]
           /\ \A d \in Conns : /\ Replied(frames)[d].host = wire[d].host /\ Replied(frames)[d].guest = wire[d].guest
                               /\ d # guest.conn => Replied(frames)[d] = wire[d]
           /\ Replied(frames)[guest.conn].down = Tail(wire[guest.conn].down)
           /\ Replied(frames)[guest.conn].up = IF wire[guest.conn].host /\ wire[guest.conn].guest
                                               THEN wire[guest.conn].up \o frames ELSE wire[guest.conn].up
<1>1. PICK c \in Conns : c = guest.conn
  OBVIOUS
<1>2. PICK u : u = Up(c, frames)
  OBVIOUS
<1>3. /\ u \in [Conns -> Streams]
      /\ \A d \in Conns : /\ u[d].host = wire[d].host /\ u[d].guest = wire[d].guest
                          /\ u[d].down = wire[d].down
                          /\ d # c => u[d] = wire[d]
      /\ u[c].up = IF wire[c].host /\ wire[c].guest THEN wire[c].up \o frames ELSE wire[c].up
  BY <1>2, UpEffect
<1>4. Replied(frames) = TakeDown(u, c)
  BY <1>1, <1>2 DEF Replied
<1> QED
  BY <1>1, <1>3, <1>4, TakeDownEffect

\* What the closing of the runner's end changes.
LEMMA HostClosesEffect ==
    ASSUME NEW v \in [Conns -> Streams], NEW c \in Sockets
    PROVE  /\ HostCloses(v, c) \in [Conns -> Streams]
           /\ \A d \in Conns : /\ HostCloses(v, c)[d].guest = v[d].guest /\ HostCloses(v, c)[d].down = v[d].down
                               /\ d # c => HostCloses(v, c)[d] = v[d]
           /\ c # None => ~HostCloses(v, c)[c].host /\ HostCloses(v, c)[c].up = <<>>
<1>1. <<>> \in Seq(Frames)
  BY EmptySeq
<1> QED
  BY <1>1, ReconnectAssumption DEF HostCloses, Streams, Sockets, None

\* What the closing of the guest's end changes.
LEMMA GuestClosesEffect ==
    ASSUME NEW v \in [Conns -> Streams], NEW c \in Sockets
    PROVE  /\ GuestCloses(v, c) \in [Conns -> Streams]
           /\ \A d \in Conns : /\ GuestCloses(v, c)[d].host = v[d].host /\ GuestCloses(v, c)[d].up = v[d].up
                               /\ d # c => GuestCloses(v, c)[d] = v[d]
           /\ c # None => ~GuestCloses(v, c)[c].guest /\ GuestCloses(v, c)[c].down = <<>>
<1>1. <<>> \in Seq(Frames)
  BY EmptySeq
<1> QED
  BY <1>1, ReconnectAssumption DEF GuestCloses, Streams, Sockets, None

\* Where connections are named, they are streams or none.
LEMMA Shapes ==
    ASSUME TypeOK
    PROVE  /\ \A c \in Conns : c # None
           /\ guest.conn # None => guest.conn \in Conns
           /\ entry.hub # None => entry.hub \in Conns
           /\ \A w \in Workers : work[w] \in Jobs /\ (work[w].conn # None => work[w].conn \in Conns)
           /\ wire \in [Conns -> Streams]
           /\ \A c \in Conns : wire[c].up \in Seq(Frames) /\ wire[c].down \in Seq(Frames)
BY ReconnectAssumption DEF TypeOK, Guests, Entries, Jobs, Sockets, Streams, None

\* a connection that is named is one
Shaped == /\ \A c \in Conns : c # None
          /\ guest.conn # None => guest.conn \in Conns
          /\ entry.hub # None => entry.hub \in Conns
          /\ \A w \in Workers : work[w].conn # None => work[w].conn \in Conns

--------------------
\* Steps that only take frames, streams and workers away

\* s was t, some of which may have been read or lost.
Shrunk(s, t) == In(s) \subseteq In(t) /\ Len(s) <= Len(t) /\ (t = <<>> => s = <<>>)

Shrinks ==
    /\ \A c \in Conns : Shrunk(wire'[c].up, wire[c].up) /\ Shrunk(wire'[c].down, wire[c].down)
    /\ \A w \in Speakers : work'[w] = work[w] \/ work'[w] = NoWork
    /\ entry'.hub \in {entry.hub, None} /\ guest' = guest

\* A stream read, emptied or left alone has shrunk.
LEMMA ShrunkStreams ==
    ASSUME NEW s \in Seq(Frames)
    PROVE  /\ Shrunk(s, s) /\ Shrunk(<<>>, s)
           /\ s # <<>> => Shrunk(Tail(s), s)
<1>1. Len(s) \in Nat /\ In(<<>>) = {} /\ Len(<<>>) = 0
  BY InFrames, InFew, EmptySeq
<1>2. s # <<>> => In(Tail(s)) \subseteq In(s) /\ Len(Tail(s)) = Len(s) - 1
  BY InTail
<1> QED
  BY <1>1, <1>2 DEF Shrunk

\* What the guest may have sent stays what its worker expects.
LEMMA SentShrinks ==
    ASSUME TypeOK, TypeOK', Roles, Sent, Shrinks
    PROVE  Sent'
<1>1. \A w \in Speakers : w \in Workers
  BY DEF Speakers, Workers
<1>2. /\ \A c \in Conns : c # None
      /\ entry.hub # None => entry.hub \in Conns
      /\ \A w \in Workers : work[w].conn # None => work[w].conn \in Conns
      /\ \A c \in Conns : wire[c].up \in Seq(Frames) /\ wire'[c].up \in Seq(Frames)
  BY Shapes DEF TypeOK, Streams
<1>3. ASSUME NEW c \in Conns, OnlyAsks(c)
      PROVE  OnlyAsks(c)'
  BY <1>3 DEF OnlyAsks, Shrinks, Shrunk
<1>4. ASSUME entry'.hub # None
      PROVE  OnlyAsks(entry.hub)'
  BY <1>2, <1>3, <1>4 DEF Sent, Shrinks
<1>5. ASSUME NEW w \in Speakers, work'[w].pc # "idle"
      PROVE  /\ work'[w].pc \in Calling => wire'[work'[w].conn].up = <<>>
             /\ work'[w].pc = "install" => OnlyAsks(work[w].conn)'
             /\ work'[w].pc \notin Calling \cup {"install"} => Len(wire'[work'[w].conn].up) <= 1
  <2>1. work'[w] = work[w]
    BY <1>5 DEF Shrinks, NoWork
  <2>2. PICK c \in Conns : c = work[w].conn
    BY <1>1, <1>2, <1>5, <2>1 DEF Roles
  <2>3. Len(wire[c].up) \in Nat /\ Len(wire'[c].up) \in Nat /\ Shrunk(wire'[c].up, wire[c].up)
    BY <1>2, InFrames DEF Shrinks
  <2>4. /\ work[w].pc \in Calling => wire[c].up = <<>>
        /\ work[w].pc = "install" => OnlyAsks(c)
        /\ work[w].pc \notin Calling \cup {"install"} => Len(wire[c].up) <= 1
    BY <1>5, <2>1, <2>2 DEF Sent
  <2> QED
    BY <1>3, <2>1, <2>2, <2>3, <2>4 DEF Shrunk
<1> QED
  BY <1>4, <1>5 DEF Sent, OnlyAsks, Shrinks

\* The guest stands where its worker or the hub expects it.
LEMMA StandShrinks ==
    ASSUME TypeOK, TypeOK', Stand, Shrinks
    PROVE  Stand'
<1> SUFFICES ASSUME guest'.conn # None
             PROVE  /\ work'.enroll.conn = guest'.conn => AtEnroll'
                    /\ work'.reconnect.conn = guest'.conn => AtReconnect'
                    /\ entry'.hub = guest'.conn => guest'.pc \in {"enrolling", "ready", "serving"}
  BY DEF Stand
<1>1. PICK c \in Conns : c = guest.conn /\ guest' = guest
  BY Shapes DEF Shrinks
<1>2. /\ wire[c].down \in Seq(Frames) /\ wire'[c].down \in Seq(Frames)
      /\ Shrunk(wire'[c].up, wire[c].up) /\ Shrunk(wire'[c].down, wire[c].down)
  BY DEF Shrinks, TypeOK, Streams
<1>3. Len(wire[c].down) \in Nat /\ Len(wire'[c].down) \in Nat
  BY <1>2, InFrames
<1>4. ASSUME work'.enroll.conn = c
      PROVE  AtEnroll'
  <2>1. work'.enroll = work.enroll
    BY <1>1, <1>4 DEF Shrinks, NoWork, Speakers
  <2>2. AtEnroll
    BY <1>1, <1>4, <2>1 DEF Stand
  <2> QED
    BY <1>1, <1>2, <1>3, <2>1, <2>2 DEF AtEnroll, Shrunk
<1>5. ASSUME work'.reconnect.conn = c
      PROVE  AtReconnect'
  <2>1. work'.reconnect = work.reconnect
    BY <1>1, <1>5 DEF Shrinks, NoWork, Speakers
  <2>2. AtReconnect
    BY <1>1, <1>5, <2>1 DEF Stand
  <2> QED
    BY <1>1, <1>2, <1>3, <2>1, <2>2 DEF AtReconnect, Shrunk
<1>6. entry'.hub = c => guest.pc \in {"enrolling", "ready", "serving"}
  BY <1>1 DEF Stand, Shrinks
<1> QED
  BY <1>1, <1>4, <1>5, <1>6

\* What the guest has still to read only shrinks.
LEMMA ToldShrinks ==
    ASSUME TypeOK, TypeOK', Told, Shrinks, asks' \subseteq asks
    PROVE  Told'
<1>1. guest' = guest
  BY DEF Shrinks
<1>2. ASSUME guest.conn # None
      PROVE  LET down == wire'[guest.conn].down IN
             /\ guest.pc = "config" => Len(down) <= 1
             /\ guest.pc = "challenge" => Len(down) <= 1 /\ \A f \in In(down) : f.k = "challenge"
             /\ guest.pc = "accepted" => Len(down) <= 2
             /\ guest.pc = "delivery" => Len(down) <= 1
             /\ guest.pc # "serving" => /\ \A a \in asks' : a.conn # guest.conn
                                        /\ \A f \in In(wire'[guest.conn].up) : f.k # "ask"
  <2>1. PICK c \in Conns : c = guest.conn
    BY <1>2, Shapes
  <2>2. wire[c].down \in Seq(Frames) /\ wire'[c].down \in Seq(Frames)
    BY DEF TypeOK, Streams
  <2>3. Len(wire[c].down) \in Nat /\ Len(wire'[c].down) \in Nat
    BY <2>2, InFrames
  <2>4. /\ In(wire'[c].down) \subseteq In(wire[c].down) /\ Len(wire'[c].down) <= Len(wire[c].down)
        /\ In(wire'[c].up) \subseteq In(wire[c].up)
    BY DEF Shrinks, Shrunk
  <2> QED
    BY <1>2, <2>1, <2>3, <2>4 DEF Told
<1> QED
  BY <1>1, <1>2 DEF Told

\* The requests and answers of the guest's stream stay its own.
LEMMA VoiceShrinks ==
    ASSUME TypeOK, Voice, Shrinks, asks' \subseteq asks
    PROVE  Voice'
<1> SUFFICES ASSUME guest'.conn # None
             PROVE  /\ \A a \in asks' : a.conn = guest'.conn => Mine(a.id, a.tag)'
                    /\ \A f \in In(wire'[guest'.conn].up) : f.k = "ask" => Mine(f.n, f.m)'
                    /\ \A f \in In(wire'[guest'.conn].down) : f.k = "answer" => Mine(f.n, f.m)'
  BY DEF Voice, Mine
<1>1. PICK c \in Conns : c = guest.conn /\ guest' = guest
  BY Shapes DEF Shrinks
<1>2. In(wire'[c].up) \subseteq In(wire[c].up) /\ In(wire'[c].down) \subseteq In(wire[c].down)
  BY DEF Shrinks, Shrunk
<1> QED
  BY <1>1, <1>2 DEF Voice, Mine

\* What the guest, its worker and the runner were told stays true.
LEMMA KeptShrinks ==
    ASSUME TypeOK, TypeOK', Kept, Shrinks, entry'.gen = entry.gen, entry'.epoch = entry.epoch,
           Vouched => Vouched', \A n \in Nat : Issued(n) => Issued(n)'
    PROVE  Kept'
<1>1. guest' = guest
  BY DEF Shrinks
<1>2. /\ Vouched => Vouched'
      /\ \A n \in Nat : Issued(n) => Issued(n)'
  OBVIOUS
<1>3. /\ guest'.up /\ guest'.id = "enrolled" => Vouched' /\ Issued(guest.epoch)'
      /\ guest'.up /\ guest'.id # "enrolled" => guest'.epoch = 0 /\ guest'.pc \in {"boot", "config", "enrolling"}
      /\ guest'.up /\ guest'.pc \in {"boot", "config"} => guest'.id = "none"
      /\ Issued(entry.epoch)'
      /\ guest'.pc \in {"ready", "serving"} => guest'.env = guest'.token
  <2>1. guest.epoch \in Nat /\ entry.epoch \in Nat
    BY DEF TypeOK, Guests, Entries
  <2> QED
    BY <1>1, <1>2, <2>1 DEF Kept, KeptGuest, KeptEnrolling, KeptAccepted, KeptSecrets, KeptReconnect, Issued
<1>4. ASSUME guest.conn # None
      PROVE  /\ guest.pc = "enrolling" =>
                 /\ \A f \in In(wire'[guest.conn].up) : f.k = "enroll" /\ f.n = guest.token /\ f.m = guest.vm
                 /\ \A f \in In(wire'[guest.conn].down) : f.n = guest.token /\ Vouched'
                 /\ work'.enroll.conn = guest.conn /\ work'.enroll.pc = "enrolling" /\ work'.enroll.call # "no" =>
                     /\ work'.enroll.token = guest.token
                     /\ IF work'.enroll.call = "ok" THEN Vouched' ELSE work'.enroll.n = guest.vm
             /\ guest.pc = "accepted" =>
                 \A f \in In(wire'[guest.conn].down) : f.k = "accepted" => Issued(f.n)'
             /\ guest.pc = "secrets" =>
                 /\ \A f \in In(wire'[guest.conn].up) : f.n = guest.token
                 /\ \A f \in In(wire'[guest.conn].down) : f.n = guest.token
                 /\ work'.reconnect.conn = guest.conn /\ work'.reconnect.pc = "fetch" => work'.reconnect.cap = guest.token
  <2>1. PICK c \in Conns : c = guest.conn
    BY <1>4, Shapes
  <2>2. In(wire'[c].up) \subseteq In(wire[c].up) /\ In(wire'[c].down) \subseteq In(wire[c].down)
    BY DEF Shrinks, Shrunk
  <2>3. \A f \in In(wire[c].down) : f.n \in Nat
    BY InFrames, Shapes DEF Frames
  <2>4. /\ work'.enroll.conn = c => work'.enroll = work.enroll
        /\ work'.reconnect.conn = c => work'.reconnect = work.reconnect
    BY <2>1, Shapes DEF Shrinks, NoWork, Speakers
  <2>5. guest.pc = "accepted" => \A f \in In(wire'[c].down) : f.k = "accepted" => Issued(f.n)'
    BY <1>2, <1>4, <2>1, <2>2, <2>3 DEF Kept, KeptGuest, KeptEnrolling, KeptAccepted, KeptSecrets, KeptReconnect
  <2> QED
    BY <1>2, <1>4, <2>1, <2>2, <2>4, <2>5 DEF Kept, KeptGuest, KeptEnrolling, KeptAccepted, KeptSecrets, KeptReconnect
<1>5. ASSUME work'.reconnect.gen = entry'.gen
      PROVE  /\ work'.reconnect.pc = "accept" /\ work'.reconnect.call = "ok" => Issued(work.reconnect.n)'
             /\ work'.reconnect.pc \in {"config", "redeem", "fetch", "ready", "install"} => Issued(work.reconnect.epoch)'
  <2>1. work'.reconnect = work.reconnect
    BY <1>5 DEF Shrinks, NoWork, Speakers, TypeOK, Entries
  <2>2. work.reconnect.n \in Nat /\ work.reconnect.epoch \in Nat
    BY DEF TypeOK, Jobs, Workers
  <2> QED
    BY <1>2, <1>5, <2>1, <2>2 DEF Kept, KeptGuest, KeptEnrolling, KeptAccepted, KeptSecrets, KeptReconnect
<1> QED
  BY <1>1, <1>3, <1>4, <1>5 DEF Kept, KeptGuest, KeptEnrolling, KeptAccepted, KeptSecrets, KeptReconnect,
     Vouched, Issued, Shrinks
--------------------
\* Steps of one worker on its stream

\* What the guest of another stream may have sent is as it was.
LEMMA SentOther ==
    ASSUME TypeOK, Roles, Wired, Sent, NEW w \in Speakers, NEW c \in Conns, c = work[w].conn, entry' = entry,
           \A d \in Conns : d # c => wire'[d].up = wire[d].up,
           \A x \in Speakers : x # w => work'[x] = work[x],
           work'[w].conn = c,
           work'[w].pc \in Calling => wire'[c].up = <<>>,
           work'[w].pc = "install" => \A f \in In(wire'[c].up) : f.k = "ask",
           work'[w].pc \notin Calling \cup {"install"} => Len(wire'[c].up) <= 1
    PROVE  Sent'
<1>1. /\ \A x \in Conns : x # None
      /\ entry.hub # None => entry.hub \in Conns
      /\ \A x \in Workers : work[x].conn # None => work[x].conn \in Conns
      /\ \A x \in Speakers : x \in Workers
  BY Shapes DEF Speakers, Workers
<1>2. ASSUME entry'.hub # None
      PROVE  OnlyAsks(entry.hub)'
  <2>1. entry.hub # c /\ entry.hub \in Conns
    BY <1>1, <1>2 DEF Wired
  <2> QED
    BY <1>2, <2>1 DEF Sent, OnlyAsks
<1>3. ASSUME NEW x \in Speakers, work'[x].pc # "idle"
      PROVE  /\ work'[x].pc \in Calling => wire'[work'[x].conn].up = <<>>
             /\ work'[x].pc = "install" => OnlyAsks(work[x].conn)'
             /\ work'[x].pc \notin Calling \cup {"install"} => Len(wire'[work'[x].conn].up) <= 1
  <2>1. CASE x = w
    BY <2>1 DEF OnlyAsks
  <2>2. CASE x # w
    <3>1. work'[x] = work[x]
      BY <2>2
    <3>2. work[x].conn # c /\ work[x].conn \in Conns
      BY <1>1, <1>3, <2>2, <3>1 DEF Wired, Roles, Speakers
    <3> QED
      BY <1>3, <3>1, <3>2 DEF Sent, OnlyAsks
  <2> QED
    BY <2>1, <2>2
<1> QED
  BY <1>2, <1>3 DEF Sent, OnlyAsks


--------------------
\* Steps of the store, of the control connection, and of requests

\* The pending attempt, or the token, expires.
LEMMA ExpireStep ==
    ASSUME IInv, Expire
    PROVE  IInv'
<1> USE DEF IInv
<1>same. /\ link' = link /\ entry' = entry /\ chan' = chan /\ guest' = guest /\ wire' = wire /\ work' = work
         /\ late' = late /\ asks' = asks /\ fwd' = fwd /\ past' = past
  BY DEF Expire
<1>row. store \in Rows
  BY DEF TypeOK
<1>how. store' = [store EXCEPT !.attempt = 0, !.by = 0] \/ store' = [store EXCEPT !.consumed = TRUE]
  BY DEF Expire
<1>store. /\ store' \in Rows /\ store'.token = store.token /\ store'.minted = store.minted
          /\ store'.gen = store.gen /\ store'.place = store.place /\ store'.on = store.on
          /\ store'.identity = store.identity /\ store'.tries = store.tries /\ store'.epoch = store.epoch
          /\ store'.runnerGen = store.runnerGen /\ store'.connected = store.connected
          /\ store'.edited = store.edited
  <2>1. CASE store' = [store EXCEPT !.attempt = 0, !.by = 0]
    BY <1>row, <2>1 DEF Rows
  <2>2. CASE store' = [store EXCEPT !.consumed = TRUE]
    BY <1>row, <2>2 DEF Rows
  <2> QED
    BY <1>how, <2>1, <2>2
<1> USE <1>same, <1>row, <1>store
<1>1. TypeOK'
  BY DEF TypeOK
<1>2. Roles'
  BY DEF Roles, Speakers, None, Workers
<1>3. Placed'
  BY DEF Placed, Speakers, None, Workers
<1>4. HubUnfenced'
  BY DEF HubUnfenced
<1>5. Wired'
  BY DEF Wired, Speakers, None, Workers
<1>6. Sent'
  BY DEF Sent, OnlyAsks, Speakers, Workers, Calling, None
<1>7. Stand'
  BY DEF Stand, AtEnroll, AtReconnect, None, Workers
<1>8. Told'
  BY DEF Told, None
<1>9. Voice'
  BY DEF Voice, Mine, None
<1>10. Forwarded'
  BY DEF Forwarded
<1>11. Kept'
  <2> USE DEF Kept, Vouched, Issued, None, Workers
  <2>1. KeptGuest'
    BY DEF KeptGuest
  <2>2. KeptEnrolling'
    BY DEF KeptEnrolling
  <2>3. KeptAccepted'
    BY DEF KeptAccepted
  <2>4. KeptSecrets'
    BY DEF KeptSecrets
  <2>5. KeptReconnect'
    BY DEF KeptReconnect
  <2> QED
    BY <2>1, <2>2, <2>3, <2>4, <2>5
<1> QED
  BY <1>1, <1>2, <1>3, <1>4, <1>5, <1>6, <1>7, <1>8, <1>9, <1>10, <1>11

\* The environment is edited.
LEMMA EditStep ==
    ASSUME IInv, Edit
    PROVE  IInv'
<1> USE DEF IInv
<1>same. /\ link' = link /\ entry' = entry /\ chan' = chan /\ guest' = guest /\ wire' = wire /\ work' = work
         /\ late' = late /\ asks' = asks /\ fwd' = fwd /\ past' = past
  BY DEF Edit
<1>store1. store \in Rows
  BY DEF TypeOK
<1>store2. store' = [store EXCEPT !.edited = TRUE]
  BY DEF Edit
<1>store. /\ store'.token = store.token /\ store'.consumed = store.consumed /\ store'.minted = store.minted
          /\ store'.gen = store.gen /\ store'.place = store.place /\ store'.on = store.on
          /\ store'.identity = store.identity /\ store'.attempt = store.attempt /\ store'.by = store.by
          /\ store'.tries = store.tries /\ store'.epoch = store.epoch /\ store'.runnerGen = store.runnerGen
          /\ store'.connected = store.connected /\ store'.edited = TRUE /\ store' \in Rows
  BY <1>store1, <1>store2 DEF Rows, Sockets, None
<1> USE <1>same, <1>store
<1>1. TypeOK'
  BY DEF TypeOK
<1>2. Roles'
  BY DEF Roles, Speakers, None, Workers
<1>3. Placed'
  BY DEF Placed, Speakers, None, Workers
<1>4. HubUnfenced'
  BY DEF HubUnfenced
<1>5. Wired'
  BY DEF Wired, Speakers, None, Workers
<1>6. Sent'
  BY DEF Sent, OnlyAsks, Speakers, Workers, Calling, None
<1>7. Stand'
  BY DEF Stand, AtEnroll, AtReconnect, None, Workers
<1>8. Told'
  BY DEF Told, None
<1>9. Voice'
  BY DEF Voice, Mine, None
<1>10. Forwarded'
  BY DEF Forwarded
<1>11. Kept'
  <2> USE DEF Kept, Vouched, Issued, None, Workers
  <2>1. KeptGuest'
    BY DEF KeptGuest
  <2>2. KeptEnrolling'
    BY DEF KeptEnrolling
  <2>3. KeptAccepted'
    BY DEF KeptAccepted
  <2>4. KeptSecrets'
    BY DEF KeptSecrets
  <2>5. KeptReconnect'
    BY DEF KeptReconnect
  <2> QED
    BY <2>1, <2>2, <2>3, <2>4, <2>5
<1> QED
  BY <1>1, <1>2, <1>3, <1>4, <1>5, <1>6, <1>7, <1>8, <1>9, <1>10, <1>11

\* The control connection is lost.
LEMMA LinkLostStep ==
    ASSUME IInv, LinkLost
    PROVE  IInv'
<1> USE DEF IInv
<1>same. /\ store' = store /\ entry' = entry /\ chan' = chan /\ guest' = guest /\ wire' = wire /\ work' = work
         /\ late' = late /\ asks' = asks /\ fwd' = fwd /\ past' = past
  BY DEF LinkLost
<1>link. link' = 0
  BY DEF LinkLost
<1> USE <1>same, <1>link
<1>1. TypeOK'
  BY DEF TypeOK
<1>2. Roles'
  BY DEF Roles, Speakers, None, Workers
<1>3. Placed'
  BY DEF Placed, Speakers, None, Workers
<1>4. HubUnfenced'
  BY DEF HubUnfenced
<1>5. Wired'
  BY DEF Wired, Speakers, None, Workers
<1>6. Sent'
  BY DEF Sent, OnlyAsks, Speakers, Workers, Calling, None
<1>7. Stand'
  BY DEF Stand, AtEnroll, AtReconnect, None, Workers
<1>8. Told'
  BY DEF Told, None
<1>9. Voice'
  BY DEF Voice, Mine, None
<1>10. Forwarded'
  BY DEF Forwarded
<1>11. Kept'
  <2> USE DEF Kept, Vouched, Issued, None, Workers
  <2>1. KeptGuest'
    BY DEF KeptGuest
  <2>2. KeptEnrolling'
    BY DEF KeptEnrolling
  <2>3. KeptAccepted'
    BY DEF KeptAccepted
  <2>4. KeptSecrets'
    BY DEF KeptSecrets
  <2>5. KeptReconnect'
    BY DEF KeptReconnect
  <2> QED
    BY <2>1, <2>2, <2>3, <2>4, <2>5
<1> QED
  BY <1>1, <1>2, <1>3, <1>4, <1>5, <1>6, <1>7, <1>8, <1>9, <1>10, <1>11

\* The control plane notices.
LEMMA DisconnectedStep ==
    ASSUME IInv, Disconnected
    PROVE  IInv'
<1> USE DEF IInv
<1>same. /\ link' = link /\ entry' = entry /\ chan' = chan /\ guest' = guest /\ wire' = wire /\ work' = work
         /\ late' = late /\ asks' = asks /\ fwd' = fwd /\ past' = past
  BY DEF Disconnected
<1>store1. store \in Rows
  BY DEF TypeOK
<1>store2. store' = [store EXCEPT !.connected = FALSE]
  BY DEF Disconnected
<1>store. /\ store'.token = store.token /\ store'.consumed = store.consumed /\ store'.minted = store.minted
          /\ store'.gen = store.gen /\ store'.place = store.place /\ store'.on = store.on
          /\ store'.identity = store.identity /\ store'.attempt = store.attempt /\ store'.by = store.by
          /\ store'.tries = store.tries /\ store'.epoch = store.epoch /\ store'.runnerGen = store.runnerGen
          /\ store'.connected = FALSE /\ store'.edited = store.edited /\ store' \in Rows
  BY <1>store1, <1>store2 DEF Rows, Sockets, None
<1> USE <1>same, <1>store
<1>1. TypeOK'
  BY DEF TypeOK
<1>2. Roles'
  BY DEF Roles, Speakers, None, Workers
<1>3. Placed'
  BY DEF Placed, Speakers, None, Workers
<1>4. HubUnfenced'
  BY DEF HubUnfenced
<1>5. Wired'
  BY DEF Wired, Speakers, None, Workers
<1>6. Sent'
  BY DEF Sent, OnlyAsks, Speakers, Workers, Calling, None
<1>7. Stand'
  BY DEF Stand, AtEnroll, AtReconnect, None, Workers
<1>8. Told'
  BY DEF Told, None
<1>9. Voice'
  BY DEF Voice, Mine, None
<1>10. Forwarded'
  BY DEF Forwarded
<1>11. Kept'
  <2> USE DEF Kept, Vouched, Issued, None, Workers
  <2>1. KeptGuest'
    BY DEF KeptGuest
  <2>2. KeptEnrolling'
    BY DEF KeptEnrolling
  <2>3. KeptAccepted'
    BY DEF KeptAccepted
  <2>4. KeptSecrets'
    BY DEF KeptSecrets
  <2>5. KeptReconnect'
    BY DEF KeptReconnect
  <2> QED
    BY <2>1, <2>2, <2>3, <2>4, <2>5
<1> QED
  BY <1>1, <1>2, <1>3, <1>4, <1>5, <1>6, <1>7, <1>8, <1>9, <1>10, <1>11

\* The runner registers again.
LEMMA LinkUpStep ==
    ASSUME IInv, LinkUp
    PROVE  IInv'
<1> USE DEF IInv
<1>same. /\ entry' = entry /\ chan' = chan /\ guest' = guest /\ wire' = wire /\ work' = work /\ late' = late
         /\ asks' = asks /\ fwd' = fwd /\ past' = past
  BY DEF LinkUp
<1>v. PICK v \in Nat : v = store.runnerGen + 1
  BY DEF TypeOK, Rows
<1>store1. store \in Rows
  BY DEF TypeOK
<1>store2. store' = [store EXCEPT !.runnerGen = v, !.connected = TRUE]
  BY <1>v DEF LinkUp
<1>store. /\ store'.token = store.token /\ store'.consumed = store.consumed /\ store'.minted = store.minted
          /\ store'.gen = store.gen /\ store'.place = store.place /\ store'.on = store.on
          /\ store'.identity = store.identity /\ store'.attempt = store.attempt /\ store'.by = store.by
          /\ store'.tries = store.tries /\ store'.epoch = store.epoch /\ store'.runnerGen = v
          /\ store'.connected = TRUE /\ store'.edited = store.edited /\ store' \in Rows
  BY <1>v, <1>store1, <1>store2 DEF Rows, Sockets, None
<1>link. link' = v
  BY <1>v DEF LinkUp
<1>nums. store.runnerGen \in Nat /\ \A a \in asks : a.link \in Nat
  BY DEF TypeOK, Rows, Requests
<1> USE <1>same, <1>v, <1>store, <1>link, <1>nums
<1>1. TypeOK'
  BY DEF TypeOK, Rows
<1>2. Roles'
  BY DEF Roles, Speakers, None, Workers
<1>3. Placed'
  BY DEF Placed, Speakers, None, Workers
<1>4. HubUnfenced'
  BY DEF HubUnfenced
<1>5. Wired'
  BY DEF Wired, Speakers, None, Workers
<1>6. Sent'
  BY DEF Sent, OnlyAsks, Speakers, Workers, Calling, None
<1>7. Stand'
  BY DEF Stand, AtEnroll, AtReconnect, None, Workers
<1>8. Told'
  BY DEF Told, None
<1>9. Voice'
  BY DEF Voice, Mine, None
<1>10. Forwarded'
  BY DEF Forwarded
<1>11. Kept'
  <2> USE DEF Kept, Vouched, Issued, None, Workers
  <2>1. KeptGuest'
    BY DEF KeptGuest
  <2>2. KeptEnrolling'
    BY DEF KeptEnrolling
  <2>3. KeptAccepted'
    BY DEF KeptAccepted
  <2>4. KeptSecrets'
    BY DEF KeptSecrets
  <2>5. KeptReconnect'
    BY DEF KeptReconnect
  <2> QED
    BY <2>1, <2>2, <2>3, <2>4, <2>5
<1> QED
  BY <1>1, <1>2, <1>3, <1>4, <1>5, <1>6, <1>7, <1>8, <1>9, <1>10, <1>11

\* The control plane answers a guest's request.
LEMMA AskAnsweredStep ==
    ASSUME IInv, NEW a, AskAnswered(a)
    PROVE  IInv'
<1> USE DEF IInv
<1>same. /\ store' = store /\ link' = link /\ entry' = entry /\ chan' = chan /\ guest' = guest /\ wire' = wire
         /\ work' = work /\ late' = late /\ fwd' = fwd /\ past' = past
  BY DEF AskAnswered
<1>a. a \in asks /\ a \in Requests /\ a.at = "up"
  BY DEF AskAnswered, TypeOK
<1>b1. PICK b : b = [a EXCEPT !.at = "down"]
  OBVIOUS
<1>b. /\ b.at = "down" /\ b.n = a.n /\ b.id = a.id /\ b.tag = a.tag /\ b.conn = a.conn /\ b.boot = a.boot
      /\ b.gen = a.gen /\ b.link = a.link /\ b \in Requests
  BY <1>a, <1>b1 DEF Requests
<1>asks. asks' \subseteq asks \cup {b}
  BY <1>b1 DEF AskAnswered
<1> USE <1>same, <1>a, <1>b, <1>asks
<1>1. TypeOK'
  BY DEF TypeOK
<1>2. Roles'
  BY DEF Roles, Speakers, None, Workers
<1>3. Placed'
  BY DEF Placed, Speakers, None, Workers
<1>4. HubUnfenced'
  BY DEF HubUnfenced
<1>5. Wired'
  BY DEF Wired, Speakers, None, Workers
<1>6. Sent'
  BY DEF Sent, OnlyAsks, Speakers, Workers, Calling, None
<1>7. Stand'
  BY DEF Stand, AtEnroll, AtReconnect, None, Workers
<1>8. Told'
  BY DEF Told, None
<1>9. Voice'
  BY DEF Voice, Mine, None
<1>10. Forwarded'
  BY DEF Forwarded
<1>11. Kept'
  <2> USE DEF Kept, Vouched, Issued, None, Workers
  <2>1. KeptGuest'
    BY DEF KeptGuest
  <2>2. KeptEnrolling'
    BY DEF KeptEnrolling
  <2>3. KeptAccepted'
    BY DEF KeptAccepted
  <2>4. KeptSecrets'
    BY DEF KeptSecrets
  <2>5. KeptReconnect'
    BY DEF KeptReconnect
  <2> QED
    BY <2>1, <2>2, <2>3, <2>4, <2>5
<1> QED
  BY <1>1, <1>2, <1>3, <1>4, <1>5, <1>6, <1>7, <1>8, <1>9, <1>10, <1>11

\* A guest's request is sent up under a number of the runner's.
LEMMA SendOwnedStep ==
    ASSUME IInv, NEW a, SendOwned(a)
    PROVE  IInv'
<1> USE DEF IInv
<1>same. /\ store' = store /\ link' = link /\ entry' = entry /\ chan' = chan /\ guest' = guest /\ wire' = wire
         /\ work' = work /\ late' = late /\ past' = past
  BY DEF SendOwned
<1>a. a \in asks /\ a \in Requests /\ a.at = "hub" /\ fwd.seq \in Nat /\ fwd.pending \subseteq Forwards
  BY DEF SendOwned, TypeOK
<1>v. PICK v \in Nat : v = fwd.seq + 1
  BY <1>a
<1>b1. PICK b : b = [a EXCEPT !.at = "up", !.n = v]
  OBVIOUS
<1>b. /\ b.at = "up" /\ b.n = v /\ b.id = a.id /\ b.tag = a.tag /\ b.conn = a.conn /\ b.boot = a.boot
      /\ b.gen = a.gen /\ b.link = a.link /\ b \in Requests
  BY <1>a, <1>b1 DEF Requests
<1>f1. PICK f : f = [n |-> v, id |-> a.id, hub |-> a.conn, boot |-> a.boot, gen |-> a.gen, link |-> a.link]
  OBVIOUS
<1>f. f \in Forwards /\ f.n = v /\ f.id = a.id /\ f.hub = a.conn
  BY <1>a, <1>f1 DEF Requests, Forwards
<1>how1. \/ /\ asks' = (asks \ {a}) \cup {[a EXCEPT !.at = "up", !.n = fwd.seq + 1]}
            /\ fwd' = [seq |-> fwd.seq + 1,
                       pending |-> {g \in fwd.pending : g.n # fwd.seq + 1}
                                     \cup {[n |-> fwd.seq + 1, id |-> a.id, hub |-> a.conn, boot |-> a.boot, gen |-> a.gen,
                                            link |-> a.link]}]
            /\ a.link = link /\ link # 0
         \/ asks' = asks \ {a} /\ fwd' = fwd
  <2>1. CASE Owns(a)
    <3>1. a.link = link /\ link # 0
      BY <2>1 DEF Owns
    <3>2. asks' = (asks \ {a}) \cup {[a EXCEPT !.at = "up", !.n = fwd.seq + 1]}
      BY <2>1 DEF SendOwned, ForwardId
    <3>3. fwd' = [seq |-> fwd.seq + 1,
                  pending |-> {g \in fwd.pending : g.n # fwd.seq + 1}
                                \cup {[n |-> fwd.seq + 1, id |-> a.id, hub |-> a.conn, boot |-> a.boot, gen |-> a.gen,
                                       link |-> a.link]}]
      BY <2>1, Zenon DEF SendOwned, ForwardId
    <3> QED
      BY <3>1, <3>2, <3>3, Zenon
  <2>2. CASE ~Owns(a)
    BY <2>2 DEF SendOwned
  <2> QED
    BY <2>1, <2>2
<1>how. \/ /\ asks' = (asks \ {a}) \cup {b}
           /\ fwd' = [seq |-> v, pending |-> {g \in fwd.pending : g.n # v} \cup {f}]
           /\ a.link = link /\ link # 0
        \/ asks' = asks \ {a} /\ fwd' = fwd
  BY <1>v, <1>b1, <1>f1, <1>how1
<1>fwd. /\ fwd' \in [seq : Nat, pending : SUBSET Forwards]
        /\ asks' \subseteq (asks \ {a}) \cup {b} /\ fwd'.seq >= fwd.seq
        /\ \/ asks' = asks \ {a} /\ fwd' = fwd
           \/ /\ a.link = link /\ link # 0 /\ fwd'.seq = v
              /\ asks' = (asks \ {a}) \cup {b}
              /\ fwd'.pending = {g \in fwd.pending : g.n # v} \cup {f}
  <2>1. fwd \in [seq : Nat, pending : SUBSET Forwards]
    BY DEF TypeOK
  <2>2. [seq |-> v, pending |-> {g \in fwd.pending : g.n # v} \cup {f}] \in [seq : Nat, pending : SUBSET Forwards]
    BY <1>a, <1>v, <1>f
  <2> QED
    BY <2>1, <2>2, <1>a, <1>v, <1>how
<1> USE <1>same, <1>a, <1>v, <1>b, <1>f, <1>how, <1>fwd
<1>1. TypeOK'
  BY DEF TypeOK
<1>2. Roles'
  BY DEF Roles, Speakers, None, Workers
<1>3. Placed'
  BY DEF Placed, Speakers, None, Workers
<1>4. HubUnfenced'
  BY DEF HubUnfenced
<1>5. Wired'
  BY DEF Wired, Speakers, None, Workers
<1>6. Sent'
  BY DEF Sent, OnlyAsks, Speakers, Workers, Calling, None
<1>7. Stand'
  BY DEF Stand, AtEnroll, AtReconnect, None, Workers
<1>8. Told'
  BY DEF Told, None
<1>9. Voice'
  BY DEF Voice, Mine, None
<1>10. Forwarded'
  <2> SUFFICES ASSUME NEW x \in asks'
               PROVE  /\ x.link <= store.runnerGen
                      /\ x.at # "hub" => x.link # 0
                      /\ x.at # "hub" /\ x.link = link =>
                          x.n <= fwd'.seq /\ \A g \in fwd'.pending : g.n = x.n => g.id = x.id /\ g.hub = x.conn
    BY DEF Forwarded
  <2>1. ASSUME x = b, fwd'.seq = v, fwd'.pending = {g \in fwd.pending : g.n # v} \cup {f}
        PROVE  x.n = v /\ \A g \in fwd'.pending : g.n = v => g = f
    BY <2>1
  <2>2. x = b /\ ~(asks' = asks \ {a} /\ fwd' = fwd) => fwd'.seq = v /\ fwd'.pending = {g \in fwd.pending : g.n # v} \cup {f}
    OBVIOUS
  <2>3. x # b \/ (asks' = asks \ {a} /\ fwd' = fwd) => x \in asks
    OBVIOUS
  <2>4. x \in asks => x.link \in Nat /\ x.n \in Nat
    BY DEF TypeOK, Requests
  <2>5. ASSUME x \in asks
        PROVE  /\ x.link <= store.runnerGen
               /\ x.at # "hub" => x.link # 0
               /\ x.at # "hub" /\ x.link = link =>
                   x.n <= fwd.seq /\ \A g \in fwd.pending : g.n = x.n => g.id = x.id /\ g.hub = x.conn
    BY <2>5 DEF Forwarded
  <2>6. ASSUME x \in asks
        PROVE  x.at # "hub" /\ x.link = link =>
                   x.n <= fwd'.seq /\ \A g \in fwd'.pending : g.n = x.n => g.id = x.id /\ g.hub = x.conn
    BY <2>4, <2>5, <2>6
  <2> QED
    BY <2>1, <2>2, <2>3, <2>5, <2>6 DEF Forwarded
<1>11. Kept'
  <2> USE DEF Kept, Vouched, Issued, None, Workers
  <2>1. KeptGuest'
    BY DEF KeptGuest
  <2>2. KeptEnrolling'
    BY DEF KeptEnrolling
  <2>3. KeptAccepted'
    BY DEF KeptAccepted
  <2>4. KeptSecrets'
    BY DEF KeptSecrets
  <2>5. KeptReconnect'
    BY DEF KeptReconnect
  <2> QED
    BY <2>1, <2>2, <2>3, <2>4, <2>5
<1> QED
  BY <1>1, <1>2, <1>3, <1>4, <1>5, <1>6, <1>7, <1>8, <1>9, <1>10, <1>11

\* The hub reads a request of its guest.
LEMMA HubReadsStep ==
    ASSUME IInv, HubReads
    PROVE  IInv'
<1> USE DEF IInv
<1>same. /\ store' = store /\ link' = link /\ entry' = entry /\ chan' = chan /\ guest' = guest /\ work' = work
         /\ late' = late /\ fwd' = fwd /\ past' = past
  BY DEF HubReads
<1> USE DEF Shaped
<1>sh. Shaped
  BY Shapes
<1>hub. PICK c \in Conns : c = entry.hub /\ wire[c].up # <<>> /\ link = entry.hubLink
  BY DEF HubReads, TypeOK, Entries, Sockets, None
<1>ty. wire \in [Conns -> Streams] /\ wire[c].up \in Seq(Frames) /\ link \in Nat /\ entry.boot \in Nat
         /\ entry.gen \in Nat /\ store.runnerGen \in Nat
  BY DEF TypeOK, Streams, Entries, Rows
<1>w1. wire' = TakeUp(wire, c)
  BY <1>hub DEF HubReads
<1>wire. /\ wire' \in [Conns -> Streams]
         /\ \A d \in Conns : /\ wire'[d].host = wire[d].host /\ wire'[d].guest = wire[d].guest
                             /\ wire'[d].down = wire[d].down
                             /\ d # c => wire'[d] = wire[d]
         /\ wire'[c].up = Tail(wire[c].up)
  BY <1>hub, <1>ty, <1>w1, TakeUpEffect
<1>f. PICK f \in Frames : f = Head(wire[c].up) /\ f \in In(wire[c].up)
  BY <1>hub, <1>ty, InTail
<1>in. \A d \in Conns : In(wire'[d].up) \subseteq In(wire[d].up)
  BY <1>hub, <1>ty, <1>wire, InTail
<1>a1. PICK a : a = [at |-> "hub", n |-> 0, id |-> f.n, tag |-> f.m, conn |-> c, boot |-> entry.boot, gen |-> entry.gen, link |-> link]
  OBVIOUS
<1>a. a \in Requests /\ a.at = "hub" /\ a.id = f.n /\ a.tag = f.m /\ a.conn = c /\ a.link = link
  BY <1>f, <1>a1, <1>ty DEF Requests, Frames
<1>asks. asks' = asks \cup {a}
  BY <1>hub, <1>f, <1>a1 DEF HubReads
<1>shr. Shrinks
  BY <1>same, <1>hub, <1>ty, <1>wire, ShrunkStreams DEF Shrinks, TypeOK, Streams
<1> USE <1>same, <1>sh, <1>hub, <1>ty, <1>wire, <1>f, <1>in, <1>a, <1>asks, <1>shr
<1>1. TypeOK'
  BY DEF TypeOK
<1>2. Roles'
  BY DEF Roles, Speakers, None, Workers
<1>3. Placed'
  BY DEF Placed, Speakers, None, Workers
<1>4. HubUnfenced'
  BY DEF HubUnfenced
<1>5. Wired'
  BY DEF Wired, Speakers, None, Workers
<1>6. Sent'
  BY <1>1, SentShrinks
<1>7. Stand'
  BY <1>1, StandShrinks
<1>8. Told'
  <2>1. guest.conn # None => In(wire'[guest.conn].up) \subseteq In(wire[guest.conn].up) /\ wire'[guest.conn].down = wire[guest.conn].down
    OBVIOUS
  <2>2. c = guest.conn => guest.pc = "serving"
    <3>1. c # None /\ f.k = "ask"
      BY DEF Sent, OnlyAsks
    <3> QED
      BY <3>1 DEF Told
  <2> QED
    BY <2>1, <2>2 DEF Told
<1>9. Voice'
  <2> SUFFICES ASSUME guest'.conn # None
               PROVE  /\ \A x \in asks' : x.conn = guest'.conn => Mine(x.id, x.tag)'
                      /\ \A x \in In(wire'[guest'.conn].up) : x.k = "ask" => Mine(x.n, x.m)'
                      /\ \A x \in In(wire'[guest'.conn].down) : x.k = "answer" => Mine(x.n, x.m)'
    BY DEF Voice, Mine
  <2>1. In(wire'[guest.conn].up) \subseteq In(wire[guest.conn].up) /\ wire'[guest.conn].down = wire[guest.conn].down
    OBVIOUS
  <2>2. c = guest.conn => Mine(f.n, f.m)
    BY DEF Voice, Sent, OnlyAsks
  <2> QED
    BY <2>1, <2>2 DEF Voice, Mine
<1>10. Forwarded'
  BY DEF Forwarded, Placed
<1>11. Kept'
  BY <1>1, KeptShrinks DEF Vouched, Issued
<1> QED
  BY <1>1, <1>2, <1>3, <1>4, <1>5, <1>6, <1>7, <1>8, <1>9, <1>10, <1>11


--------------------
\* Calls, and their answers


--------------------
\* The control plane's answers

\* What an answer tells, and leaves in the store.
LEMMA AnswerFacts ==
    ASSUME TypeOK, NEW k \in Methods
    PROVE  \A a : a = Answer(k) =>
           /\ a.row \in Rows /\ a.n \in Nat /\ a.token \in Nat
           /\ a.row.place = store.place /\ a.row.runnerGen = store.runnerGen
           /\ a.row.on = store.on /\ a.row.connected = store.connected /\ a.row.edited = store.edited
           /\ ~a.ok => a.row = store
           /\ k.method # "mint" => a.row.gen = store.gen /\ a.row.epoch >= store.epoch
           /\ k.method \notin {"mint", "enroll"} => a.row.identity = store.identity
           /\ k.method = "enroll" /\ a.ok =>
               store.identity = 0 /\ store.gen = store.place /\ a.row.identity = k.n /\ a.token = k.token
           /\ k.method = "accept" /\ a.ok => a.n = a.row.epoch
<1>a. SUFFICES ASSUME NEW a, a = Answer(k)
               PROVE  /\ a.row \in Rows /\ a.n \in Nat /\ a.token \in Nat
                      /\ a.row.place = store.place /\ a.row.runnerGen = store.runnerGen
                      /\ a.row.on = store.on /\ a.row.connected = store.connected /\ a.row.edited = store.edited
                      /\ ~a.ok => a.row = store
                      /\ k.method # "mint" => a.row.gen = store.gen /\ a.row.epoch >= store.epoch
                      /\ k.method \notin {"mint", "enroll"} => a.row.identity = store.identity
                      /\ k.method = "enroll" /\ a.ok =>
                          store.identity = 0 /\ store.gen = store.place /\ a.row.identity = k.n /\ a.token = k.token
                      /\ k.method = "accept" /\ a.ok => a.n = a.row.epoch
  OBVIOUS
<1>row. /\ store \in Rows /\ k.link \in Nat /\ k.n \in Nat /\ k.token \in Nat
        /\ k.method \in {"enroll", "begin", "accept", "config", "fetch", "mint"}
  BY DEF TypeOK, Methods
<1>n. PICK minted \in Nat, tries \in Nat, epoch \in Nat :
          minted = store.minted + 1 /\ tries = store.tries + 1 /\ epoch = store.epoch + 1
  BY <1>row DEF Rows
<1>e. store.epoch \in Nat /\ epoch >= store.epoch
  BY <1>row, <1>n DEF Rows
<1>no. PICK no : no = Refused
  OBVIOUS
<1>refused. /\ no = [row |-> store, ok |-> FALSE, n |-> 0, token |-> 0] /\ no.row = store /\ ~no.ok
            /\ no.n = 0 /\ no.token = 0
  BY <1>no DEF Refused
<1> USE <1>a, <1>row, <1>e, <1>no, <1>refused
<1>1. CASE k.method = "enroll"
  <2>1. PICK row : row = [store EXCEPT !.consumed = TRUE, !.identity = k.n]
    OBVIOUS
  <2>2. /\ row \in Rows /\ row.place = store.place /\ row.runnerGen = store.runnerGen /\ row.on = store.on
        /\ row.connected = store.connected /\ row.edited = store.edited /\ row.gen = store.gen /\ row.epoch = store.epoch
        /\ row.identity = k.n
    BY <2>1 DEF Rows
  <2>3. a = EnrollGuest(k)
    BY <1>1 DEF Answer
  <2>4. a # no =>
           /\ store.gen = store.place /\ store.identity = 0
           /\ a = [row |-> row, ok |-> TRUE, n |-> 0, token |-> k.token]
    BY <2>1, <2>3 DEF EnrollGuest, OfThisPlacement
  <2>5. a # no => (a.row = row /\ a.ok /\ a.n = 0 /\ a.token = k.token)
    BY <2>4
  <2> QED
    BY <2>5, <1>1, <2>2, <2>4
<1>2. CASE k.method = "begin"
  <2>1. PICK row : row = [store EXCEPT !.tries = tries, !.attempt = tries, !.by = k.link]
    OBVIOUS
  <2>2. /\ row \in Rows /\ row.place = store.place /\ row.runnerGen = store.runnerGen /\ row.on = store.on
        /\ row.connected = store.connected /\ row.edited = store.edited /\ row.gen = store.gen /\ row.epoch = store.epoch
        /\ row.identity = store.identity /\ store.identity \in Nat
    BY <2>1 DEF Rows
  <2>3. a = BeginGuestReconnect(k)
    BY <1>2 DEF Answer
  <2>4. a # no => a = [row |-> row, ok |-> TRUE, n |-> tries, token |-> store.identity]
    BY <2>1, <2>3, <1>n DEF BeginGuestReconnect
  <2>5. a # no => (a.row = row /\ a.ok /\ a.n = tries /\ a.token = store.identity)
    BY <2>4
  <2> QED
    BY <2>5, <1>2, <2>2, <2>4
<1>3. CASE k.method = "accept"
  <2>1. PICK row : row = [store EXCEPT !.epoch = epoch, !.minted = minted, !.token = minted, !.consumed = FALSE,
                                       !.attempt = 0, !.by = 0]
    OBVIOUS
  <2>2. /\ row \in Rows /\ row.place = store.place /\ row.runnerGen = store.runnerGen /\ row.on = store.on
        /\ row.connected = store.connected /\ row.edited = store.edited /\ row.gen = store.gen /\ row.epoch = epoch
        /\ row.identity = store.identity
    BY <2>1 DEF Rows
  <2>3. a = ConsumeGuestReconnect(k)
    BY <1>3 DEF Answer
  <2>4. a # no => a = [row |-> row, ok |-> TRUE, n |-> epoch, token |-> minted]
    BY <2>1, <2>3, <1>n DEF ConsumeGuestReconnect
  <2>5. a # no => (a.row = row /\ a.ok /\ a.n = epoch /\ a.token = minted)
    BY <2>4
  <2> QED
    BY <2>5, <1>3, <2>2, <2>4
<1>4. CASE k.method = "config"
  <2>1. a = Configuration(k) /\ store.place \in Nat
    BY <1>4 DEF Answer, Rows
  <2>2. a # no => a = [no EXCEPT !.ok = TRUE, !.n = store.place]
    BY <2>1 DEF Configuration
  <2>3. a # no => a = [row |-> store, ok |-> TRUE, n |-> store.place, token |-> 0]
    BY <2>2
  <2> QED
    BY <1>4, <2>1, <2>3
<1>5. CASE k.method = "fetch"
  <2>1. PICK row : row = [store EXCEPT !.consumed = TRUE]
    OBVIOUS
  <2>2. /\ row \in Rows /\ row.place = store.place /\ row.runnerGen = store.runnerGen /\ row.on = store.on
        /\ row.connected = store.connected /\ row.edited = store.edited /\ row.gen = store.gen /\ row.epoch = store.epoch
        /\ row.identity = store.identity
    BY <2>1 DEF Rows
  <2>3. a = ConsumeSessionBootstrap(k)
    BY <1>5 DEF Answer
  <2>4. a # no => a = [row |-> row, ok |-> TRUE, n |-> 0, token |-> k.token]
    BY <2>1, <2>3 DEF ConsumeSessionBootstrap
  <2>5. a # no => (a.row = row /\ a.ok /\ a.n = 0 /\ a.token = k.token)
    BY <2>4
  <2> QED
    BY <2>5, <1>5, <2>2, <2>4
<1>6. CASE k.method = "mint"
  <2>1. PICK row : row = [store EXCEPT !.minted = minted, !.token = minted, !.consumed = FALSE, !.gen = store.place,
                                       !.identity = 0, !.attempt = 0, !.by = 0, !.epoch = 0]
    OBVIOUS
  <2>2. /\ row \in Rows /\ row.place = store.place /\ row.runnerGen = store.runnerGen /\ row.on = store.on
        /\ row.connected = store.connected /\ row.edited = store.edited
    BY <2>1 DEF Rows
  <2>3. a = MintSessionBootstrap(k)
    BY <1>6 DEF Answer
  <2>4. a # no => a = [row |-> row, ok |-> TRUE, n |-> 0, token |-> minted]
    BY <2>1, <2>3, <1>n DEF MintSessionBootstrap
  <2>5. a # no => (a.row = row /\ a.ok /\ a.n = 0 /\ a.token = minted)
    BY <2>4
  <2> QED
    BY <2>5, <1>6, <2>2, <2>4
<1> QED
  BY <1>1, <1>2, <1>3, <1>4, <1>5, <1>6

\* The call of a worker that waits for an answer.
LEMMA CallFacts ==
    ASSUME TypeOK, Roles, NEW w \in Workers, work[w].call = "sent", NEW k, k = CallOf(w)
    PROVE  /\ k \in Methods /\ k.n = work[w].n /\ k.token = work[w].token /\ k.link = work[w].link
           /\ k.method = "mint" => w = "resume" /\ work[w].pc = "mint"
           /\ w = "enroll" => k.method = "enroll" /\ work[w].pc = "enrolling"
           /\ w = "resume" => k.method = "mint"
           /\ w = "recover" => k.method = "config"
           /\ w = "reconnect" => k.method \notin {"mint", "enroll"} /\ (work[w].pc = "accept" => k.method = "accept")
<1>1. work[w] \in Jobs /\ work[w].pc \in Calling
  BY DEF TypeOK
<1>2. /\ w = "enroll" => work[w].pc = "enrolling"
      /\ w = "resume" => work[w].pc = "mint"
      /\ w = "recover" => work[w].pc = "authorize"
      /\ w = "reconnect" => work[w].pc \in {"begin", "accept", "config", "fetch"}
  BY <1>1 DEF Roles, Calling
<1>3. /\ work[w].pc = "enrolling" => Method(w) = "enroll"
      /\ work[w].pc = "begin" => Method(w) = "begin"
      /\ work[w].pc = "accept" => Method(w) = "accept"
      /\ work[w].pc \in {"config", "authorize"} => Method(w) = "config"
      /\ work[w].pc = "fetch" => Method(w) = "fetch"
      /\ work[w].pc = "mint" => Method(w) = "mint"
  BY DEF Method
<1>4. Method(w) \in {"enroll", "begin", "accept", "config", "fetch", "mint"}
  BY <1>1, <1>3 DEF Calling
<1>5. w \in {"enroll", "reconnect", "resume", "recover"}
  BY DEF Workers
<1> QED
  BY <1>1, <1>2, <1>3, <1>4, <1>5 DEF CallOf, Methods, Jobs

\* A call is executed after its caller gave up: nothing a guest relies on is taken back, unless a token was minted.
LEMMA ServeLateStep ==
    ASSUME IInv, NEW k, ServeLate(k)
    PROVE  IInv'
<1> USE DEF IInv
<1>same. /\ link' = link /\ entry' = entry /\ chan' = chan /\ guest' = guest /\ wire' = wire /\ work' = work
         /\ asks' = asks /\ fwd' = fwd
  BY DEF ServeLate
<1>k. k \in late /\ k \in Methods /\ late' \subseteq late
  BY DEF ServeLate, TypeOK
<1>a. PICK a : a = Answer(k)
  OBVIOUS
<1>st. store' = a.row
  BY <1>a DEF ServeLate
<1>store. /\ store' \in Rows /\ store'.place = store.place /\ store'.runnerGen = store.runnerGen
          /\ ~a.ok => store' = store
          /\ k.method # "mint" => store'.gen = store.gen /\ store'.epoch >= store.epoch
          /\ k.method \notin {"mint", "enroll"} => store'.identity = store.identity
          /\ k.method = "enroll" /\ a.ok => store.identity = 0
  BY <1>k, <1>a, <1>st, AnswerFacts
<1>p1. past' = [past EXCEPT !.remint = @ \/ (k.method = "mint" /\ a.ok)]
  BY <1>a DEF ServeLate
<1>p2. past \in [tag : Nat, wrong : BOOLEAN, fenced : SUBSET Conns, remint : BOOLEAN]
  BY DEF TypeOK
<1>past. /\ past' \in [tag : Nat, wrong : BOOLEAN, fenced : SUBSET Conns, remint : BOOLEAN]
         /\ past'.fenced = past.fenced
         /\ past.remint => past'.remint
         /\ k.method = "mint" /\ a.ok => past'.remint
  BY <1>p1, <1>p2
<1>vouched. (Vouched => Vouched') /\ \A n \in Nat : Issued(n) => Issued(n)'
  <2>row. store \in Rows /\ guest \in Guests
    BY DEF TypeOK
  <2>1. \A n \in Nat : Issued(n) => Issued(n)'
    BY <1>same, <1>k, <1>store, <1>past, <2>row DEF Issued, Rows
  <2>2. Vouched => Vouched'
    BY <1>same, <1>k, <1>store, <1>past, <2>row DEF Vouched, Rows, Guests
  <2> QED
    BY <2>1, <2>2
<1>shr. Shrinks
  BY <1>same, ShrunkStreams DEF Shrinks, TypeOK, Streams
<1> USE <1>same, <1>k, <1>store, <1>past, <1>vouched, <1>shr
<1>1. TypeOK'
  BY DEF TypeOK
<1>2. Roles'
  BY DEF Roles, Speakers, None, Workers
<1>3. Placed'
  BY DEF Placed, Speakers, None, Workers
<1>4. HubUnfenced'
  BY DEF HubUnfenced
<1>5. Wired'
  BY DEF Wired, Speakers, None, Workers
<1>6. Sent'
  BY DEF Sent, OnlyAsks, Speakers, Workers, Calling, None
<1>7. Stand'
  BY DEF Stand, AtEnroll, AtReconnect, None, Workers
<1>8. Told'
  BY DEF Told, None
<1>9. Voice'
  BY DEF Voice, Mine, None
<1>10. Forwarded'
  BY DEF Forwarded
<1>11. Kept'
  BY <1>1, KeptShrinks
<1> QED
  BY <1>1, <1>2, <1>3, <1>4, <1>5, <1>6, <1>7, <1>8, <1>9, <1>10, <1>11


\* A call of a worker is answered: what it learns is what the store then keeps.
LEMMA ServeStep ==
    ASSUME IInv, NEW w \in Workers, Serve(w)
    PROVE  IInv'
<1> USE DEF IInv
<1>same. /\ link' = link /\ entry' = entry /\ chan' = chan /\ guest' = guest /\ wire' = wire /\ late' = late
         /\ asks' = asks /\ fwd' = fwd /\ past' = past
  BY DEF Serve
<1>work1. work \in [Workers -> Jobs]
  BY DEF TypeOK
<1>job. PICK job \in Jobs : job = work[w]
  BY <1>work1
<1>sent. job.call = "sent" /\ job.pc \in Calling
  BY <1>job DEF Serve, TypeOK
<1>k0. PICK k : k = CallOf(w)
  OBVIOUS
<1>k. /\ k \in Methods /\ k.n = job.n /\ k.token = job.token
      /\ k.method = "mint" => w = "resume" /\ job.pc = "mint"
      /\ w = "enroll" => k.method = "enroll"
      /\ w = "reconnect" => k.method \notin {"mint", "enroll"} /\ (job.pc = "accept" => k.method = "accept")
      /\ w = "recover" => k.method = "config"
      /\ w = "resume" => k.method = "mint"
  BY <1>job, <1>sent, <1>k0, CallFacts
<1>a. PICK a : a = Answer(k)
  OBVIOUS
<1>st. store' = a.row
  BY <1>k0, <1>a DEF Serve
<1>store. /\ store' \in Rows /\ store'.place = store.place /\ store'.runnerGen = store.runnerGen
          /\ a.n \in Nat /\ a.token \in Nat
          /\ ~a.ok => store' = store
          /\ k.method # "mint" => store'.gen = store.gen /\ store'.epoch >= store.epoch
          /\ k.method \notin {"mint", "enroll"} => store'.identity = store.identity
          /\ k.method = "enroll" /\ a.ok =>
                store.identity = 0 /\ store.gen = store.place /\ store'.identity = k.n /\ a.token = k.token
          /\ k.method = "accept" /\ a.ok => a.n = store'.epoch
  BY <1>k, <1>a, <1>st, AnswerFacts
<1>how. \/ work' = [work EXCEPT ![w].call = IF a.ok THEN "ok" ELSE "no", ![w].n = a.n, ![w].token = a.token]
        \/ work' = [work EXCEPT ![w].call = "no"]
  BY <1>k0, <1>a, Zenon DEF Serve
<1>work. /\ work' \in [Workers -> Jobs]
         /\ \A x \in Workers : x # w => work'[x] = work[x]
         /\ work'[w].pc = job.pc /\ work'[w].conn = job.conn /\ work'[w].gen = job.gen
         /\ work'[w].epoch = job.epoch /\ work'[w].cap = job.cap
         /\ work'[w].call \in {"ok", "no"}
         /\ work'[w].call = "ok" => a.ok /\ work'[w].n = a.n /\ work'[w].token = a.token
  <2>1. CASE work' = [work EXCEPT ![w].call = "no"]
    <3>1. PICK done : done = [job EXCEPT !.call = "no"]
      OBVIOUS
    <3>2. /\ done \in Jobs /\ done.pc = job.pc /\ done.conn = job.conn /\ done.gen = job.gen
          /\ done.epoch = job.epoch /\ done.cap = job.cap /\ done.call = "no"
      BY <3>1 DEF Jobs
    <3>3. work' = [work EXCEPT ![w] = done]
      BY <2>1, <3>1, <1>job
    <3> QED
      BY <3>2, <3>3, <1>work1
  <2>2. CASE work' = [work EXCEPT ![w].call = IF a.ok THEN "ok" ELSE "no", ![w].n = a.n, ![w].token = a.token]
    <3>1. PICK call : call = IF a.ok THEN "ok" ELSE "no"
      OBVIOUS
    <3>2. call \in {"ok", "no"} /\ (call = "ok" => a.ok)
      BY <3>1
    <3>3. PICK done : done = [job EXCEPT !.call = call, !.n = a.n, !.token = a.token]
      OBVIOUS
    <3>4. /\ done \in Jobs /\ done.pc = job.pc /\ done.conn = job.conn /\ done.gen = job.gen
          /\ done.epoch = job.epoch /\ done.cap = job.cap /\ done.call = call /\ done.n = a.n /\ done.token = a.token
      BY <3>2, <3>3, <1>store DEF Jobs
    <3>5. work' = [work EXCEPT ![w] = done]
      BY <2>2, <3>1, <3>3, <1>job
    <3> QED
      BY <3>2, <3>4, <3>5, <1>work1
  <2> QED
    BY <2>1, <2>2, <1>how
<1>vouched. w # "resume" => (Vouched => Vouched') /\ \A n \in Nat : Issued(n) => Issued(n)'
  <2>row. store \in Rows /\ guest \in Guests /\ (w # "resume" => k.method # "mint")
    BY <1>k DEF TypeOK
  <2>1. w # "resume" => \A n \in Nat : Issued(n) => Issued(n)'
    BY <1>same, <1>store, <2>row DEF Issued, Rows
  <2>2. w # "resume" /\ Vouched => Vouched'
    BY <1>same, <1>store, <2>row DEF Vouched, Rows, Guests
  <2> QED
    BY <2>1, <2>2
<1> USE <1>same, <1>job, <1>store, <1>work
<1>1. TypeOK'
  BY <1>sent DEF TypeOK
<1>2. Roles'
  BY DEF Roles, Speakers, None, Workers
<1>3. Placed'
  BY DEF Placed, Speakers, None, Workers
<1>4. HubUnfenced'
  BY DEF HubUnfenced
<1>5. Wired'
  BY DEF Wired, Speakers, Workers, None
<1>6. Sent'
  BY DEF Sent, OnlyAsks, Speakers, Workers, Calling, None
<1>7. Stand'
  BY DEF Stand, AtEnroll, AtReconnect, Workers, None
<1>11. Told'
  BY DEF Told, None
<1>8. Voice'
  BY DEF Voice, Mine, None
<1>9. Forwarded'
  BY DEF Forwarded
<1>10. Kept'
  <2>1. CASE w = "resume"
    <3>1. entry.state = "resuming" /\ ~guest.up /\ guest.conn = None /\ entry.epoch = 0
      BY <2>1, <1>k DEF Placed
    <3>2. work'.reconnect = work.reconnect /\ work.reconnect.gen # entry.gen
      BY <2>1, <3>1 DEF Placed, Speakers, Workers
    <3>3. store'.epoch \in Nat
      BY DEF Rows
    <3> QED
      BY <3>1, <3>2, <3>3 DEF Kept, KeptGuest, KeptEnrolling, KeptAccepted, KeptSecrets, KeptReconnect, Issued
  <2>2. ASSUME w # "resume"
        PROVE  Kept'
    <3>1. /\ guest.epoch \in Nat /\ entry.epoch \in Nat
          /\ work.reconnect.n \in Nat /\ work.reconnect.epoch \in Nat
      BY DEF TypeOK, Guests, Entries, Jobs, Workers
    <3>2. guest.conn # None => \A f \in In(wire[guest.conn].down) : f.n \in Nat
      BY InFrames, Shapes DEF Frames
    <3>3. /\ Vouched => Vouched'
          /\ \A n \in Nat : Issued(n) => Issued(n)'
      BY <2>2, <1>vouched
    <3>4. /\ guest'.up /\ guest'.id = "enrolled" => Vouched' /\ Issued(guest.epoch)'
          /\ guest'.up /\ guest'.id # "enrolled" => guest'.epoch = 0 /\ guest'.pc \in {"boot", "config", "enrolling"}
          /\ Issued(entry.epoch)'
          /\ guest'.pc \in {"ready", "serving"} => guest'.env = guest'.token
      BY <3>1, <3>3 DEF Kept, KeptGuest, KeptEnrolling, KeptAccepted, KeptSecrets, KeptReconnect, Issued
    <3>5. ASSUME guest.conn # None, guest.pc = "enrolling", work'.enroll.conn = guest.conn, work'.enroll.pc = "enrolling",
                 work'.enroll.call # "no"
          PROVE  work'.enroll.token = guest.token /\ IF work'.enroll.call = "ok" THEN Vouched' ELSE work'.enroll.n = guest.vm
      <4>1. CASE w = "enroll"
        <5>1. k.token = guest.token /\ k.n = guest.vm
          BY <4>1, <3>5, <1>sent, <1>k DEF Kept, KeptGuest, KeptEnrolling, KeptAccepted, KeptSecrets, KeptReconnect
        <5>2. a.ok /\ work'.enroll.call = "ok" /\ work'.enroll.token = a.token
          BY <4>1, <3>5
        <5>3. Vouched'
          BY <4>1, <5>1, <5>2, <1>k DEF Vouched
        <5> QED
          BY <4>1, <5>1, <5>2, <5>3, <1>k
      <4>2. CASE w # "enroll"
        <5>1. work'.enroll = work.enroll
          BY <4>2 DEF Workers
        <5> QED
          BY <5>1, <3>3, <3>5 DEF Kept, KeptGuest, KeptEnrolling, KeptAccepted, KeptSecrets, KeptReconnect
      <4> QED
        BY <4>1, <4>2
    <3>6. ASSUME guest.conn # None, guest.pc = "secrets", work'.reconnect.conn = guest.conn, work'.reconnect.pc = "fetch"
          PROVE  work'.reconnect.cap = guest.token
      BY <3>6 DEF Kept, KeptGuest, KeptEnrolling, KeptAccepted, KeptSecrets, KeptReconnect, Workers
    <3>7. ASSUME work'.reconnect.gen = entry.gen
          PROVE  /\ work'.reconnect.pc = "accept" /\ work'.reconnect.call = "ok" => Issued(work.reconnect.n)'
                 /\ work'.reconnect.pc \in {"config", "redeem", "fetch", "ready", "install"} => Issued(work.reconnect.epoch)'
      <4>1. CASE w = "reconnect"
        <5>1. /\ work'.reconnect.pc = job.pc /\ work'.reconnect.gen = work.reconnect.gen
              /\ work'.reconnect.epoch = work.reconnect.epoch
              /\ work'.reconnect.call = "ok" => a.ok /\ work'.reconnect.n = a.n
          BY <4>1
        <5>2. job.pc = "accept" /\ work'.reconnect.call = "ok" => Issued(work.reconnect.n)'
          BY <4>1, <5>1, <1>k DEF Issued, Rows
        <5>3. work'.reconnect.pc \in {"config", "redeem", "fetch", "ready", "install"} => Issued(work.reconnect.epoch)
          BY <4>1, <5>1, <3>7 DEF Kept, KeptGuest, KeptEnrolling, KeptAccepted, KeptSecrets, KeptReconnect
        <5> QED
          BY <5>1, <5>2, <5>3, <3>1, <3>3 DEF Issued
      <4>2. CASE w # "reconnect"
        <5>1. work'.reconnect = work.reconnect
          BY <4>2 DEF Workers
        <5> QED
          BY <5>1, <3>1, <3>3, <3>7 DEF Kept, KeptGuest, KeptEnrolling, KeptAccepted, KeptSecrets,
             KeptReconnect, Issued
      <4> QED
        BY <4>1, <4>2
    <3>8. ASSUME guest.conn # None, guest.pc = "accepted", NEW f \in In(wire[guest.conn].down), f.k = "accepted"
          PROVE  Issued(f.n)'
      BY <3>2, <3>3, <3>8 DEF Kept, KeptGuest, KeptEnrolling, KeptAccepted, KeptSecrets, KeptReconnect
    <3>9. ASSUME guest.conn # None, guest.pc = "enrolling", NEW f \in In(wire[guest.conn].down)
          PROVE  f.n = guest.token /\ Vouched'
      BY <3>3, <3>9 DEF Kept, KeptGuest, KeptEnrolling, KeptAccepted, KeptSecrets, KeptReconnect
    <3> QED
      BY <3>4, <3>5, <3>6, <3>7, <3>8, <3>9 DEF Kept, KeptGuest, KeptEnrolling, KeptAccepted, KeptSecrets, KeptReconnect,
         Vouched, Issued
  <2> QED
    BY <2>1, <2>2
<1> QED
  BY <1>1, <1>2, <1>3, <1>4, <1>5, <1>6, <1>7, <1>8, <1>9, <1>10, <1>11


--------------------
\* Workers and hubs that end, streams that are lost

\* A worker ends, and its stream with it.
LEMMA FailStep ==
    ASSUME IInv, NEW w \in Speakers, Fail(w), UNCHANGED <<store, link, guest, asks>>
    PROVE  IInv'
<1> USE DEF IInv
<1>same. /\ store' = store /\ link' = link /\ entry' = entry /\ guest' = guest /\ asks' = asks /\ fwd' = fwd
         /\ past' = past
  BY DEF Fail
<1>w. w \in Workers /\ work \in [Workers -> Jobs] /\ work[w] \in Jobs /\ wire \in [Conns -> Streams]
  BY DEF Speakers, Workers, TypeOK
<1>nowork. NoWork \in Jobs /\ NoWork.pc = "idle" /\ NoWork.conn = None /\ NoWork.gen = 0 /\ NoWork.call = "none"
  BY DEF NoWork, Jobs, Stages, Sockets, None
<1>work1. work' = [work EXCEPT ![w] = NoWork]
  BY DEF Fail
<1>work. work' \in [Workers -> Jobs] /\ work'[w] = NoWork /\ \A x \in Workers : x # w => work'[x] = work[x]
  BY <1>w, <1>nowork, <1>work1
<1>c. PICK c \in Sockets : c = work[w].conn
  BY <1>w DEF Jobs
<1>wire1. wire' = HostCloses(wire, c)
  BY <1>c DEF Fail
<1>wire. /\ wire' \in [Conns -> Streams]
         /\ \A d \in Conns : wire'[d].guest = wire[d].guest /\ wire'[d].down = wire[d].down /\ (d # c => wire'[d] = wire[d])
         /\ c # None => ~wire'[c].host /\ wire'[c].up = <<>>
  BY <1>w, <1>c, <1>wire1, HostClosesEffect
<1>k. PICK k : k = CallOf(w)
  OBVIOUS
<1>late. late' \subseteq Methods
  <2>1. work[w].call = "sent" => k \in Methods
    BY <1>w, <1>k, CallFacts
  <2> QED
    BY <2>1, <1>k DEF Fail, Abandoned, TypeOK
<1>chan1. chan' = chan \/ chan' = [chan EXCEPT !.pending = FALSE]
  BY DEF Fail
<1>chan2. chan \in Channels
  BY DEF TypeOK
<1>chan. /\ chan' \in Channels /\ chan'.served = chan.served
         /\ chan'.pending => chan.pending
  <2>1. CASE chan' = chan
    BY <1>chan2, <2>1 DEF Channels
  <2>2. CASE chan' = [chan EXCEPT !.pending = FALSE]
    BY <1>chan2, <2>2 DEF Channels
  <2> QED
    BY <1>chan1, <2>1, <2>2
<1>shut. \A d \in Conns : (~wire'[d].host => wire'[d].up = <<>>) /\ (wire'[d].host => wire[d].host /\ d # c)
  BY Shapes, <1>w, <1>c, <1>wire DEF Wired
<1>shr. Shrinks
  <2>1. \A d \in Conns : wire[d].up \in Seq(Frames) /\ wire[d].down \in Seq(Frames)
    BY <1>w DEF Streams
  <2>2. ASSUME NEW d \in Conns
        PROVE  Shrunk(wire'[d].up, wire[d].up) /\ Shrunk(wire'[d].down, wire[d].down)
    <3>1. d # None
      BY Shapes
    <3> QED
      BY <2>1, <3>1, <1>wire, ShrunkStreams
  <2>3. \A x \in Speakers : work'[x] = work[x] \/ work'[x] = NoWork
    BY <1>work DEF Speakers, Workers
  <2> QED
    BY <2>2, <2>3, <1>same DEF Shrinks
<1> USE <1>same, <1>w, <1>nowork, <1>work, <1>c, <1>wire, <1>k, <1>late, <1>chan, <1>shut, <1>shr
<1>1. TypeOK'
  BY DEF TypeOK
<1>2. Roles'
  BY DEF Roles, Speakers, None, Workers
<1>3. Placed'
  BY DEF Placed, Speakers, None, Workers, TypeOK, Entries, Workers
<1>4. HubUnfenced'
  BY DEF HubUnfenced
<1>5. Wired'
  BY DEF Wired, Speakers, None, Workers, Sockets, Workers
<1>6. Sent'
  BY <1>1, SentShrinks
<1>7. Stand'
  BY <1>1, StandShrinks
<1>8. Told'
  BY <1>1, ToldShrinks
<1>9. Voice'
  BY VoiceShrinks
<1>10. Forwarded'
  BY DEF Forwarded
<1>11. Kept'
  BY <1>1, KeptShrinks DEF Vouched, Issued
<1> QED
  BY <1>1, <1>2, <1>3, <1>4, <1>5, <1>6, <1>7, <1>8, <1>9, <1>10, <1>11


\* A worker gives its guest up.
LEMMA GivesUpStep ==
    ASSUME IInv, NEW w \in Workers, GivesUp(w)
    PROVE  IInv'
<1>1. w \in Speakers /\ Fail(w) /\ UNCHANGED <<store, link, guest, asks>>
  BY DEF GivesUp, Speakers
<1> QED
  BY <1>1, FailStep

\* A stream is lost.
LEMMA BreakStep ==
    ASSUME IInv, NEW c \in Conns, Break(c)
    PROVE  IInv'
<1> USE DEF IInv
<1>same. /\ store' = store /\ link' = link /\ entry' = entry /\ chan' = chan /\ guest' = guest /\ work' = work
         /\ late' = late /\ asks' = asks /\ fwd' = fwd /\ past' = past
  BY DEF Break
<1>w. wire \in [Conns -> Streams]
  BY DEF TypeOK
<1>cl. Closed \in Streams /\ ~Closed.host /\ ~Closed.guest /\ Closed.up = <<>> /\ Closed.down = <<>>
  <2>1. <<>> \in Seq(Frames)
    BY EmptySeq
  <2> QED
    BY <2>1 DEF Closed, Streams
<1>wire1. wire' = [wire EXCEPT ![c] = Closed]
  BY DEF Break
<1>wire. wire' \in [Conns -> Streams] /\ wire'[c] = Closed /\ \A d \in Conns : d # c => wire'[d] = wire[d]
  BY <1>w, <1>cl, <1>wire1
<1>shr. Shrinks
  BY <1>same, <1>w, <1>cl, <1>wire, ShrunkStreams DEF Shrinks, TypeOK, Streams
<1> USE <1>same, <1>w, <1>cl, <1>wire, <1>shr
<1>1. TypeOK'
  BY DEF TypeOK
<1>2. Roles'
  BY DEF Roles, Speakers, None, Workers
<1>3. Placed'
  BY DEF Placed, Speakers, None, Workers
<1>4. HubUnfenced'
  BY DEF HubUnfenced
<1>5. Wired'
  BY DEF Wired, Speakers, None, Workers
<1>6. Sent'
  BY <1>1, SentShrinks
<1>7. Stand'
  BY <1>1, StandShrinks
<1>8. Told'
  BY <1>1, ToldShrinks
<1>9. Voice'
  BY VoiceShrinks
<1>10. Forwarded'
  BY DEF Forwarded
<1>11. Kept'
  BY <1>1, KeptShrinks DEF Vouched, Issued
<1> QED
  BY <1>1, <1>2, <1>3, <1>4, <1>5, <1>6, <1>7, <1>8, <1>9, <1>10, <1>11

\* The hub ends with its stream, or with the control connection it was made under.
LEMMA HubDiesStep ==
    ASSUME IInv, HubDies
    PROVE  IInv'
<1> USE DEF IInv
<1>same. /\ store' = store /\ link' = link /\ chan' = chan /\ guest' = guest /\ work' = work /\ late' = late
         /\ asks' = asks
  BY DEF HubDies
<1>hub. PICK c \in Conns : c = entry.hub /\ c # None
  BY Shapes DEF HubDies
<1>entry1. entry \in Entries
  BY DEF TypeOK
<1>entry2. entry' = [entry EXCEPT !.hub = None]
  BY <1>hub DEF HubDies
<1>entry. /\ entry'.boot = entry.boot /\ entry'.gen = entry.gen /\ entry'.state = entry.state
          /\ entry'.hub = None /\ entry'.hubLink = entry.hubLink /\ entry'.epoch = entry.epoch
          /\ entry'.recovered = entry.recovered /\ entry'.boots = entry.boots /\ entry' \in Entries
  BY <1>hub, <1>entry1, <1>entry2 DEF Entries, Sockets, None
<1>w. wire \in [Conns -> Streams]
  BY DEF TypeOK
<1>wire1. wire' = HostCloses(wire, c) /\ c \in Sockets
  BY <1>hub DEF HubDies, Sockets
<1>wire. /\ wire' \in [Conns -> Streams]
         /\ \A d \in Conns : wire'[d].guest = wire[d].guest /\ wire'[d].down = wire[d].down /\ (d # c => wire'[d] = wire[d])
         /\ ~wire'[c].host /\ wire'[c].up = <<>>
  BY <1>w, <1>hub, <1>wire1, HostClosesEffect
<1>f1. fwd \in [seq : Nat, pending : SUBSET Forwards]
  BY DEF TypeOK
<1>f2. fwd' = [fwd EXCEPT !.pending = {f \in @ : f.hub # c}]
  BY <1>hub DEF HubDies, WithoutHub
<1>fwd. /\ fwd' \in [seq : Nat, pending : SUBSET Forwards] /\ fwd'.seq = fwd.seq
        /\ fwd'.pending \subseteq fwd.pending
  BY <1>f1, <1>f2
<1>p1. past \in [tag : Nat, wrong : BOOLEAN, fenced : SUBSET Conns, remint : BOOLEAN]
  BY DEF TypeOK
<1>p2. past' = [past EXCEPT !.fenced = @ \cup {c}]
  BY <1>hub DEF HubDies
<1>past. /\ past' \in [tag : Nat, wrong : BOOLEAN, fenced : SUBSET Conns, remint : BOOLEAN]
         /\ past'.remint = past.remint /\ past'.fenced = past.fenced \cup {c}
  BY <1>hub, <1>p1, <1>p2
<1>none. past.fenced \subseteq Conns /\ None \notin Conns
  BY Shapes DEF TypeOK
<1>shr. Shrinks
  BY <1>same, <1>hub, <1>w, <1>wire, <1>entry, ShrunkStreams DEF Shrinks, TypeOK, Streams, Speakers, Workers
<1> USE <1>same, <1>hub, <1>entry, <1>w, <1>wire, <1>fwd, <1>past, <1>none, <1>shr
<1>1. TypeOK'
  BY DEF TypeOK
<1>2. Roles'
  BY DEF Roles, Speakers, None, Workers
<1>3. Placed'
  BY DEF Placed, Speakers, None, Workers
<1>4. HubUnfenced'
  BY DEF HubUnfenced, None
<1>5. Wired'
  BY DEF Wired, Speakers, None, Workers
<1>6. Sent'
  BY <1>1, SentShrinks
<1>7. Stand'
  BY <1>1, StandShrinks
<1>8. Told'
  BY <1>1, ToldShrinks
<1>9. Voice'
  BY VoiceShrinks
<1>10. Forwarded'
  BY DEF Forwarded, TypeOK
<1>11. Kept'
  BY <1>1, KeptShrinks DEF Vouched, Issued
<1> QED
  BY <1>1, <1>2, <1>3, <1>4, <1>5, <1>6, <1>7, <1>8, <1>9, <1>10, <1>11


--------------------
\* Frames a worker reads and writes

\* The guest enrols, as the boot it is.
LEMMA EnrollHeardStep ==
    ASSUME IInv, EnrollHeard
    PROVE  IInv'
<1> USE DEF IInv
<1>same. /\ store' = store /\ link' = link /\ entry' = entry /\ chan' = chan /\ guest' = guest /\ late' = late
         /\ asks' = asks /\ fwd' = fwd /\ past' = past
  BY DEF EnrollHeard
<1> USE DEF Shaped
<1>sh. Shaped
  BY Shapes
<1>w. work["enroll"].pc = "enroll" /\ "enroll" \in Workers /\ "enroll" \in Speakers
  BY DEF EnrollHeard, Heard, Workers, Speakers
<1>c. PICK c \in Conns : c = work["enroll"].conn
  BY <1>sh, <1>w DEF Roles
<1>ty. wire \in [Conns -> Streams] /\ wire[c].up \in Seq(Frames) /\ wire[c].down \in Seq(Frames)
  BY DEF TypeOK, Streams
<1>h. wire[c].up # <<>>
  BY <1>c DEF EnrollHeard, Heard
<1>w1. wire' = TakeUp(wire, c)
  BY <1>c DEF EnrollHeard, Read
<1>wire. /\ wire' \in [Conns -> Streams]
         /\ \A d \in Conns : /\ wire'[d].host = wire[d].host /\ wire'[d].guest = wire[d].guest
                             /\ wire'[d].down = wire[d].down
                             /\ (d # c => wire'[d] = wire[d])
         /\ wire[c].up # <<>> /\ wire'[c].up = Tail(wire[c].up)
  BY <1>c, <1>ty, <1>h, <1>w1, TakeUpEffect
<1>f. PICK f \in Frames : f = Head(wire[c].up)
  BY <1>ty, <1>h, InTail
<1>in. /\ f \in In(wire[c].up) /\ In(wire'[c].up) \subseteq In(wire[c].up)
       /\ Len(wire[c].up) <= 1 => wire'[c].up = <<>>
  BY <1>ty, <1>h, <1>f, <1>wire, InTail
<1>empty. wire'[c].up = <<>>
  BY <1>w, <1>c, <1>in DEF Sent, Calling
<1>fr. f.n \in Nat /\ f.m \in Nat
  BY <1>f DEF Frames
<1>nil. In(<<>>) = {} /\ Len(<<>>) = 0
  BY InFew, EmptySeq
<1>work1. work \in [Workers -> Jobs] /\ "enroll" \in Workers
  BY DEF TypeOK, Workers, Speakers
<1>job. PICK job \in Jobs : job = work["enroll"]
  BY <1>work1
<1>done1. PICK done : done = [job EXCEPT !.pc = "enrolling", !.call = "sent", !.n = f.m, !.token = f.n]
  OBVIOUS
<1>done. /\ done \in Jobs /\ done.pc = "enrolling" /\ done.conn = job.conn /\ done.boot = job.boot
         /\ done.gen = job.gen /\ done.link = job.link /\ done.hub = job.hub /\ done.call = "sent"
         /\ done.n = f.m /\ done.token = f.n /\ done.epoch = job.epoch /\ done.cap = job.cap
  BY <1>fr, <1>job, <1>done1 DEF Jobs, Stages, Sockets, None, Calling
<1>work2. work' = [work EXCEPT !["enroll"] = done]
  BY <1>fr, <1>c, <1>f, <1>job, <1>done1 DEF EnrollHeard, Calls, Awaits, Frame
<1>work. work' \in [Workers -> Jobs] /\ work'["enroll"] = done
           /\ \A x \in Workers : x # "enroll" => work'[x] = work[x]
  BY <1>work1, <1>work2, <1>done
<1> USE <1>same, <1>sh, <1>w, <1>c, <1>ty, <1>wire, <1>f, <1>in, <1>empty, <1>fr, <1>nil, <1>job, <1>done, <1>work
<1>1. TypeOK'
  BY DEF TypeOK, Workers, Calling
<1>2. Roles'
  BY DEF Roles, Speakers, None, Workers
<1>3. Placed'
  BY DEF Placed, Speakers, None, Workers
<1>4. HubUnfenced'
  BY DEF HubUnfenced
<1>5. Wired'
  BY DEF Wired, Speakers, None, Workers
<1>6. Sent'
  <2>1. work'["enroll"].conn = c /\ entry' = entry /\ wire'[c].up = <<>>
    OBVIOUS
  <2>2. /\ \A d \in Conns : d # c => wire'[d].up = wire[d].up
        /\ \A x \in Speakers : x # "enroll" => work'[x] = work[x]
    BY DEF Speakers, Workers
  <2> HIDE <1>same, <1>sh, <1>ty, <1>wire, <1>f, <1>in, <1>empty, <1>fr, <1>nil, <1>job, <1>done, <1>work
  <2> QED
    BY <2>1, <2>2, InFew, EmptySeq, SentOther
<1>7. Stand'
  BY DEF Stand, AtEnroll, AtReconnect, None, Workers
<1>8. Told'
  BY DEF Told, None
<1>9. Voice'
  BY DEF Voice, Mine, None
<1>10. Forwarded'
  BY DEF Forwarded
<1>11. Kept'
  <2> USE DEF Kept, Vouched, Issued, None, Workers
  <2>1. KeptGuest'
    BY DEF KeptGuest
  <2>2. KeptEnrolling'
    BY DEF KeptEnrolling
  <2>3. KeptAccepted'
    BY DEF KeptAccepted
  <2>4. KeptSecrets'
    BY DEF KeptSecrets
  <2>5. KeptReconnect'
    BY DEF KeptReconnect
  <2> QED
    BY <2>1, <2>2, <2>3, <2>4, <2>5
<1> QED
  BY <1>1, <1>2, <1>3, <1>4, <1>5, <1>6, <1>7, <1>8, <1>9, <1>10, <1>11

\* The guest proves itself.
LEMMA ProofHeardStep ==
    ASSUME IInv, ProofHeard
    PROVE  IInv'
<1> USE DEF IInv
<1>same. /\ store' = store /\ link' = link /\ entry' = entry /\ chan' = chan /\ guest' = guest /\ late' = late
         /\ asks' = asks /\ fwd' = fwd /\ past' = past
  BY DEF ProofHeard
<1> USE DEF Shaped
<1>sh. Shaped
  BY Shapes
<1>w. work["reconnect"].pc = "proof" /\ "reconnect" \in Workers /\ "reconnect" \in Speakers
  BY DEF ProofHeard, Heard, Workers, Speakers
<1>c. PICK c \in Conns : c = work["reconnect"].conn
  BY <1>sh, <1>w DEF Roles
<1>ty. wire \in [Conns -> Streams] /\ wire[c].up \in Seq(Frames) /\ wire[c].down \in Seq(Frames)
  BY DEF TypeOK, Streams
<1>h. wire[c].up # <<>>
  BY <1>c DEF ProofHeard, Heard
<1>w1. wire' = TakeUp(wire, c)
  BY <1>c DEF ProofHeard, Read
<1>wire. /\ wire' \in [Conns -> Streams]
         /\ \A d \in Conns : /\ wire'[d].host = wire[d].host /\ wire'[d].guest = wire[d].guest
                             /\ wire'[d].down = wire[d].down
                             /\ (d # c => wire'[d] = wire[d])
         /\ wire[c].up # <<>> /\ wire'[c].up = Tail(wire[c].up)
  BY <1>c, <1>ty, <1>h, <1>w1, TakeUpEffect
<1>f. PICK f \in Frames : f = Head(wire[c].up)
  BY <1>ty, <1>h, InTail
<1>in. /\ f \in In(wire[c].up) /\ In(wire'[c].up) \subseteq In(wire[c].up)
       /\ Len(wire[c].up) <= 1 => wire'[c].up = <<>>
  BY <1>ty, <1>h, <1>f, <1>wire, InTail
<1>empty. wire'[c].up = <<>>
  BY <1>w, <1>c, <1>in DEF Sent, Calling
<1>fr. f.n \in Nat /\ f.m \in Nat
  BY <1>f DEF Frames
<1>nil. In(<<>>) = {} /\ Len(<<>>) = 0
  BY InFew, EmptySeq
<1>work1. work \in [Workers -> Jobs] /\ "reconnect" \in Workers
  BY DEF TypeOK, Workers, Speakers
<1>job. PICK job \in Jobs : job = work["reconnect"]
  BY <1>work1
<1>done1. PICK done : done = [job EXCEPT !.pc = "accept", !.call = "sent", !.n = f.n, !.token = f.m]
  OBVIOUS
<1>done. /\ done \in Jobs /\ done.pc = "accept" /\ done.conn = job.conn /\ done.boot = job.boot
         /\ done.gen = job.gen /\ done.link = job.link /\ done.hub = job.hub /\ done.call = "sent"
         /\ done.n = f.n /\ done.token = f.m /\ done.epoch = job.epoch /\ done.cap = job.cap
  BY <1>fr, <1>job, <1>done1 DEF Jobs, Stages, Sockets, None, Calling
<1>work2. work' = [work EXCEPT !["reconnect"] = done]
  BY <1>fr, <1>c, <1>f, <1>job, <1>done1 DEF ProofHeard, Calls, Awaits, Frame
<1>work. work' \in [Workers -> Jobs] /\ work'["reconnect"] = done
           /\ \A x \in Workers : x # "reconnect" => work'[x] = work[x]
  BY <1>work1, <1>work2, <1>done
<1>shut. \A d \in Conns : ~wire'[d].host => wire'[d].up = <<>>
  BY <1>wire, <1>empty DEF Wired
<1>stand. guest.conn = c => guest.pc # "enrolling"
  BY <1>sh, <1>w, <1>c DEF Stand, AtReconnect
<1>other. work'.enroll = work.enroll
  BY <1>work DEF Workers
<1> USE <1>same, <1>sh, <1>w, <1>c, <1>ty, <1>wire, <1>f, <1>in, <1>empty, <1>fr, <1>nil, <1>job, <1>done, <1>work, <1>shut,
        <1>stand, <1>other
<1>1. TypeOK'
  BY DEF TypeOK, Workers, Calling
<1>2. Roles'
  BY DEF Roles, Speakers, None, Workers
<1>3. Placed'
  BY DEF Placed, Speakers, None, Workers
<1>4. HubUnfenced'
  BY DEF HubUnfenced
<1>5. Wired'
  BY DEF Wired, Speakers, None, Workers
<1>6. Sent'
  <2>1. work'["reconnect"].conn = c /\ entry' = entry /\ wire'[c].up = <<>>
    OBVIOUS
  <2>2. /\ \A d \in Conns : d # c => wire'[d].up = wire[d].up
        /\ \A x \in Speakers : x # "reconnect" => work'[x] = work[x]
    BY DEF Speakers, Workers
  <2> HIDE <1>same, <1>sh, <1>ty, <1>wire, <1>f, <1>in, <1>empty, <1>fr, <1>nil, <1>job, <1>done, <1>work, <1>shut,
          <1>stand, <1>other
  <2> QED
    BY <2>1, <2>2, InFew, EmptySeq, SentOther
<1>7. Stand'
  BY DEF Stand, AtEnroll, AtReconnect, None, Workers
<1>8. Told'
  BY DEF Told, None
<1>9. Voice'
  BY DEF Voice, Mine, None
<1>10. Forwarded'
  BY DEF Forwarded
<1>11. Kept'
  <2> USE DEF Kept, Vouched, Issued, None, Workers
  <2>1. KeptGuest'
    BY DEF KeptGuest
  <2>2. KeptEnrolling'
    BY DEF KeptEnrolling
  <2>3. KeptAccepted'
    BY DEF KeptAccepted
  <2>4. KeptSecrets'
    BY DEF KeptSecrets
  <2>5. KeptReconnect'
    BY DEF KeptReconnect
  <2> QED
    BY <2>1, <2>2, <2>3, <2>4, <2>5
<1> QED
  BY <1>1, <1>2, <1>3, <1>4, <1>5, <1>6, <1>7, <1>8, <1>9, <1>10, <1>11

\* The guest redeems the token it was delivered.
LEMMA RedeemHeardStep ==
    ASSUME IInv, RedeemHeard
    PROVE  IInv'
<1> USE DEF IInv
<1>same. /\ store' = store /\ link' = link /\ entry' = entry /\ chan' = chan /\ guest' = guest /\ late' = late
         /\ asks' = asks /\ fwd' = fwd /\ past' = past
  BY DEF RedeemHeard
<1> USE DEF Shaped
<1>sh. Shaped
  BY Shapes
<1>w. work["reconnect"].pc = "redeem" /\ "reconnect" \in Workers /\ "reconnect" \in Speakers
  BY DEF RedeemHeard, Heard, Workers, Speakers
<1>c. PICK c \in Conns : c = work["reconnect"].conn
  BY <1>sh, <1>w DEF Roles
<1>ty. wire \in [Conns -> Streams] /\ wire[c].up \in Seq(Frames) /\ wire[c].down \in Seq(Frames)
  BY DEF TypeOK, Streams
<1>h. wire[c].up # <<>>
  BY <1>c DEF RedeemHeard, Heard
<1>w1. wire' = TakeUp(wire, c)
  BY <1>c DEF RedeemHeard, Read
<1>wire. /\ wire' \in [Conns -> Streams]
         /\ \A d \in Conns : /\ wire'[d].host = wire[d].host /\ wire'[d].guest = wire[d].guest
                             /\ wire'[d].down = wire[d].down
                             /\ (d # c => wire'[d] = wire[d])
         /\ wire[c].up # <<>> /\ wire'[c].up = Tail(wire[c].up)
  BY <1>c, <1>ty, <1>h, <1>w1, TakeUpEffect
<1>f. PICK f \in Frames : f = Head(wire[c].up)
  BY <1>ty, <1>h, InTail
<1>in. /\ f \in In(wire[c].up) /\ In(wire'[c].up) \subseteq In(wire[c].up)
       /\ Len(wire[c].up) <= 1 => wire'[c].up = <<>>
  BY <1>ty, <1>h, <1>f, <1>wire, InTail
<1>empty. wire'[c].up = <<>>
  BY <1>w, <1>c, <1>in DEF Sent, Calling
<1>fr. f.n \in Nat /\ f.m \in Nat
  BY <1>f DEF Frames
<1>nil. In(<<>>) = {} /\ Len(<<>>) = 0
  BY InFew, EmptySeq
<1>work1. work \in [Workers -> Jobs] /\ "reconnect" \in Workers
  BY DEF TypeOK, Workers, Speakers
<1>job. PICK job \in Jobs : job = work["reconnect"]
  BY <1>work1
<1>done1. PICK done : done = [job EXCEPT !.pc = "fetch", !.call = "sent", !.n = 0, !.token = job.cap]
  OBVIOUS
<1>done. /\ done \in Jobs /\ done.pc = "fetch" /\ done.conn = job.conn /\ done.boot = job.boot
         /\ done.gen = job.gen /\ done.link = job.link /\ done.hub = job.hub /\ done.call = "sent"
         /\ done.n = 0 /\ done.token = job.cap /\ done.epoch = job.epoch /\ done.cap = job.cap
  BY <1>job, <1>done1 DEF Jobs, Stages, Sockets, None, Calling
<1>work2. work' = [work EXCEPT !["reconnect"] = done]
  BY <1>job, <1>done1 DEF RedeemHeard, Calls, Awaits
<1>work. work' \in [Workers -> Jobs] /\ work'["reconnect"] = done
           /\ \A x \in Workers : x # "reconnect" => work'[x] = work[x]
  BY <1>work1, <1>work2, <1>done
<1>cap. f.n = job.cap
  BY <1>c, <1>f, <1>job DEF RedeemHeard, Frame
<1> USE <1>same, <1>sh, <1>w, <1>c, <1>ty, <1>wire, <1>f, <1>in, <1>empty, <1>fr, <1>nil, <1>job, <1>done, <1>work, <1>cap
<1>1. TypeOK'
  BY DEF TypeOK, Workers, Calling
<1>2. Roles'
  BY DEF Roles, Speakers, None, Workers
<1>3. Placed'
  BY DEF Placed, Speakers, None, Workers
<1>4. HubUnfenced'
  BY DEF HubUnfenced
<1>5. Wired'
  BY DEF Wired, Speakers, None, Workers
<1>6. Sent'
  <2>1. work'["reconnect"].conn = c /\ entry' = entry /\ wire'[c].up = <<>>
    OBVIOUS
  <2>2. /\ \A d \in Conns : d # c => wire'[d].up = wire[d].up
        /\ \A x \in Speakers : x # "reconnect" => work'[x] = work[x]
    BY DEF Speakers, Workers
  <2> HIDE <1>same, <1>sh, <1>ty, <1>wire, <1>f, <1>in, <1>empty, <1>fr, <1>nil, <1>job, <1>done, <1>work, <1>cap
  <2> QED
    BY <2>1, <2>2, InFew, EmptySeq, SentOther
<1>7. Stand'
  BY DEF Stand, AtEnroll, AtReconnect, None, Workers
<1>8. Told'
  BY DEF Told, None
<1>9. Voice'
  BY DEF Voice, Mine, None
<1>10. Forwarded'
  BY DEF Forwarded
<1>11. Kept'
  <2> USE DEF Kept, Vouched, Issued, None, Workers
  <2>1. KeptGuest'
    BY DEF KeptGuest
  <2>2. KeptEnrolling'
    BY DEF KeptEnrolling
  <2>3. KeptAccepted'
    BY DEF KeptAccepted
  <2>4. KeptSecrets'
    BY DEF KeptSecrets
  <2>5. KeptReconnect'
    BY DEF KeptReconnect
  <2> QED
    BY <2>1, <2>2, <2>3, <2>4, <2>5
<1> QED
  BY <1>1, <1>2, <1>3, <1>4, <1>5, <1>6, <1>7, <1>8, <1>9, <1>10, <1>11

\* The answer is handed to the guest that enrolled.
LEMMA EnrollAnsweredStep ==
    ASSUME IInv, EnrollAnswered
    PROVE  IInv'
<1> USE DEF IInv
<1>same. /\ store' = store /\ link' = link /\ entry' = entry /\ chan' = chan /\ guest' = guest /\ late' = late
         /\ asks' = asks /\ fwd' = fwd /\ past' = past
  BY DEF EnrollAnswered
<1> USE DEF Shaped
<1>sh. Shaped
  BY Shapes
<1>w. work["enroll"].pc = "enrolling" /\ "enroll" \in Workers /\ "enroll" \in Speakers
  BY DEF EnrollAnswered, Answered, Workers, Speakers
<1>c. PICK c \in Conns : c = work["enroll"].conn
  BY <1>sh, <1>w DEF Roles
<1>ty. wire \in [Conns -> Streams] /\ wire[c].up \in Seq(Frames) /\ wire[c].down \in Seq(Frames)
  BY DEF TypeOK, Streams
<1>job0. work["enroll"] \in Jobs
  BY <1>w DEF TypeOK
<1>nums. /\ work["enroll"].n \in Nat /\ work["enroll"].token \in Nat /\ work["enroll"].epoch \in Nat
         /\ work["enroll"].cap \in Nat
  BY <1>job0 DEF Jobs
<1>f. PICK f \in Frames : f = F("resp", work["enroll"].token, 0)
  BY <1>nums DEF Frames, F
<1>fk. f.k = "resp" /\ f.n = work["enroll"].token
  BY <1>f DEF F
<1>s. PICK s \in Seq(Frames) : s = <<f>>
  BY <1>f, FrameSeq
<1>sd. s \in Seq(Frames)
  BY <1>s
<1>sq. In(s) = {f} /\ Len(s) = 1
  BY <1>s, InFew
<1>w1. wire' = Down(c, s)
  BY <1>c, <1>s, <1>f DEF EnrollAnswered
<1>wt. wire' \in [Conns -> Streams]
  BY <1>c, <1>ty, <1>sd, <1>w1, DownEffect
<1>wo. \A d \in Conns : /\ wire'[d].host = wire[d].host /\ wire'[d].guest = wire[d].guest
                        /\ wire'[d].up = wire[d].up
                        /\ (d # c => wire'[d] = wire[d])
  BY <1>c, <1>ty, <1>sd, <1>w1, DownEffect
<1>wd. wire[c].host /\ wire[c].guest => wire'[c].down = wire[c].down \o s
  BY <1>c, <1>ty, <1>sd, <1>w1, DownEffect
<1>ws. ~(wire[c].host /\ wire[c].guest) => wire' = wire
  BY <1>c, <1>ty, <1>sd, <1>w1, DownEffect
<1>len. Len(wire[c].down) \in Nat
  BY <1>ty, InFrames
<1>wire. /\ wire' \in [Conns -> Streams]
         /\ \A d \in Conns : /\ wire'[d].host = wire[d].host /\ wire'[d].guest = wire[d].guest
                             /\ wire'[d].up = wire[d].up
                             /\ (d # c => wire'[d] = wire[d])
         /\ In(wire'[c].down) \subseteq In(wire[c].down) \cup {f}
         /\ wire[c].down = <<>> => Len(wire'[c].down) <= 1
  <2>1. /\ In(wire[c].down \o s) = In(wire[c].down) \cup In(s)
        /\ Len(wire[c].down \o s) = Len(wire[c].down) + Len(s)
    BY <1>ty, <1>sd, InJoin
  <2>2. Len(<<>>) = 0
    BY EmptySeq
  <2>3. CASE wire[c].host /\ wire[c].guest
    <3>1. In(wire'[c].down) = In(wire[c].down) \cup In(s) /\ Len(wire'[c].down) = Len(wire[c].down) + Len(s)
      BY <1>wd, <2>1, <2>3
    <3> QED
      BY <1>wt, <1>wo, <1>len, <1>sq, <2>2, <3>1
  <2>4. CASE ~(wire[c].host /\ wire[c].guest)
    BY <1>wt, <1>wo, <1>ws, <1>len, <2>2, <2>4
  <2> QED
    BY <2>3, <2>4
<1>empty. wire[c].up = <<>>
  BY <1>w, <1>c DEF Sent, Calling
<1>nil. In(<<>>) = {} /\ Len(<<>>) = 0
  BY InFew, EmptySeq
<1>work1. work \in [Workers -> Jobs] /\ "enroll" \in Workers
  BY DEF TypeOK, Workers, Speakers
<1>job. PICK job \in Jobs : job = work["enroll"]
  BY <1>work1
<1>done1. PICK done : done = [job EXCEPT !.pc = "install", !.call = "none", !.n = 0]
  OBVIOUS
<1>done. /\ done \in Jobs /\ done.pc = "install" /\ done.conn = job.conn /\ done.boot = job.boot
         /\ done.gen = job.gen /\ done.link = job.link /\ done.hub = job.hub /\ done.call = "none"
         /\ done.n = 0 /\ done.token = job.token /\ done.epoch = job.epoch /\ done.cap = job.cap
  BY <1>job, <1>done1 DEF Jobs, Stages, Sockets, None, Calling
<1>work2. work' = [work EXCEPT !["enroll"] = done]
  BY <1>job, <1>done1 DEF EnrollAnswered, Calls, Awaits
<1>work. work' \in [Workers -> Jobs] /\ work'["enroll"] = done
           /\ \A x \in Workers : x # "enroll" => work'[x] = work[x]
  BY <1>work1, <1>work2, <1>done
<1>stand. guest.conn = c => guest.pc = "enrolling" /\ wire[c].down = <<>>
  BY <1>sh, <1>w, <1>c DEF Stand, AtEnroll
<1>other. work'.reconnect = work.reconnect
  BY <1>work DEF Workers
<1>ok. job.call = "ok"
  BY <1>job DEF EnrollAnswered, Accepted
<1>told. guest.conn = c => f.n = guest.token /\ Vouched
  BY <1>sh, <1>w, <1>c, <1>fk, <1>job, <1>ok, <1>stand DEF Kept, KeptEnrolling
<1> USE <1>same, <1>sh, <1>w, <1>c, <1>ty, <1>fk, <1>wire, <1>empty, <1>nil, <1>job, <1>done, <1>work, <1>stand, <1>other,
        <1>ok, <1>told
<1>1. TypeOK'
  BY DEF TypeOK, Workers, Calling
<1>2. Roles'
  BY DEF Roles, Speakers, None, Workers
<1>3. Placed'
  BY DEF Placed, Speakers, None, Workers
<1>4. HubUnfenced'
  BY DEF HubUnfenced
<1>5. Wired'
  BY DEF Wired, Speakers, None, Workers
<1>6. Sent'
  <2>1. work'["enroll"].conn = c /\ entry' = entry /\ wire'[c].up = <<>>
    OBVIOUS
  <2>2. /\ \A d \in Conns : d # c => wire'[d].up = wire[d].up
        /\ \A x \in Speakers : x # "enroll" => work'[x] = work[x]
    BY DEF Speakers, Workers
  <2> HIDE <1>same, <1>sh, <1>ty, <1>fk, <1>wire, <1>empty, <1>nil, <1>job, <1>done, <1>work, <1>stand, <1>other, <1>ok,
          <1>told
  <2> QED
    BY <2>1, <2>2, InFew, EmptySeq, SentOther
<1>7. Stand'
  BY DEF Stand, AtEnroll, AtReconnect, None, Workers
<1>8. Told'
  BY DEF Told, None
<1>9. Voice'
  BY DEF Voice, Mine, None
<1>10. Forwarded'
  BY DEF Forwarded
<1>11. Kept'
  <2> USE DEF Kept, Vouched, Issued, None, Workers
  <2>1. KeptGuest'
    BY DEF KeptGuest
  <2>2. KeptEnrolling'
    <3>1. CASE guest.conn = c
      <4>1. \A x \in In(wire'[c].down) : x.n = guest.token /\ Vouched
        BY <3>1
      <4>2. work'.enroll.pc # "enrolling" /\ In(wire'[c].up) = {}
        OBVIOUS
      <4> QED
        BY <3>1, <4>1, <4>2 DEF KeptEnrolling
    <3>2. CASE guest.conn # c
      <4>1. guest.conn # None => wire'[guest.conn] = wire[guest.conn]
        BY <3>2
      <4>2. work'.enroll.conn = c
        OBVIOUS
      <4> QED
        BY <3>2, <4>1, <4>2 DEF KeptEnrolling
    <3> QED
      BY <3>1, <3>2
  <2>3. KeptAccepted'
    BY DEF KeptAccepted
  <2>4. KeptSecrets'
    BY DEF KeptSecrets
  <2>5. KeptReconnect'
    BY DEF KeptReconnect
  <2> QED
    BY <2>1, <2>2, <2>3, <2>4, <2>5
<1> QED
  BY <1>1, <1>2, <1>3, <1>4, <1>5, <1>6, <1>7, <1>8, <1>9, <1>10, <1>11

\* The attempt is put to the guest.
LEMMA BeginAnsweredStep ==
    ASSUME IInv, BeginAnswered
    PROVE  IInv'
<1> USE DEF IInv
<1>same. /\ store' = store /\ link' = link /\ entry' = entry /\ chan' = chan /\ guest' = guest /\ late' = late
         /\ asks' = asks /\ fwd' = fwd /\ past' = past
  BY DEF BeginAnswered
<1> USE DEF Shaped
<1>sh. Shaped
  BY Shapes
<1>w. work["reconnect"].pc = "begin" /\ "reconnect" \in Workers /\ "reconnect" \in Speakers
  BY DEF BeginAnswered, Answered, Workers, Speakers
<1>c. PICK c \in Conns : c = work["reconnect"].conn
  BY <1>sh, <1>w DEF Roles
<1>ty. wire \in [Conns -> Streams] /\ wire[c].up \in Seq(Frames) /\ wire[c].down \in Seq(Frames)
  BY DEF TypeOK, Streams
<1>job0. work["reconnect"] \in Jobs
  BY <1>w DEF TypeOK
<1>nums. /\ work["reconnect"].n \in Nat /\ work["reconnect"].token \in Nat /\ work["reconnect"].epoch \in Nat
         /\ work["reconnect"].cap \in Nat
  BY <1>job0 DEF Jobs
<1>f. PICK f \in Frames : f = F("challenge", work["reconnect"].n, work["reconnect"].token)
  BY <1>nums DEF Frames, F
<1>fk. f.k = "challenge" /\ f.n = work["reconnect"].n /\ f.m = work["reconnect"].token
  BY <1>f DEF F
<1>s. PICK s \in Seq(Frames) : s = <<f>>
  BY <1>f, FrameSeq
<1>sd. s \in Seq(Frames)
  BY <1>s
<1>sq. In(s) = {f} /\ Len(s) = 1
  BY <1>s, InFew
<1>w1. wire' = Down(c, s)
  BY <1>c, <1>s, <1>f DEF BeginAnswered
<1>wt. wire' \in [Conns -> Streams]
  BY <1>c, <1>ty, <1>sd, <1>w1, DownEffect
<1>wo. \A d \in Conns : /\ wire'[d].host = wire[d].host /\ wire'[d].guest = wire[d].guest
                        /\ wire'[d].up = wire[d].up
                        /\ (d # c => wire'[d] = wire[d])
  BY <1>c, <1>ty, <1>sd, <1>w1, DownEffect
<1>wd. wire[c].host /\ wire[c].guest => wire'[c].down = wire[c].down \o s
  BY <1>c, <1>ty, <1>sd, <1>w1, DownEffect
<1>ws. ~(wire[c].host /\ wire[c].guest) => wire' = wire
  BY <1>c, <1>ty, <1>sd, <1>w1, DownEffect
<1>len. Len(wire[c].down) \in Nat
  BY <1>ty, InFrames
<1>wire. /\ wire' \in [Conns -> Streams]
         /\ \A d \in Conns : /\ wire'[d].host = wire[d].host /\ wire'[d].guest = wire[d].guest
                             /\ wire'[d].up = wire[d].up
                             /\ (d # c => wire'[d] = wire[d])
         /\ In(wire'[c].down) \subseteq In(wire[c].down) \cup {f}
         /\ wire[c].down = <<>> => Len(wire'[c].down) <= 1
  <2>1. /\ In(wire[c].down \o s) = In(wire[c].down) \cup In(s)
        /\ Len(wire[c].down \o s) = Len(wire[c].down) + Len(s)
    BY <1>ty, <1>sd, InJoin
  <2>2. Len(<<>>) = 0
    BY EmptySeq
  <2>3. CASE wire[c].host /\ wire[c].guest
    <3>1. In(wire'[c].down) = In(wire[c].down) \cup In(s) /\ Len(wire'[c].down) = Len(wire[c].down) + Len(s)
      BY <1>wd, <2>1, <2>3
    <3> QED
      BY <1>wt, <1>wo, <1>len, <1>sq, <2>2, <3>1
  <2>4. CASE ~(wire[c].host /\ wire[c].guest)
    BY <1>wt, <1>wo, <1>ws, <1>len, <2>2, <2>4
  <2> QED
    BY <2>3, <2>4
<1>empty. wire[c].up = <<>>
  BY <1>w, <1>c DEF Sent, Calling
<1>nil. In(<<>>) = {} /\ Len(<<>>) = 0
  BY InFew, EmptySeq
<1>work1. work \in [Workers -> Jobs] /\ "reconnect" \in Workers
  BY DEF TypeOK, Workers, Speakers
<1>job. PICK job \in Jobs : job = work["reconnect"]
  BY <1>work1
<1>done1. PICK done : done = [job EXCEPT !.pc = "proof", !.call = "none"]
  OBVIOUS
<1>done. /\ done \in Jobs /\ done.pc = "proof" /\ done.conn = job.conn /\ done.boot = job.boot
         /\ done.gen = job.gen /\ done.link = job.link /\ done.hub = job.hub /\ done.call = "none"
         /\ done.n = job.n /\ done.token = job.token /\ done.epoch = job.epoch /\ done.cap = job.cap
  BY <1>job, <1>done1 DEF Jobs, Stages, Sockets, None, Calling
<1>work2. work' = [work EXCEPT !["reconnect"] = done]
  BY <1>job, <1>done1 DEF BeginAnswered, Calls, Awaits
<1>work. work' \in [Workers -> Jobs] /\ work'["reconnect"] = done
           /\ \A x \in Workers : x # "reconnect" => work'[x] = work[x]
  BY <1>work1, <1>work2, <1>done
<1>stand. guest.conn = c => guest.pc \in {"challenge", "config"} /\ wire[c].down = <<>>
  BY <1>sh, <1>w, <1>c DEF Stand, AtReconnect
<1>alone. \A a \in asks : guest.conn = c => a.conn # c
  BY <1>sh, <1>stand DEF Told
<1>other. work'.enroll = work.enroll
  BY <1>work DEF Workers
<1>down. guest.conn = c => In(wire'[c].down) \subseteq {f} /\ Len(wire'[c].down) <= 1 /\ wire'[c].up = <<>>
  BY <1>c, <1>wire, <1>empty, <1>nil, <1>stand
<1> USE <1>same, <1>sh, <1>w, <1>c, <1>ty, <1>fk, <1>wire, <1>empty, <1>nil, <1>job, <1>done, <1>work, <1>stand, <1>alone,
        <1>other, <1>down
<1>1. TypeOK'
  BY DEF TypeOK, Workers, Calling
<1>2. Roles'
  BY DEF Roles, Speakers, None, Workers
<1>3. Placed'
  BY DEF Placed, Speakers, None, Workers
<1>4. HubUnfenced'
  BY DEF HubUnfenced
<1>5. Wired'
  BY DEF Wired, Speakers, None, Workers
<1>6. Sent'
  <2>1. work'["reconnect"].conn = c /\ entry' = entry /\ wire'[c].up = <<>>
    OBVIOUS
  <2>2. /\ \A d \in Conns : d # c => wire'[d].up = wire[d].up
        /\ \A x \in Speakers : x # "reconnect" => work'[x] = work[x]
    BY DEF Speakers, Workers
  <2> HIDE <1>same, <1>sh, <1>ty, <1>fk, <1>wire, <1>empty, <1>nil, <1>job, <1>done, <1>work, <1>stand, <1>alone,
          <1>other, <1>down
  <2> QED
    BY <2>1, <2>2, InFew, EmptySeq, SentOther
<1>7. Stand'
  <2>1. work'.enroll = work.enroll /\ work'.reconnect.conn = c /\ work'.reconnect.pc = "proof"
    OBVIOUS
  <2>2. CASE guest.conn = c
    <3>1. work'.enroll.conn # c
      BY <2>1 DEF Wired
    <3>2. entry.hub # c
      BY DEF Wired
    <3>3. \A x \in In(wire'[c].down) : x.k = "challenge"
      BY <2>2
    <3>4. AtReconnect'
      BY <2>1, <2>2, <3>3 DEF AtReconnect
    <3> QED
      BY <2>2, <3>1, <3>2, <3>4 DEF Stand
  <2>3. CASE guest.conn # c
    <3>1. guest.conn # None => wire'[guest.conn] = wire[guest.conn]
      BY <2>3
    <3> QED
      BY <2>1, <2>3, <3>1 DEF Stand, AtEnroll, AtReconnect
  <2> QED
    BY <2>2, <2>3
<1>8. Told'
  <2>1. CASE guest.conn = c
    <3>1. \A x \in In(wire'[c].down) : x.k = "challenge"
      BY <2>1
    <3>2. In(wire'[c].up) = {} /\ Len(wire'[c].down) <= 1
      BY <2>1
    <3> QED
      BY <2>1, <3>1, <3>2 DEF Told
  <2>2. CASE guest.conn # c
    <3>1. guest.conn # None => wire'[guest.conn] = wire[guest.conn]
      BY <2>2
    <3> QED
      BY <2>2, <3>1 DEF Told
  <2> QED
    BY <2>1, <2>2
<1>9. Voice'
  BY DEF Voice, Mine, None
<1>10. Forwarded'
  BY DEF Forwarded
<1>11. Kept'
  <2> USE DEF Kept, Vouched, Issued, None, Workers
  <2>1. KeptGuest'
    BY DEF KeptGuest
  <2>2. KeptEnrolling'
    BY DEF KeptEnrolling
  <2>3. KeptAccepted'
    BY DEF KeptAccepted
  <2>4. KeptSecrets'
    BY DEF KeptSecrets
  <2>5. KeptReconnect'
    BY DEF KeptReconnect
  <2> QED
    BY <2>1, <2>2, <2>3, <2>4, <2>5
<1> QED
  BY <1>1, <1>2, <1>3, <1>4, <1>5, <1>6, <1>7, <1>8, <1>9, <1>10, <1>11

\* The secrets are handed to the guest.
LEMMA FetchAnsweredStep ==
    ASSUME IInv, FetchAnswered
    PROVE  IInv'
<1> USE DEF IInv
<1>same. /\ store' = store /\ link' = link /\ entry' = entry /\ chan' = chan /\ guest' = guest /\ late' = late
         /\ asks' = asks /\ fwd' = fwd /\ past' = past
  BY DEF FetchAnswered
<1> USE DEF Shaped
<1>sh. Shaped
  BY Shapes
<1>w. work["reconnect"].pc = "fetch" /\ "reconnect" \in Workers /\ "reconnect" \in Speakers
  BY DEF FetchAnswered, Answered, Workers, Speakers
<1>c. PICK c \in Conns : c = work["reconnect"].conn
  BY <1>sh, <1>w DEF Roles
<1>ty. wire \in [Conns -> Streams] /\ wire[c].up \in Seq(Frames) /\ wire[c].down \in Seq(Frames)
  BY DEF TypeOK, Streams
<1>job0. work["reconnect"] \in Jobs
  BY <1>w DEF TypeOK
<1>nums. /\ work["reconnect"].n \in Nat /\ work["reconnect"].token \in Nat /\ work["reconnect"].epoch \in Nat
         /\ work["reconnect"].cap \in Nat
  BY <1>job0 DEF Jobs
<1>f. PICK f \in Frames : f = F("resp", work["reconnect"].cap, 0)
  BY <1>nums DEF Frames, F
<1>fk. f.k = "resp" /\ f.n = work["reconnect"].cap
  BY <1>f DEF F
<1>s. PICK s \in Seq(Frames) : s = <<f>>
  BY <1>f, FrameSeq
<1>sd. s \in Seq(Frames)
  BY <1>s
<1>sq. In(s) = {f} /\ Len(s) = 1
  BY <1>s, InFew
<1>w1. wire' = Down(c, s)
  BY <1>c, <1>s, <1>f DEF FetchAnswered
<1>wt. wire' \in [Conns -> Streams]
  BY <1>c, <1>ty, <1>sd, <1>w1, DownEffect
<1>wo. \A d \in Conns : /\ wire'[d].host = wire[d].host /\ wire'[d].guest = wire[d].guest
                        /\ wire'[d].up = wire[d].up
                        /\ (d # c => wire'[d] = wire[d])
  BY <1>c, <1>ty, <1>sd, <1>w1, DownEffect
<1>wd. wire[c].host /\ wire[c].guest => wire'[c].down = wire[c].down \o s
  BY <1>c, <1>ty, <1>sd, <1>w1, DownEffect
<1>ws. ~(wire[c].host /\ wire[c].guest) => wire' = wire
  BY <1>c, <1>ty, <1>sd, <1>w1, DownEffect
<1>len. Len(wire[c].down) \in Nat
  BY <1>ty, InFrames
<1>wire. /\ wire' \in [Conns -> Streams]
         /\ \A d \in Conns : /\ wire'[d].host = wire[d].host /\ wire'[d].guest = wire[d].guest
                             /\ wire'[d].up = wire[d].up
                             /\ (d # c => wire'[d] = wire[d])
         /\ In(wire'[c].down) \subseteq In(wire[c].down) \cup {f}
         /\ wire[c].down = <<>> => Len(wire'[c].down) <= 1
  <2>1. /\ In(wire[c].down \o s) = In(wire[c].down) \cup In(s)
        /\ Len(wire[c].down \o s) = Len(wire[c].down) + Len(s)
    BY <1>ty, <1>sd, InJoin
  <2>2. Len(<<>>) = 0
    BY EmptySeq
  <2>3. CASE wire[c].host /\ wire[c].guest
    <3>1. In(wire'[c].down) = In(wire[c].down) \cup In(s) /\ Len(wire'[c].down) = Len(wire[c].down) + Len(s)
      BY <1>wd, <2>1, <2>3
    <3> QED
      BY <1>wt, <1>wo, <1>len, <1>sq, <2>2, <3>1
  <2>4. CASE ~(wire[c].host /\ wire[c].guest)
    BY <1>wt, <1>wo, <1>ws, <1>len, <2>2, <2>4
  <2> QED
    BY <2>3, <2>4
<1>empty. wire[c].up = <<>>
  BY <1>w, <1>c DEF Sent, Calling
<1>nil. In(<<>>) = {} /\ Len(<<>>) = 0
  BY InFew, EmptySeq
<1>work1. work \in [Workers -> Jobs] /\ "reconnect" \in Workers
  BY DEF TypeOK, Workers, Speakers
<1>job. PICK job \in Jobs : job = work["reconnect"]
  BY <1>work1
<1>done1. PICK done : done = [job EXCEPT !.pc = "ready", !.call = "none"]
  OBVIOUS
<1>done. /\ done \in Jobs /\ done.pc = "ready" /\ done.conn = job.conn /\ done.boot = job.boot
         /\ done.gen = job.gen /\ done.link = job.link /\ done.hub = job.hub /\ done.call = "none"
         /\ done.n = job.n /\ done.token = job.token /\ done.epoch = job.epoch /\ done.cap = job.cap
  BY <1>job, <1>done1 DEF Jobs, Stages, Sockets, None, Calling
<1>work2. work' = [work EXCEPT !["reconnect"] = done]
  BY <1>job, <1>done1 DEF FetchAnswered, Calls, Awaits
<1>work. work' \in [Workers -> Jobs] /\ work'["reconnect"] = done
           /\ \A x \in Workers : x # "reconnect" => work'[x] = work[x]
  BY <1>work1, <1>work2, <1>done
<1>stand. guest.conn = c => guest.pc = "secrets" /\ wire[c].down = <<>>
  BY <1>sh, <1>w, <1>c DEF Stand, AtReconnect
<1>other. work'.enroll = work.enroll
  BY <1>work DEF Workers
<1>told. guest.conn = c => f.n = guest.token
  BY <1>sh, <1>w, <1>c, <1>fk, <1>job, <1>stand DEF Kept, KeptSecrets
<1> USE <1>same, <1>sh, <1>w, <1>c, <1>ty, <1>fk, <1>wire, <1>empty, <1>nil, <1>job, <1>done, <1>work, <1>stand, <1>other,
        <1>told
<1>1. TypeOK'
  BY DEF TypeOK, Workers, Calling
<1>2. Roles'
  BY DEF Roles, Speakers, None, Workers
<1>3. Placed'
  BY DEF Placed, Speakers, None, Workers
<1>4. HubUnfenced'
  BY DEF HubUnfenced
<1>5. Wired'
  BY DEF Wired, Speakers, None, Workers
<1>6. Sent'
  <2>1. work'["reconnect"].conn = c /\ entry' = entry /\ wire'[c].up = <<>>
    OBVIOUS
  <2>2. /\ \A d \in Conns : d # c => wire'[d].up = wire[d].up
        /\ \A x \in Speakers : x # "reconnect" => work'[x] = work[x]
    BY DEF Speakers, Workers
  <2> HIDE <1>same, <1>sh, <1>ty, <1>fk, <1>wire, <1>empty, <1>nil, <1>job, <1>done, <1>work, <1>stand, <1>other, <1>told
  <2> QED
    BY <2>1, <2>2, InFew, EmptySeq, SentOther
<1>7. Stand'
  BY DEF Stand, AtEnroll, AtReconnect, None, Workers
<1>8. Told'
  BY DEF Told, None
<1>9. Voice'
  BY DEF Voice, Mine, None
<1>10. Forwarded'
  BY DEF Forwarded
<1>11. Kept'
  <2> USE DEF Kept, Vouched, Issued, None, Workers
  <2>1. KeptGuest'
    BY DEF KeptGuest
  <2>2. KeptEnrolling'
    BY DEF KeptEnrolling
  <2>3. KeptAccepted'
    BY DEF KeptAccepted
  <2>4. KeptSecrets'
    <3>1. CASE guest.conn = c
      <4>1. \A x \in In(wire'[c].down) : x.n = guest.token
        BY <3>1
      <4>2. work'.reconnect.pc # "fetch" /\ In(wire'[c].up) = {}
        OBVIOUS
      <4> QED
        BY <3>1, <4>1, <4>2 DEF KeptSecrets
    <3>2. CASE guest.conn # c
      <4>1. guest.conn # None => wire'[guest.conn] = wire[guest.conn]
        BY <3>2
      <4>2. work'.reconnect.conn = c
        OBVIOUS
      <4> QED
        BY <3>2, <4>1, <4>2 DEF KeptSecrets
    <3> QED
      BY <3>1, <3>2
  <2>5. KeptReconnect'
    BY DEF KeptReconnect
  <2> QED
    BY <2>1, <2>2, <2>3, <2>4, <2>5
<1> QED
  BY <1>1, <1>2, <1>3, <1>4, <1>5, <1>6, <1>7, <1>8, <1>9, <1>10, <1>11

\* Acceptance and configuration are delivered.
LEMMA ConfiguredStep ==
    ASSUME IInv, Configured
    PROVE  IInv'
<1> USE DEF IInv
<1>same. /\ store' = store /\ link' = link /\ entry' = entry /\ chan' = chan /\ guest' = guest /\ late' = late
         /\ asks' = asks /\ fwd' = fwd /\ past' = past
  BY DEF Configured
<1> USE DEF Shaped
<1>sh. Shaped
  BY Shapes
<1>w. work["reconnect"].pc = "config" /\ "reconnect" \in Workers /\ "reconnect" \in Speakers
  BY DEF Configured, Answered, Workers, Speakers
<1>c. PICK c \in Conns : c = work["reconnect"].conn
  BY <1>sh, <1>w DEF Roles
<1>ty. wire \in [Conns -> Streams] /\ wire[c].up \in Seq(Frames) /\ wire[c].down \in Seq(Frames)
  BY DEF TypeOK, Streams
<1>job0. work["reconnect"] \in Jobs
  BY <1>w DEF TypeOK
<1>nums. /\ work["reconnect"].n \in Nat /\ work["reconnect"].token \in Nat /\ work["reconnect"].epoch \in Nat
         /\ work["reconnect"].cap \in Nat
  BY <1>job0 DEF Jobs
<1>f1. PICK f1 \in Frames : f1 = F("accepted", work["reconnect"].epoch, work["reconnect"].cap)
  BY <1>nums DEF Frames, F
<1>f1k. f1.k = "accepted" /\ f1.n = work["reconnect"].epoch /\ f1.m = work["reconnect"].cap
  BY <1>f1 DEF F
<1>f2. PICK f2 \in Frames : f2 = F("config", work["reconnect"].cap, IF store.edited THEN 1 ELSE 0)
  BY <1>nums DEF Frames, F
<1>f2k. f2.k = "config" /\ f2.n = work["reconnect"].cap
  BY <1>f2 DEF F
<1>s. PICK s \in Seq(Frames) : s = <<f1, f2>>
  BY <1>f1, <1>f2, FrameSeq
<1>sd. s \in Seq(Frames)
  BY <1>s
<1>sq. In(s) = {f1, f2} /\ Len(s) = 2
  BY <1>s, InFew
<1>w1. wire' = Down(c, s)
  BY <1>c, <1>s, <1>f1, <1>f2 DEF Configured, GuestBootConfig
<1>wt. wire' \in [Conns -> Streams]
  BY <1>c, <1>ty, <1>sd, <1>w1, DownEffect
<1>wo. \A d \in Conns : /\ wire'[d].host = wire[d].host /\ wire'[d].guest = wire[d].guest
                        /\ wire'[d].up = wire[d].up
                        /\ (d # c => wire'[d] = wire[d])
  BY <1>c, <1>ty, <1>sd, <1>w1, DownEffect
<1>wd. wire[c].host /\ wire[c].guest => wire'[c].down = wire[c].down \o s
  BY <1>c, <1>ty, <1>sd, <1>w1, DownEffect
<1>ws. ~(wire[c].host /\ wire[c].guest) => wire' = wire
  BY <1>c, <1>ty, <1>sd, <1>w1, DownEffect
<1>len. Len(wire[c].down) \in Nat
  BY <1>ty, InFrames
<1>wire. /\ wire' \in [Conns -> Streams]
         /\ \A d \in Conns : /\ wire'[d].host = wire[d].host /\ wire'[d].guest = wire[d].guest
                             /\ wire'[d].up = wire[d].up
                             /\ (d # c => wire'[d] = wire[d])
         /\ In(wire'[c].down) \subseteq In(wire[c].down) \cup {f1, f2}
         /\ wire[c].down = <<>> => Len(wire'[c].down) <= 2
  <2>1. /\ In(wire[c].down \o s) = In(wire[c].down) \cup In(s)
        /\ Len(wire[c].down \o s) = Len(wire[c].down) + Len(s)
    BY <1>ty, <1>sd, InJoin
  <2>2. Len(<<>>) = 0
    BY EmptySeq
  <2>3. CASE wire[c].host /\ wire[c].guest
    <3>1. In(wire'[c].down) = In(wire[c].down) \cup In(s) /\ Len(wire'[c].down) = Len(wire[c].down) + Len(s)
      BY <1>wd, <2>1, <2>3
    <3> QED
      BY <1>wt, <1>wo, <1>len, <1>sq, <2>2, <3>1
  <2>4. CASE ~(wire[c].host /\ wire[c].guest)
    BY <1>wt, <1>wo, <1>ws, <1>len, <2>2, <2>4
  <2> QED
    BY <2>3, <2>4
<1>empty. wire[c].up = <<>>
  BY <1>w, <1>c DEF Sent, Calling
<1>nil. In(<<>>) = {} /\ Len(<<>>) = 0
  BY InFew, EmptySeq
<1>work1. work \in [Workers -> Jobs] /\ "reconnect" \in Workers
  BY DEF TypeOK, Workers, Speakers
<1>job. PICK job \in Jobs : job = work["reconnect"]
  BY <1>work1
<1>done1. PICK done : done = [job EXCEPT !.pc = "redeem", !.call = "none"]
  OBVIOUS
<1>done. /\ done \in Jobs /\ done.pc = "redeem" /\ done.conn = job.conn /\ done.boot = job.boot
         /\ done.gen = job.gen /\ done.link = job.link /\ done.hub = job.hub /\ done.call = "none"
         /\ done.n = job.n /\ done.token = job.token /\ done.epoch = job.epoch /\ done.cap = job.cap
  BY <1>job, <1>done1 DEF Jobs, Stages, Sockets, None, Calling
<1>work2. work' = [work EXCEPT !["reconnect"] = done]
  BY <1>job, <1>done1 DEF Configured, Calls, Awaits
<1>work. work' \in [Workers -> Jobs] /\ work'["reconnect"] = done
           /\ \A x \in Workers : x # "reconnect" => work'[x] = work[x]
  BY <1>work1, <1>work2, <1>done
<1>stand. guest.conn = c => guest.pc = "accepted" /\ wire[c].down = <<>>
  BY <1>sh, <1>w, <1>c DEF Stand, AtReconnect
<1>other. work'.enroll = work.enroll
  BY <1>work DEF Workers
<1>lease. job.gen = entry.gen
  BY <1>job DEF Configured, Accepted, Matches
<1>issued. Issued(job.epoch)
  BY <1>w, <1>job, <1>lease DEF Kept, KeptReconnect
<1> USE <1>same, <1>sh, <1>w, <1>c, <1>ty, <1>f1k, <1>f2k, <1>wire, <1>empty, <1>nil, <1>job, <1>done, <1>work, <1>stand,
        <1>other, <1>lease, <1>issued
<1>1. TypeOK'
  BY DEF TypeOK, Workers, Calling
<1>2. Roles'
  BY DEF Roles, Speakers, None, Workers
<1>3. Placed'
  BY DEF Placed, Speakers, None, Workers
<1>4. HubUnfenced'
  BY DEF HubUnfenced
<1>5. Wired'
  BY DEF Wired, Speakers, None, Workers
<1>6. Sent'
  <2>1. work'["reconnect"].conn = c /\ entry' = entry /\ wire'[c].up = <<>>
    OBVIOUS
  <2>2. /\ \A d \in Conns : d # c => wire'[d].up = wire[d].up
        /\ \A x \in Speakers : x # "reconnect" => work'[x] = work[x]
    BY DEF Speakers, Workers
  <2> HIDE <1>same, <1>sh, <1>ty, <1>f1k, <1>f2k, <1>wire, <1>empty, <1>nil, <1>job, <1>done, <1>work, <1>stand, <1>other,
          <1>lease, <1>issued
  <2> QED
    BY <2>1, <2>2, InFew, EmptySeq, SentOther
<1>7. Stand'
  BY DEF Stand, AtEnroll, AtReconnect, None, Workers
<1>8. Told'
  BY DEF Told, None
<1>9. Voice'
  BY DEF Voice, Mine, None
<1>10. Forwarded'
  BY DEF Forwarded
<1>11. Kept'
  <2> USE DEF Kept, Vouched, Issued, None, Workers
  <2>1. KeptGuest'
    BY DEF KeptGuest
  <2>2. KeptEnrolling'
    BY DEF KeptEnrolling
  <2>3. KeptAccepted'
    BY DEF KeptAccepted
  <2>4. KeptSecrets'
    BY DEF KeptSecrets
  <2>5. KeptReconnect'
    BY DEF KeptReconnect
  <2> QED
    BY <2>1, <2>2, <2>3, <2>4, <2>5
<1> QED
  BY <1>1, <1>2, <1>3, <1>4, <1>5, <1>6, <1>7, <1>8, <1>9, <1>10, <1>11


--------------------
\* Recovery, and the lease of an enrolment

\* The recovered guest is authorised again, or not.
LEMMA RecoveredStep ==
    ASSUME IInv, Recovered
    PROVE  IInv'
<1> USE DEF IInv
<1>same. /\ store' = store /\ link' = link /\ entry' = entry /\ guest' = guest /\ wire' = wire /\ late' = late
         /\ asks' = asks /\ fwd' = fwd /\ past' = past
  BY DEF Recovered
<1>nowork. NoWork \in Jobs /\ NoWork.pc = "idle" /\ NoWork.conn = None /\ NoWork.gen = 0 /\ NoWork.call = "none"
  BY DEF NoWork, Jobs, Stages, Sockets, None
<1>wk. "recover" \in Workers /\ work \in [Workers -> Jobs]
  BY DEF Workers, Speakers, TypeOK
<1>wk1. work' = [work EXCEPT !["recover"] = NoWork]
  BY DEF Recovered
<1>work. /\ work' \in [Workers -> Jobs] /\ work'["recover"] = NoWork
         /\ \A x \in Workers : x # "recover" => work'[x] = work[x]
  BY <1>wk, <1>wk1, <1>nowork
<1>chan1. chan' = chan \/ chan' = [chan EXCEPT !.open = TRUE, !.served = TRUE]
  BY DEF Recovered, RecoverGuest
<1>chan2. chan \in Channels
  BY DEF TypeOK
<1>chan. /\ chan' \in Channels
         /\ chan.served => chan'.served
         /\ chan'.served \/ chan' = chan
  <2>1. CASE chan' = chan
    BY <1>chan2, <2>1 DEF Channels
  <2>2. CASE chan' = [chan EXCEPT !.open = TRUE, !.served = TRUE]
    BY <1>chan2, <2>2 DEF Channels
  <2> QED
    BY <1>chan1, <2>1, <2>2
<1> USE <1>same, <1>nowork, <1>wk, <1>work, <1>chan
<1>1. TypeOK'
  BY DEF TypeOK, Workers
<1>2. Roles'
  BY DEF Roles, Speakers, None, Workers
<1>3. Placed'
  BY DEF Placed, Speakers, None, Workers
<1>4. HubUnfenced'
  BY DEF HubUnfenced
<1>5. Wired'
  BY DEF Wired, Speakers, None, Workers
<1>6. Sent'
  BY DEF Sent, OnlyAsks, Speakers, Workers, Calling, None
<1>7. Stand'
  BY DEF Stand, AtEnroll, AtReconnect, None, Workers
<1>8. Told'
  BY DEF Told, None
<1>9. Voice'
  BY DEF Voice, Mine, None
<1>10. Forwarded'
  BY DEF Forwarded
<1>11. Kept'
  <2> USE DEF Kept, Vouched, Issued, None, Workers
  <2>1. KeptGuest'
    BY DEF KeptGuest
  <2>2. KeptEnrolling'
    BY DEF KeptEnrolling
  <2>3. KeptAccepted'
    BY DEF KeptAccepted
  <2>4. KeptSecrets'
    BY DEF KeptSecrets
  <2>5. KeptReconnect'
    BY DEF KeptReconnect
  <2> QED
    BY <2>1, <2>2, <2>3, <2>4, <2>5
<1> QED
  BY <1>1, <1>2, <1>3, <1>4, <1>5, <1>6, <1>7, <1>8, <1>9, <1>10, <1>11

\* A recovered guest is authorised again before its listener is bound.
LEMMA RecoverBeginsStep ==
    ASSUME IInv, RecoverBegins
    PROVE  IInv'
<1> USE DEF IInv
<1>same. /\ store' = store /\ link' = link /\ entry' = entry /\ chan' = chan /\ guest' = guest /\ wire' = wire
         /\ late' = late /\ asks' = asks /\ fwd' = fwd /\ past' = past
  BY DEF RecoverBegins
<1>ty. entry \in Entries /\ link \in Nat /\ None \in Sockets
  BY DEF TypeOK, Sockets, None
<1>j1. PICK job : job = [Lease(None) EXCEPT !.pc = "authorize", !.call = "sent"]
  OBVIOUS
<1>nowork. job \in Jobs /\ job.pc = "authorize" /\ job.conn = None
  BY <1>ty, <1>j1 DEF Lease, NoWork, Jobs, Stages, Entries, None, Sockets
<1>wk. "recover" \in Workers /\ work \in [Workers -> Jobs]
  BY DEF Workers, Speakers, TypeOK
<1>wk1. work' = [work EXCEPT !["recover"] = job]
  BY <1>j1 DEF RecoverBegins
<1>work. /\ work' \in [Workers -> Jobs] /\ work'["recover"] = job
         /\ \A x \in Workers : x # "recover" => work'[x] = work[x]
  BY <1>wk, <1>wk1, <1>nowork
<1> USE <1>same, <1>nowork, <1>wk, <1>work
<1>1. TypeOK'
  BY DEF TypeOK, Workers, Calling
<1>2. Roles'
  BY DEF Roles, Speakers, None, Workers
<1>3. Placed'
  BY DEF Placed, Speakers, None, Workers
<1>4. HubUnfenced'
  BY DEF HubUnfenced
<1>5. Wired'
  BY DEF Wired, Speakers, None, Workers
<1>6. Sent'
  BY DEF Sent, OnlyAsks, Speakers, Workers, Calling, None
<1>7. Stand'
  BY DEF Stand, AtEnroll, AtReconnect, None, Workers
<1>8. Told'
  BY DEF Told, None
<1>9. Voice'
  BY DEF Voice, Mine, None
<1>10. Forwarded'
  BY DEF Forwarded
<1>11. Kept'
  <2> USE DEF Kept, Vouched, Issued, None, Workers
  <2>1. KeptGuest'
    BY DEF KeptGuest
  <2>2. KeptEnrolling'
    BY DEF KeptEnrolling
  <2>3. KeptAccepted'
    BY DEF KeptAccepted
  <2>4. KeptSecrets'
    BY DEF KeptSecrets
  <2>5. KeptReconnect'
    BY DEF KeptReconnect
  <2> QED
    BY <2>1, <2>2, <2>3, <2>4, <2>5
<1> QED
  BY <1>1, <1>2, <1>3, <1>4, <1>5, <1>6, <1>7, <1>8, <1>9, <1>10, <1>11

\* The worker that awaits an enrolment gets the lease.
LEMMA EnrollLeasedStep ==
    ASSUME IInv, work.enroll.pc = "wait", MayAcquire,
           work' = [work EXCEPT !.enroll = [Lease(work.enroll.conn) EXCEPT !.pc = "enroll"]],
           UNCHANGED <<entry, chan, wire, late, fwd, past, store, link, guest, asks>>
    PROVE  IInv'
<1> USE DEF IInv
<1>same. /\ store' = store /\ link' = link /\ entry' = entry /\ chan' = chan /\ guest' = guest /\ wire' = wire
         /\ late' = late /\ asks' = asks /\ fwd' = fwd /\ past' = past
  OBVIOUS
<1>ty. entry \in Entries /\ link \in Nat /\ work.enroll \in Jobs /\ work.enroll.pc = "wait" /\ entry.state = "running"
  BY DEF TypeOK, Workers, MayAcquire
<1>j1. PICK job : job = [Lease(work.enroll.conn) EXCEPT !.pc = "enroll"]
  OBVIOUS
<1>nowork. job \in Jobs /\ job.pc = "enroll" /\ job.conn = work.enroll.conn /\ job.gen = entry.gen
             /\ job.call = "none"
  BY <1>ty, <1>j1 DEF Lease, NoWork, Jobs, Stages, Entries, None, Sockets
<1>gen. entry.gen \in Nat
  BY <1>ty DEF Entries
<1>wk. "enroll" \in Workers /\ work \in [Workers -> Jobs]
  BY DEF Workers, Speakers, TypeOK
<1>wk1. work' = [work EXCEPT !["enroll"] = job]
  BY <1>j1
<1>work. /\ work' \in [Workers -> Jobs] /\ work'["enroll"] = job
         /\ \A x \in Workers : x # "enroll" => work'[x] = work[x]
  BY <1>wk, <1>wk1, <1>nowork
<1> USE <1>same, <1>ty, <1>nowork, <1>gen, <1>wk, <1>work
<1>1. TypeOK'
  BY DEF TypeOK, Workers, Calling
<1>2. Roles'
  BY DEF Roles, Speakers, None, Workers
<1>3. Placed'
  BY DEF Placed, Speakers, None, Workers
<1>4. HubUnfenced'
  BY DEF HubUnfenced
<1>5. Wired'
  BY DEF Wired, Speakers, None, Workers
<1>6. Sent'
  BY DEF Sent, OnlyAsks, Speakers, Workers, Calling, None
<1>7. Stand'
  BY DEF Stand, AtEnroll, AtReconnect, None, Workers
<1>8. Told'
  BY DEF Told, None
<1>9. Voice'
  BY DEF Voice, Mine, None
<1>10. Forwarded'
  BY DEF Forwarded
<1>11. Kept'
  <2> USE DEF Kept, Vouched, Issued, None, Workers
  <2>1. KeptGuest'
    BY DEF KeptGuest
  <2>2. KeptEnrolling'
    BY DEF KeptEnrolling
  <2>3. KeptAccepted'
    BY DEF KeptAccepted
  <2>4. KeptSecrets'
    BY DEF KeptSecrets
  <2>5. KeptReconnect'
    BY DEF KeptReconnect
  <2> QED
    BY <2>1, <2>2, <2>3, <2>4, <2>5
<1> QED
  BY <1>1, <1>2, <1>3, <1>4, <1>5, <1>6, <1>7, <1>8, <1>9, <1>10, <1>11


\* The worker that awaits an enrolment gets the lease, or ends.
LEMMA EnrollAcquiresStep ==
    ASSUME IInv, EnrollAcquires
    PROVE  IInv'
<1>1. UNCHANGED <<store, link, guest, asks>> /\ "enroll" \in Speakers
  BY DEF EnrollAcquires, Speakers
<1>2. CASE MayAcquire /\ entry.boot = work.enroll.boot /\ entry.hub = None /\ entry.epoch = 0
  BY <1>1, <1>2, EnrollLeasedStep DEF EnrollAcquires
<1>3. CASE ~(MayAcquire /\ entry.boot = work.enroll.boot /\ entry.hub = None /\ entry.epoch = 0)
  <2>1. Fail("enroll")
    BY <1>3 DEF EnrollAcquires
  <2> QED
    BY <1>1, <2>1, FailStep
<1> QED
  BY <1>2, <1>3


--------------------
\* The fence, and a stream published

\* The guest is ready, and is told so.
LEMMA ReadyHeardStep ==
    ASSUME IInv, ReadyHeard
    PROVE  IInv'
<1> USE DEF IInv
<1>same. /\ store' = store /\ link' = link /\ entry' = entry /\ chan' = chan /\ guest' = guest /\ late' = late
         /\ asks' = asks /\ fwd' = fwd /\ past' = past
  BY DEF ReadyHeard
<1> USE DEF Shaped
<1>sh. Shaped
  BY Shapes
<1>w. work["reconnect"].pc = "ready" /\ "reconnect" \in Workers /\ "reconnect" \in Speakers
  BY DEF ReadyHeard, Heard, Workers, Speakers
<1>c. PICK c \in Conns : c = work["reconnect"].conn
  BY <1>sh, <1>w DEF Roles
<1>ty. wire \in [Conns -> Streams] /\ wire[c].up \in Seq(Frames) /\ wire[c].down \in Seq(Frames)
  BY DEF TypeOK, Streams
<1>h. wire[c].up # <<>>
  BY <1>c DEF ReadyHeard, Heard
<1>job0. work["reconnect"] \in Jobs
  BY <1>w DEF TypeOK
<1>nums. work["reconnect"].epoch \in Nat
  BY <1>job0 DEF Jobs
<1>f. PICK f \in Frames : f = F("ack", work["reconnect"].epoch, 0)
  BY <1>nums DEF Frames, F
<1>fk. f.k = "ack"
  BY <1>f DEF F
<1>s. PICK s \in Seq(Frames) : s = <<f>>
  BY <1>f, FrameSeq
<1>sd. s \in Seq(Frames)
  BY <1>s
<1>sq. In(s) = {f} /\ Len(s) = 1
  BY <1>s, InFew
<1>v. PICK v : v = Down(c, s)
  OBVIOUS
<1>v1. v \in [Conns -> Streams]
  BY <1>c, <1>ty, <1>sd, <1>v, DownEffect
<1>v2. \A d \in Conns : /\ v[d].host = wire[d].host /\ v[d].guest = wire[d].guest /\ v[d].up = wire[d].up
                        /\ (d # c => v[d] = wire[d])
  BY <1>c, <1>ty, <1>sd, <1>v, DownEffect
<1>w1. wire' = TakeUp(v, c)
  BY <1>c, <1>f, <1>s, <1>v DEF ReadyHeard
<1>wt. wire' \in [Conns -> Streams]
  BY <1>c, <1>h, <1>v1, <1>v2, <1>w1, TakeUpEffect
<1>wo. \A d \in Conns : /\ wire'[d].host = wire[d].host /\ wire'[d].guest = wire[d].guest
                        /\ (d # c => wire'[d] = wire[d])
  BY <1>c, <1>h, <1>v1, <1>v2, <1>w1, TakeUpEffect
<1>wu. wire'[c].up = Tail(wire[c].up) /\ wire'[c].down = v[c].down
  BY <1>c, <1>h, <1>v1, <1>v2, <1>w1, TakeUpEffect
<1>wire. /\ wire' \in [Conns -> Streams]
         /\ \A d \in Conns : /\ wire'[d].host = wire[d].host /\ wire'[d].guest = wire[d].guest
                             /\ (d # c => wire'[d] = wire[d])
  BY <1>wt, <1>wo
<1>down. In(wire'[c].down) \subseteq In(wire[c].down) \cup {f}
  <2>1. CASE wire[c].host /\ wire[c].guest
    <3>1. v[c].down = wire[c].down \o s
      BY <1>c, <1>ty, <1>sd, <1>v, <2>1, DownEffect
    <3>2. In(wire[c].down \o s) = In(wire[c].down) \cup In(s)
      BY <1>ty, <1>sd, InJoin
    <3> QED
      BY <3>1, <3>2, <1>wu, <1>sq
  <2>2. CASE ~(wire[c].host /\ wire[c].guest)
    <3>1. v = wire
      BY <1>c, <1>ty, <1>sd, <1>v, <2>2, DownEffect
    <3> QED
      BY <3>1, <1>wu
  <2> QED
    BY <2>1, <2>2
<1>empty. wire'[c].up = <<>>
  <2>1. Len(wire[c].up) <= 1
    BY <1>w, <1>c DEF Sent, Calling
  <2> QED
    BY <2>1, <1>ty, <1>h, <1>wu, InTail
<1>nil. In(<<>>) = {} /\ Len(<<>>) = 0
  BY InFew, EmptySeq
<1>stand. guest.conn = c => guest.pc = "ready"
  BY <1>sh, <1>w, <1>c, <1>h DEF Stand, AtReconnect
<1>work1. work \in [Workers -> Jobs] /\ "reconnect" \in Workers
  BY DEF TypeOK, Workers, Speakers
<1>job. PICK job \in Jobs : job = work["reconnect"]
  BY <1>work1
<1>done1. PICK done : done = [job EXCEPT !.pc = "install", !.call = "none"]
  OBVIOUS
<1>done. /\ done \in Jobs /\ done.pc = "install" /\ done.conn = job.conn /\ done.boot = job.boot
         /\ done.gen = job.gen /\ done.link = job.link /\ done.hub = job.hub /\ done.call = "none"
         /\ done.n = job.n /\ done.token = job.token /\ done.epoch = job.epoch /\ done.cap = job.cap
  BY <1>job, <1>done1 DEF Jobs, Stages, Sockets, None, Calling
<1>work2. work' = [work EXCEPT !["reconnect"] = done]
  BY <1>job, <1>done1 DEF ReadyHeard, Calls, Awaits
<1>work. work' \in [Workers -> Jobs] /\ work'["reconnect"] = done
           /\ \A x \in Workers : x # "reconnect" => work'[x] = work[x]
  BY <1>work1, <1>work2, <1>done
<1>other. work'.enroll = work.enroll
  BY <1>work DEF Workers
<1>shut. \A d \in Conns : ~wire'[d].host => wire'[d].up = <<>>
  BY <1>wire, <1>empty DEF Wired
<1> USE <1>same, <1>sh, <1>w, <1>c, <1>ty, <1>h, <1>fk, <1>wire, <1>down, <1>empty, <1>nil, <1>stand, <1>job, <1>done,
        <1>work, <1>other, <1>shut
<1>1. TypeOK'
  BY DEF TypeOK, Workers, Calling
<1>2. Roles'
  BY DEF Roles, Speakers, None, Workers
<1>3. Placed'
  BY DEF Placed, Speakers, None, Workers
<1>4. HubUnfenced'
  BY DEF HubUnfenced
<1>5. Wired'
  BY DEF Wired, Speakers, None, Workers
<1>6. Sent'
  <2>1. work'["reconnect"].conn = c /\ entry' = entry /\ wire'[c].up = <<>>
    OBVIOUS
  <2>2. /\ \A d \in Conns : d # c => wire'[d].up = wire[d].up
        /\ \A x \in Speakers : x # "reconnect" => work'[x] = work[x]
    BY DEF Speakers, Workers
  <2> HIDE <1>same, <1>sh, <1>ty, <1>h, <1>fk, <1>wire, <1>down, <1>empty, <1>nil, <1>stand, <1>job, <1>done, <1>work,
          <1>other, <1>shut
  <2> QED
    BY <2>1, <2>2, InFew, EmptySeq, SentOther
<1>7. Stand'
  BY DEF Stand, AtEnroll, AtReconnect, None, Workers
<1>8. Told'
  BY DEF Told, None
<1>9. Voice'
  BY DEF Voice, Mine, None
<1>10. Forwarded'
  BY DEF Forwarded
<1>11. Kept'
  <2> USE DEF Kept, Vouched, Issued, None, Workers
  <2>1. KeptGuest'
    BY DEF KeptGuest
  <2>2. KeptEnrolling'
    BY DEF KeptEnrolling
  <2>3. KeptAccepted'
    BY DEF KeptAccepted
  <2>4. KeptSecrets'
    BY DEF KeptSecrets
  <2>5. KeptReconnect'
    BY DEF KeptReconnect
  <2> QED
    BY <2>1, <2>2, <2>3, <2>4, <2>5
<1> QED
  BY <1>1, <1>2, <1>3, <1>4, <1>5, <1>6, <1>7, <1>8, <1>9, <1>10, <1>11

\* The epoch is taken and the old relay removed.
LEMMA FenceStep ==
    ASSUME IInv, Fence
    PROVE  IInv'
<1> USE DEF IInv
<1>same. /\ store' = store /\ link' = link /\ chan' = chan /\ guest' = guest /\ late' = late /\ asks' = asks
  BY DEF Fence
<1> USE DEF Shaped
<1>sh. Shaped
  BY Shapes
<1>w. work["reconnect"].pc = "accept" /\ work["reconnect"].call = "ok" /\ work["reconnect"].gen = entry.gen
        /\ "reconnect" \in Workers /\ "reconnect" \in Speakers
  BY DEF Fence, Answered, Accepted, Matches, Workers, Speakers
<1>job0. work["reconnect"] \in Jobs
  BY <1>w DEF TypeOK
<1>v. PICK v \in Nat : v = work["reconnect"].n
  BY <1>job0 DEF Jobs
<1>issued. Issued(v)
  BY <1>w, <1>v DEF Kept, KeptReconnect
<1>old. PICK old \in Sockets : old = entry.hub
  BY DEF TypeOK, Entries
<1>ty. wire \in [Conns -> Streams] /\ past.fenced \subseteq Conns /\ None \notin Conns
  BY <1>sh DEF TypeOK, None
<1>wire1. wire' = HostCloses(wire, old)
  BY <1>old DEF Fence
<1>wire. /\ wire' \in [Conns -> Streams]
         /\ \A d \in Conns : wire'[d].guest = wire[d].guest /\ wire'[d].down = wire[d].down /\ (d # old => wire'[d] = wire[d])
         /\ old # None => ~wire'[old].host /\ wire'[old].up = <<>>
  BY <1>ty, <1>old, <1>wire1, HostClosesEffect
<1>f1. fwd \in [seq : Nat, pending : SUBSET Forwards]
  BY DEF TypeOK
<1>f2. fwd' = [fwd EXCEPT !.pending = {f \in @ : f.hub # old}]
  BY <1>old DEF Fence, WithoutHub
<1>fwd. /\ fwd' \in [seq : Nat, pending : SUBSET Forwards] /\ fwd'.seq = fwd.seq
        /\ fwd'.pending \subseteq fwd.pending
  BY <1>f1, <1>f2
<1>p1. past \in [tag : Nat, wrong : BOOLEAN, fenced : SUBSET Conns, remint : BOOLEAN]
  BY DEF TypeOK
<1>fenced. PICK fenced \in SUBSET Conns : fenced = IF old = None THEN past.fenced ELSE past.fenced \cup {old}
  BY <1>old, <1>ty DEF Sockets
<1>p2. past' = [past EXCEPT !.fenced = fenced]
  BY <1>old, <1>fenced DEF Fence
<1>past. /\ past' \in [tag : Nat, wrong : BOOLEAN, fenced : SUBSET Conns, remint : BOOLEAN]
         /\ past'.remint = past.remint /\ past'.fenced \subseteq Conns
  BY <1>p1, <1>p2
<1>nil. In(<<>>) = {} /\ Len(<<>>) = 0
  BY InFew, EmptySeq
<1>hub. \A x \in Speakers : work[x].conn # None => work[x].conn # old /\ wire'[work[x].conn] = wire[work[x].conn]
  BY <1>sh, <1>old, <1>wire DEF Wired, Speakers, Workers
<1>shr. \A d \in Conns : In(wire'[d].up) \subseteq In(wire[d].up)
  BY <1>sh, <1>wire, <1>nil
<1>entry1. entry \in Entries
  BY DEF TypeOK
<1>entry2. entry' = [entry EXCEPT !.epoch = v, !.hub = None]
  BY <1>v, <1>old, <1>ty, <1>wire1, <1>wire, <1>f1, <1>f2, <1>fwd, <1>p1, <1>fenced, <1>p2, <1>past, <1>nil,
     <1>hub, <1>shr DEF Fence
<1>entry. /\ entry'.boot = entry.boot /\ entry'.gen = entry.gen /\ entry'.state = entry.state
          /\ entry'.hub = None /\ entry'.hubLink = entry.hubLink /\ entry'.epoch = v
          /\ entry'.recovered = entry.recovered /\ entry'.boots = entry.boots /\ entry' \in Entries
  BY <1>sh, <1>w, <1>job0, <1>v, <1>issued, <1>old, <1>ty, <1>wire1, <1>wire, <1>f1, <1>f2, <1>fwd, <1>p1,
     <1>fenced, <1>p2, <1>past, <1>nil, <1>hub, <1>shr, <1>entry1, <1>entry2 DEF Entries, Sockets, None
<1>work1. work \in [Workers -> Jobs] /\ "reconnect" \in Workers
  BY DEF TypeOK, Workers, Speakers
<1>job. PICK job \in Jobs : job = work["reconnect"]
  BY <1>work1
<1>done1. PICK done : done = [job EXCEPT !.pc = "config", !.call = "sent", !.epoch = v, !.cap = job.token]
  OBVIOUS
<1>done. /\ done \in Jobs /\ done.pc = "config" /\ done.conn = job.conn /\ done.boot = job.boot
         /\ done.gen = job.gen /\ done.link = job.link /\ done.hub = job.hub /\ done.call = "sent"
         /\ done.n = job.n /\ done.token = job.token /\ done.epoch = v /\ done.cap = job.token
  BY <1>v, <1>job, <1>done1 DEF Jobs, Stages, Sockets, None, Calling
<1>work2. work' = [work EXCEPT !["reconnect"] = done]
  BY <1>v, <1>job, <1>done1 DEF Fence, Calls, Awaits
<1>work. work' \in [Workers -> Jobs] /\ work'["reconnect"] = done
           /\ \A x \in Workers : x # "reconnect" => work'[x] = work[x]
  BY <1>work1, <1>work2, <1>done
<1>other. work'.enroll = work.enroll
  BY <1>work DEF Workers
<1> USE <1>same, <1>sh, <1>w, <1>v, <1>issued, <1>old, <1>ty, <1>wire, <1>fwd, <1>past, <1>nil, <1>hub, <1>shr, <1>entry,
        <1>job, <1>done, <1>work, <1>other
<1>1. TypeOK'
  BY DEF TypeOK, Workers, Calling
<1>2. Roles'
  BY DEF Roles, Speakers, None, Workers
<1>3. Placed'
  BY DEF Placed, Speakers, None, Workers
<1>4. HubUnfenced'
  BY DEF HubUnfenced
<1>5. Wired'
  BY DEF Wired, Speakers, None, Workers
<1>6. Sent'
  BY DEF Sent, OnlyAsks, Speakers, Workers, Calling, None, Roles
<1>7. Stand'
  BY DEF Stand, AtEnroll, AtReconnect, None, Workers
<1>8. Told'
  BY DEF Told, None
<1>9. Voice'
  BY DEF Voice, Mine, None
<1>10. Forwarded'
  BY DEF Forwarded, TypeOK
<1>11. Kept'
  <2> USE DEF Kept, Vouched, Issued, None, Workers
  <2>1. KeptGuest'
    BY DEF KeptGuest
  <2>2. KeptEnrolling'
    BY DEF KeptEnrolling
  <2>3. KeptAccepted'
    BY DEF KeptAccepted
  <2>4. KeptSecrets'
    BY DEF KeptSecrets
  <2>5. KeptReconnect'
    BY DEF KeptReconnect
  <2> QED
    BY <2>1, <2>2, <2>3, <2>4, <2>5
<1> QED
  BY <1>1, <1>2, <1>3, <1>4, <1>5, <1>6, <1>7, <1>8, <1>9, <1>10, <1>11

\* The stream becomes the hub of the session.
LEMMA InstallsStep ==
    ASSUME IInv, NEW w \in Speakers, Install(w), Matches(w), entry.epoch = work[w].epoch, entry.hub = None
    PROVE  IInv'
<1> USE DEF IInv
<1>same. /\ store' = store /\ link' = link /\ guest' = guest /\ wire' = wire /\ late' = late /\ asks' = asks
         /\ fwd' = fwd
  BY DEF Install, Matches
<1> USE DEF Shaped
<1>sh. Shaped
  BY Shapes
<1>cond. Matches(w) /\ entry.epoch = work[w].epoch /\ entry.hub = None
  OBVIOUS
<1>w. w \in Workers /\ w \in Speakers /\ work[w] \in Jobs /\ work[w].pc = "install" /\ entry.state = "running"
  BY <1>cond DEF Speakers, Workers, TypeOK, Install, Matches
<1>c. PICK c \in Conns : c = work[w].conn
  BY <1>sh, <1>w DEF Roles
<1>l. PICK l \in Nat : l = work[w].link
  BY <1>w DEF Jobs
<1>cs. c \in Sockets
  BY DEF Sockets
<1>entry1. entry \in Entries
  BY DEF TypeOK
<1>entry2. entry' = [entry EXCEPT !.hub = c, !.hubLink = l]
  BY <1>sh, <1>cond, <1>w, <1>c, <1>l, <1>cs DEF Install
<1>entry. /\ entry'.boot = entry.boot /\ entry'.gen = entry.gen /\ entry'.state = entry.state /\ entry'.hub = c
          /\ entry'.hubLink = l /\ entry'.epoch = entry.epoch /\ entry'.recovered = entry.recovered
          /\ entry'.boots = entry.boots /\ entry' \in Entries
  BY <1>sh, <1>cond, <1>w, <1>c, <1>l, <1>cs, <1>entry1, <1>entry2 DEF Entries, Sockets, None
<1>nowork. NoWork \in Jobs /\ NoWork.pc = "idle" /\ NoWork.conn = None /\ NoWork.gen = 0 /\ NoWork.call = "none"
  BY DEF NoWork, Jobs, Stages, Sockets, None
<1>wk. w \in Workers /\ work \in [Workers -> Jobs]
  BY DEF Workers, Speakers, TypeOK
<1>wk1. work' = [work EXCEPT ![w] = NoWork]
  BY <1>cond DEF Install
<1>work. /\ work' \in [Workers -> Jobs] /\ work'[w] = NoWork
         /\ \A x \in Workers : x # w => work'[x] = work[x]
  BY <1>wk, <1>wk1, <1>nowork
<1>chan1. chan' = chan \/ chan' = [chan EXCEPT !.pending = FALSE]
  BY <1>cond DEF Install
<1>chan2. chan \in Channels
  BY DEF TypeOK
<1>chan. /\ chan' \in Channels /\ chan'.served = chan.served
         /\ chan'.pending => chan.pending
  <2>1. CASE chan' = chan
    BY <1>chan2, <2>1 DEF Channels
  <2>2. CASE chan' = [chan EXCEPT !.pending = FALSE]
    BY <1>chan2, <2>2 DEF Channels
  <2> QED
    BY <1>chan1, <2>1, <2>2
<1>p1. past \in [tag : Nat, wrong : BOOLEAN, fenced : SUBSET Conns, remint : BOOLEAN]
  BY DEF TypeOK
<1>p2. past' = [past EXCEPT !.fenced = @ \ {c}]
  BY <1>cond, <1>c DEF Install
<1>past. /\ past' \in [tag : Nat, wrong : BOOLEAN, fenced : SUBSET Conns, remint : BOOLEAN]
         /\ past'.remint = past.remint /\ past'.fenced = past.fenced \ {c}
  BY <1>p1, <1>p2
<1>asks. \A f \in In(wire[c].up) : f.k = "ask"
  BY <1>w, <1>c DEF Sent, OnlyAsks, Calling
<1>others. \A x \in Speakers : x # w => work'[x] = work[x] /\ work[x].conn # c
  BY <1>sh, <1>w, <1>c, <1>work DEF Wired, Speakers, Workers
<1> USE <1>same, <1>sh, <1>w, <1>c, <1>l, <1>entry, <1>nowork, <1>wk, <1>work, <1>chan, <1>past, <1>asks, <1>others
<1>1. TypeOK'
  BY DEF TypeOK
<1>2. Roles'
  BY DEF Roles, Speakers, None, Workers
<1>3. Placed'
  BY DEF Placed, Speakers, None, Workers, TypeOK, Entries
<1>4. HubUnfenced'
  BY DEF HubUnfenced
<1>5. Wired'
  BY DEF Wired, Speakers, None, Workers
<1>6. Sent'
  BY DEF Sent, OnlyAsks, Speakers, Workers, Calling, None
<1>7. Stand'
  <2>1. \A x \in Speakers : work'[x].conn # None => x # w /\ work'[x] = work[x] /\ work[x].conn # c
    BY DEF Speakers, Workers
  <2>2. guest.conn = c => guest.pc \in {"enrolling", "ready", "serving"}
    <3>1. w = "enroll" /\ guest.conn = c => guest.pc \in {"enrolling", "serving"}
      BY DEF Stand, AtEnroll
    <3>2. w = "reconnect" /\ guest.conn = c => guest.pc \in {"ready", "serving"}
      BY DEF Stand, AtReconnect
    <3> QED
      BY <3>1, <3>2 DEF Speakers
  <2>3. ASSUME guest.conn # None, work'.enroll.conn = guest.conn
        PROVE  AtEnroll'
    <3>1. work'.enroll = work.enroll /\ guest.conn # c
      BY <2>1, <2>3 DEF Speakers
    <3> QED
      BY <2>3, <3>1 DEF Stand, AtEnroll
  <2>4. ASSUME guest.conn # None, work'.reconnect.conn = guest.conn
        PROVE  AtReconnect'
    <3>1. work'.reconnect = work.reconnect /\ guest.conn # c
      BY <2>1, <2>4 DEF Speakers
    <3> QED
      BY <2>4, <3>1 DEF Stand, AtReconnect
  <2> QED
    BY <2>2, <2>3, <2>4 DEF Stand
<1>8. Told'
  BY DEF Told, None
<1>9. Voice'
  BY DEF Voice, Mine, None
<1>10. Forwarded'
  BY DEF Forwarded
<1>11. Kept'
  <2> USE DEF Kept, Vouched, Issued, None, Workers
  <2>1. KeptGuest'
    BY DEF KeptGuest
  <2>2. KeptEnrolling'
    BY DEF KeptEnrolling
  <2>3. KeptAccepted'
    BY DEF KeptAccepted
  <2>4. KeptSecrets'
    BY DEF KeptSecrets
  <2>5. KeptReconnect'
    BY DEF KeptReconnect
  <2> QED
    BY <2>1, <2>2, <2>3, <2>4, <2>5
<1> QED
  BY <1>1, <1>2, <1>3, <1>4, <1>5, <1>6, <1>7, <1>8, <1>9, <1>10, <1>11


\* A stream becomes the hub of its session, or is closed.
LEMMA InstallStep ==
    ASSUME IInv, NEW w \in Speakers, Install(w)
    PROVE  IInv'
<1>1. CASE Matches(w) /\ entry.epoch = work[w].epoch /\ entry.hub = None
  BY <1>1, InstallsStep
<1>2. CASE ~(Matches(w) /\ entry.epoch = work[w].epoch /\ entry.hub = None)
  BY <1>2, FailStep DEF Install
<1> QED
  BY <1>1, <1>2

\* The VM is booted with the token minted for it.
LEMMA ResumeCompletesStep ==
    ASSUME IInv, ResumeCompletes
    PROVE  IInv'
<1> USE DEF IInv
<1>same. /\ store' = store /\ link' = link /\ wire' = wire /\ late' = late /\ asks' = asks /\ fwd' = fwd
         /\ past' = past
  BY DEF ResumeCompletes
<1> USE DEF Shaped
<1>sh. Shaped
  BY Shapes
<1>ty. chan.vm \in Nat \ {0} /\ work.resume.token \in Nat /\ work.resume.pc = "mint"
  BY DEF TypeOK, Channels, Workers, Jobs, ResumeCompletes, Answered
<1>v. PICK v \in Nat \ {0} : v = chan.vm + 1
  BY <1>ty
<1>before. entry.state = "resuming" /\ ~guest.up /\ guest.conn = None
  BY <1>ty DEF Placed
<1>entry1. entry \in Entries
  BY DEF TypeOK
<1>entry2. entry' = [entry EXCEPT !.state = "running", !.recovered = FALSE]
  BY DEF ResumeCompletes
<1>entry. /\ entry'.boot = entry.boot /\ entry'.gen = entry.gen /\ entry'.state = "running"
          /\ entry'.hub = entry.hub /\ entry'.hubLink = entry.hubLink /\ entry'.epoch = entry.epoch
          /\ entry'.recovered = FALSE /\ entry'.boots = entry.boots /\ entry' \in Entries
  BY <1>entry1, <1>entry2 DEF Entries, Sockets, None
<1>nowork. NoWork \in Jobs /\ NoWork.pc = "idle" /\ NoWork.conn = None /\ NoWork.gen = 0 /\ NoWork.call = "none"
  BY DEF NoWork, Jobs, Stages, Sockets, None
<1>wk. "resume" \in Workers /\ work \in [Workers -> Jobs]
  BY DEF Workers, Speakers, TypeOK
<1>wk1. work' = [work EXCEPT !["resume"] = NoWork]
  BY DEF ResumeCompletes
<1>work. /\ work' \in [Workers -> Jobs] /\ work'["resume"] = NoWork
         /\ \A x \in Workers : x # "resume" => work'[x] = work[x]
  BY <1>wk, <1>wk1, <1>nowork
<1>chan1. chan' = [vm |-> v, open |-> TRUE, served |-> FALSE, pending |-> FALSE, token |-> work.resume.token]
  BY <1>v DEF ResumeCompletes
<1>chan. chan' \in Channels /\ ~chan'.served /\ ~chan'.pending
  BY <1>chan1, <1>ty, <1>v DEF Channels
<1>guest1. guest' = FreshGuest(v)
  BY <1>v DEF ResumeCompletes
<1>guest. /\ guest' \in Guests /\ guest'.conn = None /\ guest'.id = "none" /\ guest'.epoch = 0
          /\ guest'.pc = "boot"
  BY <1>guest1, <1>v DEF FreshGuest, Guests, Sockets, None
<1>dead. \A c \in Conns : ~wire[c].guest
  BY <1>sh, <1>before DEF Wired
<1> USE <1>same, <1>sh, <1>ty, <1>v, <1>before, <1>entry, <1>nowork, <1>wk, <1>work, <1>chan, <1>guest, <1>dead
<1>1. TypeOK'
  BY DEF TypeOK, Workers
<1>2. Roles'
  BY DEF Roles, Speakers, None, Workers
<1>3. Placed'
  BY DEF Placed, Speakers, None, Workers, TypeOK, Entries
<1>4. HubUnfenced'
  BY DEF HubUnfenced
<1>5. Wired'
  BY DEF Wired, Speakers, None, Workers
<1>6. Sent'
  BY DEF Sent, OnlyAsks, Speakers, Workers, Calling, None
<1>7. Stand'
  BY DEF Stand, AtEnroll, AtReconnect, None, Workers
<1>8. Told'
  BY DEF Told, None
<1>9. Voice'
  BY DEF Voice, Mine, None
<1>10. Forwarded'
  BY DEF Forwarded
<1>11. Kept'
  <2> USE DEF Kept, Vouched, Issued, None, Workers
  <2>1. KeptGuest'
    BY DEF KeptGuest
  <2>2. KeptEnrolling'
    BY DEF KeptEnrolling
  <2>3. KeptAccepted'
    BY DEF KeptAccepted
  <2>4. KeptSecrets'
    BY DEF KeptSecrets
  <2>5. KeptReconnect'
    BY DEF KeptReconnect
  <2> QED
    BY <2>1, <2>2, <2>3, <2>4, <2>5
<1> QED
  BY <1>1, <1>2, <1>3, <1>4, <1>5, <1>6, <1>7, <1>8, <1>9, <1>10, <1>11

\* No token was had: the session is suspended again.
LEMMA ResumeFailsStep ==
    ASSUME IInv, ResumeFails
    PROVE  IInv'
<1> USE DEF IInv
<1>same. /\ link' = link /\ chan' = chan /\ guest' = guest /\ wire' = wire /\ asks' = asks /\ fwd' = fwd
         /\ past' = past
  BY DEF ResumeFails
<1>before. work.resume.pc = "mint" /\ entry.state = "resuming" /\ entry.hub = None /\ ~guest.up
  BY DEF ResumeFails, Placed
<1>store1. store \in Rows
  BY DEF TypeOK
<1>store2. store' = [store EXCEPT !.on = FALSE]
  BY <1>before DEF ResumeFails
<1>store. /\ store'.token = store.token /\ store'.consumed = store.consumed /\ store'.minted = store.minted
          /\ store'.gen = store.gen /\ store'.place = store.place /\ store'.on = FALSE
          /\ store'.identity = store.identity /\ store'.attempt = store.attempt /\ store'.by = store.by
          /\ store'.tries = store.tries /\ store'.epoch = store.epoch /\ store'.runnerGen = store.runnerGen
          /\ store'.connected = store.connected /\ store'.edited = store.edited /\ store' \in Rows
  BY <1>before, <1>store1, <1>store2 DEF Rows, Sockets, None
<1>entry1. entry \in Entries
  BY DEF TypeOK
<1>entry2. entry' = [entry EXCEPT !.state = "suspended"]
  BY <1>before DEF ResumeFails
<1>entry. /\ entry'.boot = entry.boot /\ entry'.gen = entry.gen /\ entry'.state = "suspended"
          /\ entry'.hub = entry.hub /\ entry'.hubLink = entry.hubLink /\ entry'.epoch = entry.epoch
          /\ entry'.recovered = entry.recovered /\ entry'.boots = entry.boots /\ entry' \in Entries
  BY <1>before, <1>entry1, <1>entry2 DEF Entries, Sockets, None
<1>nowork. NoWork \in Jobs /\ NoWork.pc = "idle" /\ NoWork.conn = None /\ NoWork.gen = 0 /\ NoWork.call = "none"
  BY DEF NoWork, Jobs, Stages, Sockets, None
<1>wk. "resume" \in Workers /\ work \in [Workers -> Jobs]
  BY DEF Workers, Speakers, TypeOK
<1>wk1. work' = [work EXCEPT !["resume"] = NoWork]
  BY DEF ResumeFails
<1>work. /\ work' \in [Workers -> Jobs] /\ work'["resume"] = NoWork
         /\ \A x \in Workers : x # "resume" => work'[x] = work[x]
  BY <1>wk, <1>wk1, <1>nowork
<1>k. PICK k : k = CallOf("resume")
  OBVIOUS
<1>late. late' \subseteq Methods
  <2>1. work["resume"].call = "sent" => k \in Methods
    BY <1>wk, <1>k, CallFacts
  <2> QED
    BY <2>1, <1>k DEF ResumeFails, Abandoned, TypeOK
<1> USE <1>same, <1>before, <1>store, <1>entry, <1>nowork, <1>wk, <1>work, <1>k, <1>late
<1>1. TypeOK'
  BY DEF TypeOK, Workers
<1>2. Roles'
  BY DEF Roles, Speakers, None, Workers
<1>3. Placed'
  BY DEF Placed, Speakers, None, Workers, TypeOK, Entries
<1>4. HubUnfenced'
  BY DEF HubUnfenced
<1>5. Wired'
  BY DEF Wired, Speakers, None, Workers
<1>6. Sent'
  BY DEF Sent, OnlyAsks, Speakers, Workers, Calling, None
<1>7. Stand'
  BY DEF Stand, AtEnroll, AtReconnect, None, Workers
<1>8. Told'
  BY DEF Told, None
<1>9. Voice'
  BY DEF Voice, Mine, None
<1>10. Forwarded'
  BY DEF Forwarded
<1>11. Kept'
  <2> USE DEF Kept, Vouched, Issued, None, Workers
  <2>1. KeptGuest'
    BY DEF KeptGuest
  <2>2. KeptEnrolling'
    BY DEF KeptEnrolling
  <2>3. KeptAccepted'
    BY DEF KeptAccepted
  <2>4. KeptSecrets'
    BY DEF KeptSecrets
  <2>5. KeptReconnect'
    BY DEF KeptReconnect
  <2> QED
    BY <2>1, <2>2, <2>3, <2>4, <2>5
<1> QED
  BY <1>1, <1>2, <1>3, <1>4, <1>5, <1>6, <1>7, <1>8, <1>9, <1>10, <1>11


--------------------
\* Suspend, resume and restart

\* A cold suspend: the VM and its streams are gone.
LEMMA SuspendStep ==
    ASSUME IInv, Suspend
    PROVE  IInv'
<1> USE DEF IInv
<1>same. /\ link' = link /\ work' = work /\ late' = late /\ asks' = asks
  BY DEF Suspend
<1> USE DEF Shaped
<1>sh. Shaped
  BY Shapes
<1>before. entry.state = "running" /\ entry.hub \in Conns
  BY <1>sh DEF Suspend
<1>store1. store \in Rows
  BY DEF TypeOK
<1>store2. store' = [store EXCEPT !.on = FALSE]
  BY <1>sh, <1>before DEF Suspend
<1>store. /\ store'.token = store.token /\ store'.consumed = store.consumed /\ store'.minted = store.minted
          /\ store'.gen = store.gen /\ store'.place = store.place /\ store'.on = FALSE
          /\ store'.identity = store.identity /\ store'.attempt = store.attempt /\ store'.by = store.by
          /\ store'.tries = store.tries /\ store'.epoch = store.epoch /\ store'.runnerGen = store.runnerGen
          /\ store'.connected = store.connected /\ store'.edited = store.edited /\ store' \in Rows
  BY <1>sh, <1>before, <1>store1, <1>store2 DEF Rows, Sockets, None
<1>entry1. entry \in Entries
  BY DEF TypeOK
<1>entry2. entry' = [entry EXCEPT !.state = "suspended", !.hub = None]
  BY <1>sh, <1>before DEF Suspend
<1>entry. /\ entry'.boot = entry.boot /\ entry'.gen = entry.gen /\ entry'.state = "suspended"
          /\ entry'.hub = None /\ entry'.hubLink = entry.hubLink /\ entry'.epoch = entry.epoch
          /\ entry'.recovered = entry.recovered /\ entry'.boots = entry.boots /\ entry' \in Entries
  BY <1>sh, <1>before, <1>entry1, <1>entry2 DEF Entries, Sockets, None
<1>guest1. guest \in Guests
  BY DEF TypeOK
<1>guest2. guest' = [guest EXCEPT !.up = FALSE, !.pc = "off", !.conn = None, !.ask = 0]
  BY <1>sh, <1>before DEF Suspend
<1>guest. /\ guest'.vm = guest.vm /\ guest'.up = FALSE /\ guest'.id = guest.id /\ guest'.epoch = guest.epoch
          /\ guest'.token = guest.token /\ guest'.next = guest.next /\ guest'.env = guest.env
          /\ guest'.pc = "off" /\ guest'.conn = None /\ guest'.seq = guest.seq /\ guest'.ask = 0
          /\ guest' \in Guests
  BY <1>sh, <1>before, <1>guest1, <1>guest2 DEF Guests, Sockets, None
<1>chan1. chan \in Channels
  BY DEF TypeOK
<1>chan2. chan' = [chan EXCEPT !.open = FALSE, !.pending = FALSE]
  BY <1>sh, <1>before DEF Suspend
<1>chan. /\ chan'.vm = chan.vm /\ chan'.open = FALSE /\ chan'.served = chan.served /\ chan'.pending = FALSE
         /\ chan'.token = chan.token /\ chan' \in Channels
  BY <1>sh, <1>before, <1>chan1, <1>chan2 DEF Channels, Sockets, None
<1>wt. wire \in [Conns -> Streams]
  BY DEF TypeOK
<1>wire0. wire' = [c \in Conns |-> [HostCloses(wire, c)[c] EXCEPT !.guest = FALSE, !.down = <<>>]]
  BY DEF Suspend
<1>wire1. \A c \in Conns : wire'[c] \in Streams /\ ~wire'[c].host /\ ~wire'[c].guest /\ wire'[c].up = <<>>
  <2> SUFFICES ASSUME NEW c \in Conns
               PROVE  wire'[c] \in Streams /\ ~wire'[c].host /\ ~wire'[c].guest /\ wire'[c].up = <<>>
    OBVIOUS
  <2>1. PICK v : v = HostCloses(wire, c)[c]
    OBVIOUS
  <2>2. v \in Streams /\ ~v.host /\ v.up = <<>>
    BY <1>sh, <1>wt, <2>1, HostClosesEffect DEF Sockets
  <2>3. <<>> \in Seq(Frames)
    BY EmptySeq
  <2>4. wire'[c] = [v EXCEPT !.guest = FALSE, !.down = <<>>]
    BY <1>wire0, <2>1
  <2> QED
    BY <2>2, <2>3, <2>4 DEF Streams
<1>wire. wire' \in [Conns -> Streams] /\ In(<<>>) = {} /\ Len(<<>>) = 0
  BY <1>wire0, <1>wire1, InFew, EmptySeq
<1>f1. fwd \in [seq : Nat, pending : SUBSET Forwards]
  BY DEF TypeOK
<1>f2. fwd' = [fwd EXCEPT !.pending = {f \in @ : f.hub # entry.hub}]
  BY DEF Suspend, WithoutHub
<1>fwd. /\ fwd' \in [seq : Nat, pending : SUBSET Forwards] /\ fwd'.seq = fwd.seq
        /\ fwd'.pending \subseteq fwd.pending
  BY <1>f1, <1>f2
<1>p1. past \in [tag : Nat, wrong : BOOLEAN, fenced : SUBSET Conns, remint : BOOLEAN]
  BY DEF TypeOK
<1>p2. past' = [past EXCEPT !.fenced = @ \cup {entry.hub}]
  BY DEF Suspend
<1>past. /\ past' \in [tag : Nat, wrong : BOOLEAN, fenced : SUBSET Conns, remint : BOOLEAN]
         /\ past'.remint = past.remint /\ past'.fenced \subseteq Conns
  BY <1>before, <1>p1, <1>p2
<1> USE <1>same, <1>sh, <1>before, <1>store, <1>entry, <1>guest, <1>chan, <1>wire1, <1>wire, <1>fwd, <1>past
<1>1. TypeOK'
  BY DEF TypeOK
<1>2. Roles'
  BY DEF Roles, Speakers, None, Workers
<1>3. Placed'
  BY DEF Placed, Speakers, None, Workers
<1>4. HubUnfenced'
  BY DEF HubUnfenced
<1>5. Wired'
  BY DEF Wired, Speakers, None, Workers
<1>6. Sent'
  BY DEF Sent, OnlyAsks, Speakers, Workers, Calling, None, Roles
<1>7. Stand'
  BY DEF Stand, AtEnroll, AtReconnect, None, Workers
<1>8. Told'
  BY DEF Told, None
<1>9. Voice'
  BY DEF Voice, Mine, None
<1>10. Forwarded'
  BY DEF Forwarded, TypeOK
<1>11. Kept'
  <2> USE DEF Kept, Vouched, Issued, None, Workers
  <2>1. KeptGuest'
    BY DEF KeptGuest
  <2>2. KeptEnrolling'
    BY DEF KeptEnrolling
  <2>3. KeptAccepted'
    BY DEF KeptAccepted
  <2>4. KeptSecrets'
    BY DEF KeptSecrets
  <2>5. KeptReconnect'
    BY DEF KeptReconnect
  <2> QED
    BY <2>1, <2>2, <2>3, <2>4, <2>5
<1> QED
  BY <1>1, <1>2, <1>3, <1>4, <1>5, <1>6, <1>7, <1>8, <1>9, <1>10, <1>11

\* A resume is placed here: a boot of which no guest is known.
LEMMA ResumeStep ==
    ASSUME IInv, Resume
    PROVE  IInv'
<1> USE DEF IInv
<1>same. /\ link' = link /\ chan' = chan /\ guest' = guest /\ wire' = wire /\ late' = late /\ asks' = asks
         /\ fwd' = fwd /\ past' = past
  BY DEF Resume
<1> USE DEF Shaped
<1>sh. Shaped
  BY Shapes
<1>ty. store \in Rows /\ entry \in Entries /\ link \in Nat /\ entry.state = "suspended"
  BY DEF TypeOK, Resume
<1>p. PICK p \in Nat \ {0} : p = store.place + 1
  BY <1>ty DEF Rows
<1>b. PICK b \in Nat : b = entry.boots + 1
  BY <1>ty DEF Entries
<1>before. entry.state = "suspended" /\ ~guest.up /\ guest.conn = None /\ entry.gen \in Nat /\ entry.gen < p
             /\ entry.hub = None
  BY <1>ty, <1>p DEF Placed, Entries
<1>none. past.fenced \subseteq Conns /\ store.epoch \in Nat
  BY DEF TypeOK, Rows
<1>store1. store \in Rows
  BY DEF TypeOK
<1>store2. store' = [store EXCEPT !.place = p, !.on = TRUE]
  BY <1>p DEF Resume
<1>store. /\ store'.token = store.token /\ store'.consumed = store.consumed /\ store'.minted = store.minted
          /\ store'.gen = store.gen /\ store'.place = p /\ store'.on = TRUE /\ store'.identity = store.identity
          /\ store'.attempt = store.attempt /\ store'.by = store.by /\ store'.tries = store.tries
          /\ store'.epoch = store.epoch /\ store'.runnerGen = store.runnerGen
          /\ store'.connected = store.connected /\ store'.edited = store.edited /\ store' \in Rows
  BY <1>p, <1>store1, <1>store2 DEF Rows, Sockets, None
<1>entry1. entry \in Entries
  BY DEF TypeOK
<1>entry2. entry' = [entry EXCEPT !.gen = p, !.boots = b, !.boot = b, !.state = "resuming", !.hub = None, !.epoch = 0]
  BY <1>p, <1>b DEF Resume, Claimed
<1>entry. /\ entry'.boot = b /\ entry'.gen = p /\ entry'.state = "resuming" /\ entry'.hub = None
          /\ entry'.hubLink = entry.hubLink /\ entry'.epoch = 0 /\ entry'.recovered = entry.recovered
          /\ entry'.boots = b /\ entry' \in Entries
  BY <1>p, <1>b, <1>entry1, <1>entry2 DEF Entries, Sockets, None
<1>j1. PICK job : job = [NoWork EXCEPT !.pc = "mint", !.call = "sent", !.link = link, !.boot = b]
  OBVIOUS
<1>nowork. job \in Jobs /\ job.pc = "mint" /\ job.conn = None
  BY <1>ty, <1>b, <1>j1 DEF NoWork, Jobs, Stages, None, Sockets
<1>wk. "resume" \in Workers /\ work \in [Workers -> Jobs]
  BY DEF Workers, Speakers, TypeOK
<1>wk1. work' = [work EXCEPT !["resume"] = job]
  BY <1>b, <1>j1 DEF Resume
<1>work. /\ work' \in [Workers -> Jobs] /\ work'["resume"] = job
         /\ \A x \in Workers : x # "resume" => work'[x] = work[x]
  BY <1>wk, <1>wk1, <1>nowork
<1>gens. \A x \in Speakers : work'[x] = work[x] /\ work[x].gen \in Nat /\ work[x].gen < p
  BY <1>before, <1>wk, <1>work DEF Placed, Speakers, Workers, Jobs
<1> USE <1>same, <1>sh, <1>p, <1>b, <1>before, <1>none, <1>store, <1>entry, <1>nowork, <1>wk, <1>work, <1>gens
<1>1. TypeOK'
  BY DEF TypeOK, Workers, Calling
<1>2. Roles'
  BY DEF Roles, Speakers, None, Workers
<1>3. Placed'
  BY DEF Placed, Speakers, None, Workers
<1>4. HubUnfenced'
  BY DEF HubUnfenced
<1>5. Wired'
  BY DEF Wired, Speakers, None
<1>6. Sent'
  BY DEF Sent, OnlyAsks, Speakers, Workers, Calling, None
<1>7. Stand'
  BY DEF Stand, AtEnroll, AtReconnect, None, Workers
<1>8. Told'
  BY DEF Told, None
<1>9. Voice'
  BY DEF Voice, Mine, None
<1>10. Forwarded'
  BY DEF Forwarded
<1>11. Kept'
  <2> USE DEF Kept, Vouched, Issued, None, Workers
  <2>1. KeptGuest'
    BY DEF KeptGuest
  <2>2. KeptEnrolling'
    BY DEF KeptEnrolling
  <2>3. KeptAccepted'
    BY DEF KeptAccepted
  <2>4. KeptSecrets'
    BY DEF KeptSecrets
  <2>5. KeptReconnect'
    BY DEF KeptReconnect, Speakers
  <2> QED
    BY <2>1, <2>2, <2>3, <2>4, <2>5
<1> QED
  BY <1>1, <1>2, <1>3, <1>4, <1>5, <1>6, <1>7, <1>8, <1>9, <1>10, <1>11

\* The runner is restarted: streams, workers and forwards are gone.
LEMMA RestartStep ==
    ASSUME IInv, Restart
    PROVE  IInv'
<1> USE DEF IInv
<1>same. /\ store' = store /\ guest' = guest
  BY DEF Restart
<1> USE DEF Shaped
<1>sh. Shaped
  BY Shapes
<1>before. entry.state = "running" /\ link' = 0 /\ asks' \subseteq asks
  BY DEF Restart
<1>entry1. entry \in Entries
  BY DEF TypeOK
<1>entry2. entry' = [entry EXCEPT !.boot = 1, !.boots = 1, !.hub = None, !.epoch = 0, !.recovered = TRUE]
  BY <1>sh, <1>before DEF Restart
<1>entry. /\ entry'.boot = 1 /\ entry'.gen = entry.gen /\ entry'.state = entry.state /\ entry'.hub = None
          /\ entry'.hubLink = entry.hubLink /\ entry'.epoch = 0 /\ entry'.recovered = TRUE /\ entry'.boots = 1
          /\ entry' \in Entries
  BY <1>sh, <1>before, <1>entry1, <1>entry2 DEF Entries, Sockets, None
<1>chan1. chan \in Channels
  BY DEF TypeOK
<1>chan2. chan' = [chan EXCEPT !.open = FALSE, !.pending = FALSE]
  BY <1>sh, <1>before DEF Restart
<1>chan. /\ chan'.vm = chan.vm /\ chan'.open = FALSE /\ chan'.served = chan.served /\ chan'.pending = FALSE
         /\ chan'.token = chan.token /\ chan' \in Channels
  BY <1>sh, <1>before, <1>chan1, <1>chan2 DEF Channels, Sockets, None
<1>nowork. NoWork \in Jobs /\ NoWork.pc = "idle" /\ NoWork.conn = None /\ NoWork.gen = 0 /\ NoWork.call = "none"
  BY DEF NoWork, Jobs, Stages, Sockets, None
<1>wt. wire \in [Conns -> Streams]
  BY DEF TypeOK
<1>wire0. wire' = [c \in Conns |-> HostCloses(wire, c)[c]]
  BY DEF Restart
<1>wire1. \A c \in Conns : wire'[c] \in Streams /\ ~wire'[c].host /\ wire'[c].up = <<>>
            /\ wire'[c].guest = wire[c].guest /\ wire'[c].down = wire[c].down
  BY <1>sh, <1>wt, <1>wire0, HostClosesEffect DEF Sockets
<1>wire. wire' \in [Conns -> Streams] /\ In(<<>>) = {} /\ Len(<<>>) = 0
  BY <1>wire0, <1>wire1, InFew, EmptySeq
<1>work. work' \in [Workers -> Jobs] /\ \A w \in Workers : work'[w] = NoWork
  BY <1>nowork DEF Restart
<1>late. late' \subseteq Methods
  <2>1. \A w \in Workers : Abandoned(w) \subseteq Methods
    <3> SUFFICES ASSUME NEW w \in Workers, work[w].call = "sent"
                 PROVE  CallOf(w) \in Methods
      BY DEF Abandoned
    <3> QED
      BY CallFacts
  <2>2. late' = late \cup UNION {Abandoned(w) : w \in Workers} /\ late \subseteq Methods
    BY DEF Restart, TypeOK
  <2> QED
    BY <2>1, <2>2
<1>fwd0. fwd' = [seq |-> 0, pending |-> {}]
  BY DEF Restart
<1>fwd. /\ fwd' \in [seq : Nat, pending : SUBSET Forwards]
  BY <1>fwd0
<1>p1. past \in [tag : Nat, wrong : BOOLEAN, fenced : SUBSET Conns, remint : BOOLEAN]
  BY DEF TypeOK
<1>p2. past' = [past EXCEPT !.fenced = {}]
  BY DEF Restart
<1>past. /\ past' \in [tag : Nat, wrong : BOOLEAN, fenced : SUBSET Conns, remint : BOOLEAN]
         /\ past'.remint = past.remint /\ past'.fenced = {}
  BY <1>p1, <1>p2
<1>nats. store \in Rows /\ entry.gen \in Nat \ {0}
  BY DEF TypeOK, Entries
<1>in. \A c \in Conns : In(wire'[c].up) = {}
  BY <1>wire, <1>wire1
<1> USE <1>same, <1>sh, <1>before, <1>entry, <1>chan, <1>nowork, <1>wire1, <1>wire, <1>work, <1>late, <1>fwd, <1>past,
        <1>nats, <1>in
<1>1. TypeOK'
  BY DEF TypeOK
<1>2. Roles'
  BY DEF Roles, Speakers, None, Workers
<1>3. Placed'
  BY DEF Placed, Speakers, None, Workers
<1>4. HubUnfenced'
  BY DEF HubUnfenced
<1>5. Wired'
  BY DEF Wired, Speakers, None, Workers
<1>6. Sent'
  BY DEF Sent, OnlyAsks, Speakers, Workers, Calling, None
<1>7. Stand'
  BY DEF Stand, AtEnroll, AtReconnect, None, Workers
<1>8. Told'
  BY DEF Told, None
<1>9. Voice'
  BY DEF Voice, Mine, None
<1>10. Forwarded'
  BY DEF Forwarded
<1>11. Kept'
  <2> USE DEF Kept, Vouched, Issued, None, Workers
  <2>1. KeptGuest'
    BY DEF KeptGuest, Rows
  <2>2. KeptEnrolling'
    BY DEF KeptEnrolling
  <2>3. KeptAccepted'
    BY DEF KeptAccepted
  <2>4. KeptSecrets'
    BY DEF KeptSecrets
  <2>5. KeptReconnect'
    BY DEF KeptReconnect
  <2> QED
    BY <2>1, <2>2, <2>3, <2>4, <2>5
<1> QED
  BY <1>1, <1>2, <1>3, <1>4, <1>5, <1>6, <1>7, <1>8, <1>9, <1>10, <1>11


--------------------
\* The guest takes a frame and answers it

\* The guest makes an identity and enrols.
LEMMA EnrollSendsStep ==
    ASSUME IInv, EnrollSends
    PROVE  IInv'
<1> USE DEF IInv
<1>same. /\ store' = store /\ link' = link /\ entry' = entry /\ chan' = chan /\ work' = work /\ late' = late
         /\ asks' = asks /\ fwd' = fwd /\ past' = past
  BY DEF EnrollSends, GuestMoves, Msg
<1> USE DEF Shaped
<1>sh. Shaped
  BY Shapes
<1>g. guest.up /\ guest.conn # None /\ guest.pc = "config" /\ guest.vm \in Nat \ {0} /\ guest.epoch \in Nat
        /\ guest.token \in Nat
  BY DEF EnrollSends, Came, Waiting, TypeOK, Guests
<1>c. PICK c \in Conns : c = guest.conn
  BY <1>sh, <1>g
<1>ty. wire \in [Conns -> Streams] /\ wire[c].up \in Seq(Frames) /\ wire[c].down \in Seq(Frames)
  BY DEF TypeOK, Streams
<1>h0. wire[c].down # <<>>
  BY <1>c DEF EnrollSends, Came
<1>f. PICK f \in Frames : f = Head(wire[c].down)
  BY <1>ty, <1>h0, InTail
<1>fin. f \in In(wire[c].down) /\ f.n \in Nat /\ f.m \in Nat
  BY <1>ty, <1>h0, <1>f, InTail DEF Frames
<1>fd. f.k = "config"
  BY <1>c, <1>f DEF EnrollSends, Came, Msg, TakesEpoch
<1>h. PICK h \in Frames : h = F("enroll", f.n, guest.vm)
  BY <1>g, <1>fin DEF Frames, F
<1>hk. h.k = "enroll" /\ h.n = f.n /\ h.m = guest.vm
  BY <1>h DEF F
<1>s. PICK s \in Seq(Frames) : s = <<h>>
  BY <1>h, FrameSeq
<1>sd. s \in Seq(Frames)
  BY <1>s
<1>sq. In(s) = {h} /\ Len(s) = 1
  BY <1>s, InFew
<1>w1. wire' = Replied(s)
  BY <1>c, <1>f, <1>h, <1>s DEF EnrollSends, GuestMoves, Msg
<1>cg. guest.conn \in Conns /\ wire[guest.conn].down # <<>>
  BY <1>c, <1>h0
<1>wire. /\ wire' \in [Conns -> Streams]
         /\ \A d \in Conns : /\ wire'[d].host = wire[d].host /\ wire'[d].guest = wire[d].guest
                             /\ (d # c => wire'[d] = wire[d])
  BY <1>c, <1>cg, <1>ty, <1>sd, <1>w1, RepliedEffect
<1>wd. wire'[c].down = Tail(wire[c].down)
  BY <1>c, <1>cg, <1>ty, <1>sd, <1>w1, RepliedEffect
<1>wu. wire'[c].up = IF wire[c].host /\ wire[c].guest THEN wire[c].up \o s ELSE wire[c].up
  BY <1>c, <1>cg, <1>ty, <1>sd, <1>w1, RepliedEffect
<1>nil. In(<<>>) = {} /\ Len(<<>>) = 0
  BY InFew, EmptySeq
<1>down. /\ In(wire'[c].down) \subseteq In(wire[c].down)
         /\ Len(wire[c].down) \in Nat /\ Len(wire'[c].down) = Len(wire[c].down) - 1
         /\ Len(wire[c].down) <= 1 => wire'[c].down = <<>>
  BY <1>ty, <1>h0, <1>wd, InTail
<1>up. /\ In(wire'[c].up) \subseteq In(wire[c].up) \cup {h}
       /\ wire[c].up = <<>> => Len(wire'[c].up) <= 1
       /\ ~wire[c].host => wire'[c].up = wire[c].up
  <2>1. /\ In(wire[c].up \o s) = In(wire[c].up) \cup In(s)
        /\ Len(wire[c].up \o s) = Len(wire[c].up) + Len(s)
    BY <1>ty, <1>sd, InJoin
  <2> QED
    BY <2>1, <1>wu, <1>sq, <1>nil
<1>roles. /\ work.enroll.conn = c => work.enroll.pc \in {"wait", "enroll", "enrolling", "install"}
          /\ work.reconnect.conn = c => work.reconnect.pc \in {"begin", "proof", "accept", "config", "redeem", "fetch", "ready", "install"}
  BY <1>sh DEF Roles, Speakers
<1>at. /\ entry.hub # c /\ work.reconnect.conn # c
       /\ work.enroll.conn = c => work.enroll.pc \in {"wait", "enroll"} /\ wire[c].up = <<>>
  <2>1. entry.hub # c
    BY <1>g, <1>c, <1>fin, <1>fd, <1>h0, <1>roles DEF Stand, AtEnroll, AtReconnect
  <2>2. work.reconnect.conn # c
    BY <1>g, <1>c, <1>fin, <1>fd, <1>h0, <1>roles DEF Stand, AtEnroll, AtReconnect
  <2>3. work.enroll.conn = c => work.enroll.pc \in {"wait", "enroll"} /\ wire[c].up = <<>>
    BY <1>g, <1>c, <1>fin, <1>fd, <1>h0, <1>roles DEF Stand, AtEnroll, AtReconnect
  <2> QED
    BY <2>1, <2>2, <2>3
<1>told. /\ \A a \in asks : a.conn # c/\ \A x \in In(wire[c].up) : x.k # "ask"
  BY <1>g, <1>c DEF Told
<1>quiet. wire[c].up = <<>>
  <2>1. wire[c].host => c = entry.hub \/ work.enroll.conn = c \/ work.reconnect.conn = c
    BY DEF Wired, Speakers
  <2> QED
    BY <2>1, <1>at DEF Wired
<1>free. \A w \in Speakers : work[w].conn = c => work[w].pc \notin Calling \cup {"install"}
  BY <1>at DEF Speakers, Calling
<1>guest1. guest \in Guests
  BY DEF TypeOK
<1>guest2. guest' = [guest EXCEPT !.id = "tried", !.pc = "enrolling", !.token = f.n]
  BY <1>c, <1>f DEF EnrollSends, GuestMoves, Msg
<1>guest. /\ guest'.vm = guest.vm /\ guest'.up = guest.up /\ guest'.id = "tried" /\ guest'.epoch = guest.epoch
          /\ guest'.token = f.n /\ guest'.next = guest.next /\ guest'.env = guest.env
          /\ guest'.pc = "enrolling" /\ guest'.conn = guest.conn /\ guest'.seq = guest.seq
          /\ guest'.ask = guest.ask /\ guest' \in Guests
  BY <1>g, <1>fin, <1>guest1, <1>guest2 DEF Guests, Sockets, None
<1>id. guest.id = "none" /\ guest.epoch = 0
  BY <1>g DEF EnrollSends, Kept, KeptGuest
<1>done. wire'[c].down = <<>>
  BY <1>g, <1>c, <1>down DEF Told
<1> USE <1>same, <1>sh, <1>g, <1>c, <1>ty, <1>f, <1>fin, <1>fd, <1>hk, <1>wire, <1>nil, <1>down, <1>up, <1>at, <1>told,
        <1>quiet, <1>free, <1>guest, <1>id, <1>done
<1>1. TypeOK'
  BY DEF TypeOK
<1>2. Roles'
  BY DEF Roles, Speakers, None, Workers
<1>3. Placed'
  BY DEF Placed, Speakers, None, Workers
<1>4. HubUnfenced'
  BY DEF HubUnfenced
<1>5. Wired'
  <2>1. \A d \in Conns : ~wire'[d].host => wire'[d].up = <<>>
    BY DEF Wired
  <2>2. \A d \in Conns : wire'[d].host = wire[d].host /\ wire'[d].guest = wire[d].guest
    OBVIOUS
  <2> QED
    BY <2>1, <2>2 DEF Wired
<1>6. Sent'
  <2>1. \A d \in Conns : d # c => wire'[d].up = wire[d].up
    OBVIOUS
  <2>2. \A w \in Speakers : work[w].pc # "idle" => work[w].conn \in Conns
    BY DEF Roles, Speakers, Workers
  <2>3. Len(wire'[c].up) <= 1
    OBVIOUS
  <2> HIDE <1>g, <1>c, <1>ty, <1>f, <1>fin, <1>fd, <1>hk, <1>wire, <1>nil, <1>down, <1>up, <1>told, <1>quiet, <1>guest,
          <1>id, <1>done
  <2> QED
    BY <2>1, <2>2, <2>3 DEF Sent, OnlyAsks
<1>7. Stand'
  BY DEF Stand, AtEnroll, AtReconnect, None, Workers
<1>8. Told'
  BY DEF Told, None
<1>9. Voice'
  BY DEF Voice, Mine, None
<1>10. Forwarded'
  BY DEF Forwarded
<1>11. Kept'
  <2> USE DEF Kept, Vouched, Issued, None, Workers
  <2>1. KeptGuest'
    BY DEF KeptGuest
  <2>2. KeptEnrolling'
    BY DEF KeptEnrolling
  <2>3. KeptAccepted'
    BY DEF KeptAccepted
  <2>4. KeptSecrets'
    BY DEF KeptSecrets
  <2>5. KeptReconnect'
    BY DEF KeptReconnect
  <2> QED
    BY <2>1, <2>2, <2>3, <2>4, <2>5
<1> QED
  BY <1>1, <1>2, <1>3, <1>4, <1>5, <1>6, <1>7, <1>8, <1>9, <1>10, <1>11

\* The guest is enrolled.
LEMMA EnrolledStep ==
    ASSUME IInv, Enrolled
    PROVE  IInv'
<1> USE DEF IInv
<1>same. /\ store' = store /\ link' = link /\ entry' = entry /\ chan' = chan /\ work' = work /\ late' = late
         /\ asks' = asks /\ fwd' = fwd /\ past' = past
  BY DEF Enrolled, GuestMoves, Msg
<1> USE DEF Shaped
<1>sh. Shaped
  BY Shapes
<1>g. guest.up /\ guest.conn # None /\ guest.pc = "enrolling" /\ guest.vm \in Nat \ {0} /\ guest.epoch \in Nat
        /\ guest.token \in Nat
  BY DEF Enrolled, Came, Waiting, TypeOK, Guests
<1>c. PICK c \in Conns : c = guest.conn
  BY <1>sh, <1>g
<1>ty. wire \in [Conns -> Streams] /\ wire[c].up \in Seq(Frames) /\ wire[c].down \in Seq(Frames)
  BY DEF TypeOK, Streams
<1>h0. wire[c].down # <<>>
  BY <1>c DEF Enrolled, Came
<1>f. PICK f \in Frames : f = Head(wire[c].down)
  BY <1>ty, <1>h0, InTail
<1>fin. f \in In(wire[c].down) /\ f.n \in Nat /\ f.m \in Nat
  BY <1>ty, <1>h0, <1>f, InTail DEF Frames
<1>fd. f.k = "resp"
  BY <1>c, <1>f DEF Enrolled, Came, Msg, TakesEpoch
<1>s. PICK s \in Seq(Frames) : s = <<>>
  BY EmptySeq
<1>sd. s \in Seq(Frames)
  BY <1>s
<1>w1. wire' = Replied(s)
  BY <1>s DEF Enrolled, GuestMoves
<1>cg. guest.conn \in Conns /\ wire[guest.conn].down # <<>>
  BY <1>c, <1>h0
<1>wire. /\ wire' \in [Conns -> Streams]
         /\ \A d \in Conns : /\ wire'[d].host = wire[d].host /\ wire'[d].guest = wire[d].guest
                             /\ (d # c => wire'[d] = wire[d])
  BY <1>c, <1>cg, <1>ty, <1>sd, <1>w1, RepliedEffect
<1>wd. wire'[c].down = Tail(wire[c].down)
  BY <1>c, <1>cg, <1>ty, <1>sd, <1>w1, RepliedEffect
<1>wu. wire'[c].up = IF wire[c].host /\ wire[c].guest THEN wire[c].up \o s ELSE wire[c].up
  BY <1>c, <1>cg, <1>ty, <1>sd, <1>w1, RepliedEffect
<1>nil. In(<<>>) = {} /\ Len(<<>>) = 0
  BY InFew, EmptySeq
<1>down. /\ In(wire'[c].down) \subseteq In(wire[c].down)
         /\ Len(wire[c].down) \in Nat /\ Len(wire'[c].down) = Len(wire[c].down) - 1
         /\ Len(wire[c].down) <= 1 => wire'[c].down = <<>>
  BY <1>ty, <1>h0, <1>wd, InTail
<1>up. wire'[c].up = wire[c].up
  BY <1>ty, <1>s, <1>wu, ConcatEmptySeq
<1>roles. /\ work.enroll.conn = c => work.enroll.pc \in {"wait", "enroll", "enrolling", "install"}
          /\ work.reconnect.conn = c => work.reconnect.pc \in {"begin", "proof", "accept", "config", "redeem", "fetch", "ready", "install"}
  BY <1>sh DEF Roles, Speakers
<1>at. /\ work.reconnect.conn # c
       /\ work.enroll.conn = c => work.enroll.pc = "install"
  <2>1. work.reconnect.conn # c
    BY <1>g, <1>c, <1>fin, <1>fd, <1>h0, <1>roles DEF Stand, AtEnroll, AtReconnect
  <2>2. work.enroll.conn = c => work.enroll.pc = "install"
    BY <1>g, <1>c, <1>fin, <1>fd, <1>h0, <1>roles DEF Stand, AtEnroll, AtReconnect
  <2> QED
    BY <2>1, <2>2
<1>told. /\ \A a \in asks : a.conn # c/\ \A x \in In(wire[c].up) : x.k # "ask"
  BY <1>g, <1>c DEF Told
<1>guest1. guest \in Guests
  BY DEF TypeOK
<1>guest2. guest' = [guest EXCEPT !.id = "enrolled", !.env = f.n, !.pc = "serving"]
  BY <1>c, <1>f DEF Enrolled, GuestMoves, Msg
<1>guest. /\ guest'.vm = guest.vm /\ guest'.up = guest.up /\ guest'.id = "enrolled"
          /\ guest'.epoch = guest.epoch /\ guest'.token = guest.token /\ guest'.next = guest.next
          /\ guest'.env = f.n /\ guest'.pc = "serving" /\ guest'.conn = guest.conn /\ guest'.seq = guest.seq
          /\ guest'.ask = guest.ask /\ guest' \in Guests
  BY <1>g, <1>fin, <1>guest1, <1>guest2 DEF Guests, Sockets, None
<1>voucher. Vouched /\ f.n = guest.token
  BY <1>g, <1>c, <1>fin DEF Kept, KeptEnrolling
<1>epoch. Issued(guest.epoch)
  BY <1>g DEF Kept, KeptGuest, Issued, TypeOK, Rows
<1> USE <1>same, <1>sh, <1>g, <1>c, <1>ty, <1>f, <1>fin, <1>fd, <1>wire, <1>nil, <1>down, <1>up, <1>at, <1>told, <1>guest,
        <1>voucher, <1>epoch
<1>1. TypeOK'
  BY DEF TypeOK
<1>2. Roles'
  BY DEF Roles, Speakers, None, Workers
<1>3. Placed'
  BY DEF Placed, Speakers, None, Workers
<1>4. HubUnfenced'
  BY DEF HubUnfenced
<1>5. Wired'
  <2>1. \A d \in Conns : ~wire'[d].host => wire'[d].up = <<>>
    BY DEF Wired
  <2>2. \A d \in Conns : wire'[d].host = wire[d].host /\ wire'[d].guest = wire[d].guest
    OBVIOUS
  <2> QED
    BY <2>1, <2>2 DEF Wired
<1>6. Sent'
  <2>1. \A d \in Conns : wire'[d].up = wire[d].up
    OBVIOUS
  <2>2. \A w \in Speakers : work[w].pc # "idle" => work[w].conn \in Conns
    BY DEF Roles, Speakers, Workers
  <2> HIDE <1>g, <1>c, <1>ty, <1>f, <1>fin, <1>fd, <1>wire, <1>nil, <1>down, <1>up, <1>at, <1>told, <1>guest,
          <1>voucher, <1>epoch
  <2> QED
    BY <2>1, <2>2 DEF Sent, OnlyAsks
<1>7. Stand'
  BY DEF Stand, AtEnroll, AtReconnect, None, Workers
<1>8. Told'
  BY DEF Told, None
<1>9. Voice'
  BY DEF Voice, Mine, None
<1>10. Forwarded'
  BY DEF Forwarded
<1>11. Kept'
  <2> USE DEF Kept, Vouched, Issued, None, Workers
  <2>1. KeptGuest'
    BY DEF KeptGuest
  <2>2. KeptEnrolling'
    BY DEF KeptEnrolling
  <2>3. KeptAccepted'
    BY DEF KeptAccepted
  <2>4. KeptSecrets'
    BY DEF KeptSecrets
  <2>5. KeptReconnect'
    BY DEF KeptReconnect
  <2> QED
    BY <2>1, <2>2, <2>3, <2>4, <2>5
<1> QED
  BY <1>1, <1>2, <1>3, <1>4, <1>5, <1>6, <1>7, <1>8, <1>9, <1>10, <1>11

\* The guest signs the attempt it is challenged with.
LEMMA ProveStep ==
    ASSUME IInv, Prove
    PROVE  IInv'
<1> USE DEF IInv
<1>same. /\ store' = store /\ link' = link /\ entry' = entry /\ chan' = chan /\ work' = work /\ late' = late
         /\ asks' = asks /\ fwd' = fwd /\ past' = past
  BY DEF Prove, GuestMoves, Msg
<1> USE DEF Shaped
<1>sh. Shaped
  BY Shapes
<1>g. guest.up /\ guest.conn # None /\ guest.pc = "challenge" /\ guest.vm \in Nat \ {0} /\ guest.epoch \in Nat
        /\ guest.token \in Nat
  BY DEF Prove, Came, Waiting, TypeOK, Guests
<1>c. PICK c \in Conns : c = guest.conn
  BY <1>sh, <1>g
<1>ty. wire \in [Conns -> Streams] /\ wire[c].up \in Seq(Frames) /\ wire[c].down \in Seq(Frames)
  BY DEF TypeOK, Streams
<1>h0. wire[c].down # <<>>
  BY <1>c DEF Prove, Came
<1>f. PICK f \in Frames : f = Head(wire[c].down)
  BY <1>ty, <1>h0, InTail
<1>fin. f \in In(wire[c].down) /\ f.n \in Nat /\ f.m \in Nat
  BY <1>ty, <1>h0, <1>f, InTail DEF Frames
<1>fd. f.k = "challenge"
  BY <1>c, <1>f DEF Prove, Came, Msg, TakesEpoch
<1>h. PICK h \in Frames : h = F("proof", f.n, guest.vm)
  BY <1>g, <1>fin DEF Frames, F
<1>hk. h.k = "proof" /\ h.n = f.n /\ h.m = guest.vm
  BY <1>h DEF F
<1>s. PICK s \in Seq(Frames) : s = <<h>>
  BY <1>h, FrameSeq
<1>sd. s \in Seq(Frames)
  BY <1>s
<1>sq. In(s) = {h} /\ Len(s) = 1
  BY <1>s, InFew
<1>w1. wire' = Replied(s)
  BY <1>c, <1>f, <1>h, <1>s DEF Prove, GuestMoves, Msg
<1>cg. guest.conn \in Conns /\ wire[guest.conn].down # <<>>
  BY <1>c, <1>h0
<1>wire. /\ wire' \in [Conns -> Streams]
         /\ \A d \in Conns : /\ wire'[d].host = wire[d].host /\ wire'[d].guest = wire[d].guest
                             /\ (d # c => wire'[d] = wire[d])
  BY <1>c, <1>cg, <1>ty, <1>sd, <1>w1, RepliedEffect
<1>wd. wire'[c].down = Tail(wire[c].down)
  BY <1>c, <1>cg, <1>ty, <1>sd, <1>w1, RepliedEffect
<1>wu. wire'[c].up = IF wire[c].host /\ wire[c].guest THEN wire[c].up \o s ELSE wire[c].up
  BY <1>c, <1>cg, <1>ty, <1>sd, <1>w1, RepliedEffect
<1>nil. In(<<>>) = {} /\ Len(<<>>) = 0
  BY InFew, EmptySeq
<1>down. /\ In(wire'[c].down) \subseteq In(wire[c].down)
         /\ Len(wire[c].down) \in Nat /\ Len(wire'[c].down) = Len(wire[c].down) - 1
         /\ Len(wire[c].down) <= 1 => wire'[c].down = <<>>
  BY <1>ty, <1>h0, <1>wd, InTail
<1>up. /\ In(wire'[c].up) \subseteq In(wire[c].up) \cup {h}
       /\ wire[c].up = <<>> => Len(wire'[c].up) <= 1
       /\ ~wire[c].host => wire'[c].up = wire[c].up
  <2>1. /\ In(wire[c].up \o s) = In(wire[c].up) \cup In(s)
        /\ Len(wire[c].up \o s) = Len(wire[c].up) + Len(s)
    BY <1>ty, <1>sd, InJoin
  <2> QED
    BY <2>1, <1>wu, <1>sq, <1>nil
<1>roles. /\ work.enroll.conn = c => work.enroll.pc \in {"wait", "enroll", "enrolling", "install"}
          /\ work.reconnect.conn = c => work.reconnect.pc \in {"begin", "proof", "accept", "config", "redeem", "fetch", "ready", "install"}
  BY <1>sh DEF Roles, Speakers
<1>at. /\ entry.hub # c /\ work.enroll.conn # c
       /\ work.reconnect.conn = c => work.reconnect.pc = "proof" /\ wire[c].up = <<>>
  <2>1. entry.hub # c
    BY <1>g, <1>c, <1>fin, <1>fd, <1>h0, <1>roles DEF Stand, AtEnroll, AtReconnect
  <2>2. work.enroll.conn # c
    BY <1>g, <1>c, <1>fin, <1>fd, <1>h0, <1>roles DEF Stand, AtEnroll, AtReconnect
  <2>3. work.reconnect.conn = c => work.reconnect.pc = "proof" /\ wire[c].up = <<>>
    BY <1>g, <1>c, <1>fin, <1>fd, <1>h0, <1>roles DEF Stand, AtEnroll, AtReconnect
  <2> QED
    BY <2>1, <2>2, <2>3
<1>told. /\ \A a \in asks : a.conn # c/\ \A x \in In(wire[c].up) : x.k # "ask"
  BY <1>g, <1>c DEF Told
<1>quiet. wire[c].up = <<>>
  <2>1. wire[c].host => c = entry.hub \/ work.enroll.conn = c \/ work.reconnect.conn = c
    BY DEF Wired, Speakers
  <2> QED
    BY <2>1, <1>at DEF Wired
<1>free. \A w \in Speakers : work[w].conn = c => work[w].pc \notin Calling \cup {"install"}
  BY <1>at DEF Speakers, Calling
<1>guest1. guest \in Guests
  BY DEF TypeOK
<1>guest2. guest' = [guest EXCEPT !.pc = "accepted"]
  BY <1>c, <1>f DEF Prove, GuestMoves, Msg
<1>guest. /\ guest'.vm = guest.vm /\ guest'.up = guest.up /\ guest'.id = guest.id /\ guest'.epoch = guest.epoch
          /\ guest'.token = guest.token /\ guest'.next = guest.next /\ guest'.env = guest.env
          /\ guest'.pc = "accepted" /\ guest'.conn = guest.conn /\ guest'.seq = guest.seq
          /\ guest'.ask = guest.ask /\ guest' \in Guests
  BY <1>g, <1>fin, <1>guest1, <1>guest2 DEF Guests, Sockets, None
<1>id. guest.id = "enrolled"
  BY <1>g DEF Kept, KeptGuest
<1>done. wire'[c].down = <<>>
  BY <1>g, <1>c, <1>down DEF Told
<1> USE <1>same, <1>sh, <1>g, <1>c, <1>ty, <1>f, <1>fin, <1>fd, <1>hk, <1>wire, <1>nil, <1>down, <1>up, <1>at, <1>told,
        <1>quiet, <1>free, <1>guest, <1>id, <1>done
<1>1. TypeOK'
  BY DEF TypeOK
<1>2. Roles'
  BY DEF Roles, Speakers, None, Workers
<1>3. Placed'
  BY DEF Placed, Speakers, None, Workers
<1>4. HubUnfenced'
  BY DEF HubUnfenced
<1>5. Wired'
  <2>1. \A d \in Conns : ~wire'[d].host => wire'[d].up = <<>>
    BY DEF Wired
  <2>2. \A d \in Conns : wire'[d].host = wire[d].host /\ wire'[d].guest = wire[d].guest
    OBVIOUS
  <2> QED
    BY <2>1, <2>2 DEF Wired
<1>6. Sent'
  <2>1. \A d \in Conns : d # c => wire'[d].up = wire[d].up
    OBVIOUS
  <2>2. \A w \in Speakers : work[w].pc # "idle" => work[w].conn \in Conns
    BY DEF Roles, Speakers, Workers
  <2>3. Len(wire'[c].up) <= 1
    OBVIOUS
  <2> HIDE <1>g, <1>c, <1>ty, <1>f, <1>fin, <1>fd, <1>hk, <1>wire, <1>nil, <1>down, <1>up, <1>told, <1>quiet, <1>guest,
          <1>id, <1>done
  <2> QED
    BY <2>1, <2>2, <2>3 DEF Sent, OnlyAsks
<1>7. Stand'
  BY DEF Stand, AtEnroll, AtReconnect, None, Workers
<1>8. Told'
  BY DEF Told, None
<1>9. Voice'
  BY DEF Voice, Mine, None
<1>10. Forwarded'
  BY DEF Forwarded
<1>11. Kept'
  <2> USE DEF Kept, Vouched, Issued, None, Workers
  <2>1. KeptGuest'
    BY DEF KeptGuest
  <2>2. KeptEnrolling'
    BY DEF KeptEnrolling
  <2>3. KeptAccepted'
    BY DEF KeptAccepted
  <2>4. KeptSecrets'
    BY DEF KeptSecrets
  <2>5. KeptReconnect'
    BY DEF KeptReconnect
  <2> QED
    BY <2>1, <2>2, <2>3, <2>4, <2>5
<1> QED
  BY <1>1, <1>2, <1>3, <1>4, <1>5, <1>6, <1>7, <1>8, <1>9, <1>10, <1>11

\* The guest takes the epoch it is accepted under.
LEMMA AcceptStep ==
    ASSUME IInv, Accept
    PROVE  IInv'
<1> USE DEF IInv
<1>same. /\ store' = store /\ link' = link /\ entry' = entry /\ chan' = chan /\ work' = work /\ late' = late
         /\ asks' = asks /\ fwd' = fwd /\ past' = past
  BY DEF Accept, GuestMoves, Msg
<1> USE DEF Shaped
<1>sh. Shaped
  BY Shapes
<1>g. guest.up /\ guest.conn # None /\ guest.pc = "accepted" /\ guest.vm \in Nat \ {0} /\ guest.epoch \in Nat
        /\ guest.token \in Nat
  BY DEF Accept, Came, Waiting, TypeOK, Guests
<1>c. PICK c \in Conns : c = guest.conn
  BY <1>sh, <1>g
<1>ty. wire \in [Conns -> Streams] /\ wire[c].up \in Seq(Frames) /\ wire[c].down \in Seq(Frames)
  BY DEF TypeOK, Streams
<1>h0. wire[c].down # <<>>
  BY <1>c DEF Accept, Came
<1>f. PICK f \in Frames : f = Head(wire[c].down)
  BY <1>ty, <1>h0, InTail
<1>fin. f \in In(wire[c].down) /\ f.n \in Nat /\ f.m \in Nat
  BY <1>ty, <1>h0, <1>f, InTail DEF Frames
<1>fd. f.k = "accepted"
  BY <1>c, <1>f DEF Accept, Came, Msg, TakesEpoch
<1>s. PICK s \in Seq(Frames) : s = <<>>
  BY EmptySeq
<1>sd. s \in Seq(Frames)
  BY <1>s
<1>w1. wire' = Replied(s)
  BY <1>s DEF Accept, GuestMoves
<1>cg. guest.conn \in Conns /\ wire[guest.conn].down # <<>>
  BY <1>c, <1>h0
<1>wire. /\ wire' \in [Conns -> Streams]
         /\ \A d \in Conns : /\ wire'[d].host = wire[d].host /\ wire'[d].guest = wire[d].guest
                             /\ (d # c => wire'[d] = wire[d])
  BY <1>c, <1>cg, <1>ty, <1>sd, <1>w1, RepliedEffect
<1>wd. wire'[c].down = Tail(wire[c].down)
  BY <1>c, <1>cg, <1>ty, <1>sd, <1>w1, RepliedEffect
<1>wu. wire'[c].up = IF wire[c].host /\ wire[c].guest THEN wire[c].up \o s ELSE wire[c].up
  BY <1>c, <1>cg, <1>ty, <1>sd, <1>w1, RepliedEffect
<1>nil. In(<<>>) = {} /\ Len(<<>>) = 0
  BY InFew, EmptySeq
<1>down. /\ In(wire'[c].down) \subseteq In(wire[c].down)
         /\ Len(wire[c].down) \in Nat /\ Len(wire'[c].down) = Len(wire[c].down) - 1
         /\ Len(wire[c].down) <= 1 => wire'[c].down = <<>>
  BY <1>ty, <1>h0, <1>wd, InTail
<1>up. wire'[c].up = wire[c].up
  BY <1>ty, <1>s, <1>wu, ConcatEmptySeq
<1>roles. /\ work.enroll.conn = c => work.enroll.pc \in {"wait", "enroll", "enrolling", "install"}
          /\ work.reconnect.conn = c => work.reconnect.pc \in {"begin", "proof", "accept", "config", "redeem", "fetch", "ready", "install"}
  BY <1>sh DEF Roles, Speakers
<1>at. /\ entry.hub # c /\ work.enroll.conn # c
       /\ work.reconnect.conn = c => work.reconnect.pc = "redeem" /\ wire[c].up = <<>>
  <2>1. entry.hub # c
    BY <1>g, <1>c, <1>fin, <1>fd, <1>h0, <1>roles DEF Stand, AtEnroll, AtReconnect
  <2>2. work.enroll.conn # c
    BY <1>g, <1>c, <1>fin, <1>fd, <1>h0, <1>roles DEF Stand, AtEnroll, AtReconnect
  <2>3. work.reconnect.conn = c => work.reconnect.pc = "redeem" /\ wire[c].up = <<>>
    BY <1>g, <1>c, <1>fin, <1>fd, <1>h0, <1>roles DEF Stand, AtEnroll, AtReconnect
  <2> QED
    BY <2>1, <2>2, <2>3
<1>told. /\ \A a \in asks : a.conn # c/\ \A x \in In(wire[c].up) : x.k # "ask"
  BY <1>g, <1>c DEF Told
<1>quiet. wire[c].up = <<>>
  <2>1. wire[c].host => c = entry.hub \/ work.enroll.conn = c \/ work.reconnect.conn = c
    BY DEF Wired, Speakers
  <2> QED
    BY <2>1, <1>at DEF Wired
<1>guest1. guest \in Guests
  BY DEF TypeOK
<1>guest2. guest' = [guest EXCEPT !.epoch = f.n, !.next = f.m, !.pc = "delivery"]
  BY <1>c, <1>f DEF Accept, GuestMoves, Msg
<1>guest. /\ guest'.vm = guest.vm /\ guest'.up = guest.up /\ guest'.id = guest.id /\ guest'.epoch = f.n
          /\ guest'.token = guest.token /\ guest'.next = f.m /\ guest'.env = guest.env
          /\ guest'.pc = "delivery" /\ guest'.conn = guest.conn /\ guest'.seq = guest.seq
          /\ guest'.ask = guest.ask /\ guest' \in Guests
  BY <1>g, <1>fin, <1>guest1, <1>guest2 DEF Guests, Sockets, None
<1>id. guest.id = "enrolled" /\ Vouched
  BY <1>g DEF Kept, KeptGuest
<1>issued. Issued(f.n)
  BY <1>g, <1>c, <1>fin, <1>fd DEF Kept, KeptAccepted
<1>done. Len(wire'[c].down) <= 1
  BY <1>g, <1>c, <1>down DEF Told
<1> USE <1>same, <1>sh, <1>g, <1>c, <1>ty, <1>f, <1>fin, <1>fd, <1>wire, <1>nil, <1>down, <1>up, <1>at, <1>told, <1>quiet,
        <1>guest, <1>id, <1>issued, <1>done
<1>1. TypeOK'
  BY DEF TypeOK
<1>2. Roles'
  BY DEF Roles, Speakers, None, Workers
<1>3. Placed'
  BY DEF Placed, Speakers, None, Workers
<1>4. HubUnfenced'
  BY DEF HubUnfenced
<1>5. Wired'
  <2>1. \A d \in Conns : ~wire'[d].host => wire'[d].up = <<>>
    BY DEF Wired
  <2>2. \A d \in Conns : wire'[d].host = wire[d].host /\ wire'[d].guest = wire[d].guest
    OBVIOUS
  <2> QED
    BY <2>1, <2>2 DEF Wired
<1>6. Sent'
  <2>1. \A d \in Conns : wire'[d].up = wire[d].up
    OBVIOUS
  <2>2. \A w \in Speakers : work[w].pc # "idle" => work[w].conn \in Conns
    BY DEF Roles, Speakers, Workers
  <2> HIDE <1>g, <1>c, <1>ty, <1>f, <1>fin, <1>fd, <1>wire, <1>nil, <1>down, <1>up, <1>at, <1>told, <1>quiet, <1>guest,
          <1>id, <1>issued, <1>done
  <2> QED
    BY <2>1, <2>2 DEF Sent, OnlyAsks
<1>7. Stand'
  BY DEF Stand, AtEnroll, AtReconnect, None, Workers
<1>8. Told'
  BY DEF Told, None
<1>9. Voice'
  BY DEF Voice, Mine, None
<1>10. Forwarded'
  BY DEF Forwarded
<1>11. Kept'
  <2> USE DEF Kept, Vouched, Issued, None, Workers
  <2>1. KeptGuest'
    BY DEF KeptGuest
  <2>2. KeptEnrolling'
    BY DEF KeptEnrolling
  <2>3. KeptAccepted'
    BY DEF KeptAccepted
  <2>4. KeptSecrets'
    BY DEF KeptSecrets
  <2>5. KeptReconnect'
    BY DEF KeptReconnect
  <2> QED
    BY <2>1, <2>2, <2>3, <2>4, <2>5
<1> QED
  BY <1>1, <1>2, <1>3, <1>4, <1>5, <1>6, <1>7, <1>8, <1>9, <1>10, <1>11

\* The guest redeems the token it was delivered.
LEMMA RedeemStep ==
    ASSUME IInv, Redeem
    PROVE  IInv'
<1> USE DEF IInv
<1>same. /\ store' = store /\ link' = link /\ entry' = entry /\ chan' = chan /\ work' = work /\ late' = late
         /\ asks' = asks /\ fwd' = fwd /\ past' = past
  BY DEF Redeem, GuestMoves, Msg
<1> USE DEF Shaped
<1>sh. Shaped
  BY Shapes
<1>g. guest.up /\ guest.conn # None /\ guest.pc = "delivery" /\ guest.vm \in Nat \ {0} /\ guest.epoch \in Nat
        /\ guest.token \in Nat
  BY DEF Redeem, Came, Waiting, TypeOK, Guests
<1>c. PICK c \in Conns : c = guest.conn
  BY <1>sh, <1>g
<1>ty. wire \in [Conns -> Streams] /\ wire[c].up \in Seq(Frames) /\ wire[c].down \in Seq(Frames)
  BY DEF TypeOK, Streams
<1>h0. wire[c].down # <<>>
  BY <1>c DEF Redeem, Came
<1>f. PICK f \in Frames : f = Head(wire[c].down)
  BY <1>ty, <1>h0, InTail
<1>fin. f \in In(wire[c].down) /\ f.n \in Nat /\ f.m \in Nat
  BY <1>ty, <1>h0, <1>f, InTail DEF Frames
<1>fd. f.k = "config"
  BY <1>c, <1>f DEF Redeem, Came, Msg, TakesEpoch
<1>h. PICK h \in Frames : h = F("redeem", f.n, 0)
  BY <1>g, <1>fin DEF Frames, F
<1>hk. h.k = "redeem" /\ h.n = f.n /\ h.m = 0
  BY <1>h DEF F
<1>s. PICK s \in Seq(Frames) : s = <<h>>
  BY <1>h, FrameSeq
<1>sd. s \in Seq(Frames)
  BY <1>s
<1>sq. In(s) = {h} /\ Len(s) = 1
  BY <1>s, InFew
<1>w1. wire' = Replied(s)
  BY <1>c, <1>f, <1>h, <1>s DEF Redeem, GuestMoves, Msg
<1>cg. guest.conn \in Conns /\ wire[guest.conn].down # <<>>
  BY <1>c, <1>h0
<1>wire. /\ wire' \in [Conns -> Streams]
         /\ \A d \in Conns : /\ wire'[d].host = wire[d].host /\ wire'[d].guest = wire[d].guest
                             /\ (d # c => wire'[d] = wire[d])
  BY <1>c, <1>cg, <1>ty, <1>sd, <1>w1, RepliedEffect
<1>wd. wire'[c].down = Tail(wire[c].down)
  BY <1>c, <1>cg, <1>ty, <1>sd, <1>w1, RepliedEffect
<1>wu. wire'[c].up = IF wire[c].host /\ wire[c].guest THEN wire[c].up \o s ELSE wire[c].up
  BY <1>c, <1>cg, <1>ty, <1>sd, <1>w1, RepliedEffect
<1>nil. In(<<>>) = {} /\ Len(<<>>) = 0
  BY InFew, EmptySeq
<1>down. /\ In(wire'[c].down) \subseteq In(wire[c].down)
         /\ Len(wire[c].down) \in Nat /\ Len(wire'[c].down) = Len(wire[c].down) - 1
         /\ Len(wire[c].down) <= 1 => wire'[c].down = <<>>
  BY <1>ty, <1>h0, <1>wd, InTail
<1>up. /\ In(wire'[c].up) \subseteq In(wire[c].up) \cup {h}
       /\ wire[c].up = <<>> => Len(wire'[c].up) <= 1
       /\ ~wire[c].host => wire'[c].up = wire[c].up
  <2>1. /\ In(wire[c].up \o s) = In(wire[c].up) \cup In(s)
        /\ Len(wire[c].up \o s) = Len(wire[c].up) + Len(s)
    BY <1>ty, <1>sd, InJoin
  <2> QED
    BY <2>1, <1>wu, <1>sq, <1>nil
<1>roles. /\ work.enroll.conn = c => work.enroll.pc \in {"wait", "enroll", "enrolling", "install"}
          /\ work.reconnect.conn = c => work.reconnect.pc \in {"begin", "proof", "accept", "config", "redeem", "fetch", "ready", "install"}
  BY <1>sh DEF Roles, Speakers
<1>at. /\ entry.hub # c /\ work.enroll.conn # c
       /\ work.reconnect.conn = c => work.reconnect.pc = "redeem" /\ wire[c].up = <<>>
  <2>1. entry.hub # c
    BY <1>g, <1>c, <1>fin, <1>fd, <1>h0, <1>roles DEF Stand, AtEnroll, AtReconnect
  <2>2. work.enroll.conn # c
    BY <1>g, <1>c, <1>fin, <1>fd, <1>h0, <1>roles DEF Stand, AtEnroll, AtReconnect
  <2>3. work.reconnect.conn = c => work.reconnect.pc = "redeem" /\ wire[c].up = <<>>
    BY <1>g, <1>c, <1>fin, <1>fd, <1>h0, <1>roles DEF Stand, AtEnroll, AtReconnect
  <2> QED
    BY <2>1, <2>2, <2>3
<1>told. /\ \A a \in asks : a.conn # c/\ \A x \in In(wire[c].up) : x.k # "ask"
  BY <1>g, <1>c DEF Told
<1>quiet. wire[c].up = <<>>
  <2>1. wire[c].host => c = entry.hub \/ work.enroll.conn = c \/ work.reconnect.conn = c
    BY DEF Wired, Speakers
  <2> QED
    BY <2>1, <1>at DEF Wired
<1>free. \A w \in Speakers : work[w].conn = c => work[w].pc \notin Calling \cup {"install"}
  BY <1>at DEF Speakers, Calling
<1>guest1. guest \in Guests
  BY DEF TypeOK
<1>guest2. guest' = [guest EXCEPT !.token = f.n, !.pc = "secrets"]
  BY <1>c, <1>f DEF Redeem, GuestMoves, Msg
<1>guest. /\ guest'.vm = guest.vm /\ guest'.up = guest.up /\ guest'.id = guest.id /\ guest'.epoch = guest.epoch
          /\ guest'.token = f.n /\ guest'.next = guest.next /\ guest'.env = guest.env /\ guest'.pc = "secrets"
          /\ guest'.conn = guest.conn /\ guest'.seq = guest.seq /\ guest'.ask = guest.ask /\ guest' \in Guests
  BY <1>g, <1>fin, <1>guest1, <1>guest2 DEF Guests, Sockets, None
<1>id. guest.id = "enrolled"
  BY <1>g DEF Kept, KeptGuest
<1>done. wire'[c].down = <<>>
  BY <1>g, <1>c, <1>down DEF Told
<1> USE <1>same, <1>sh, <1>g, <1>c, <1>ty, <1>f, <1>fin, <1>fd, <1>hk, <1>wire, <1>nil, <1>down, <1>up, <1>at, <1>told,
        <1>quiet, <1>free, <1>guest, <1>id, <1>done
<1>1. TypeOK'
  BY DEF TypeOK
<1>2. Roles'
  BY DEF Roles, Speakers, None, Workers
<1>3. Placed'
  BY DEF Placed, Speakers, None, Workers
<1>4. HubUnfenced'
  BY DEF HubUnfenced
<1>5. Wired'
  <2>1. \A d \in Conns : ~wire'[d].host => wire'[d].up = <<>>
    BY DEF Wired
  <2>2. \A d \in Conns : wire'[d].host = wire[d].host /\ wire'[d].guest = wire[d].guest
    OBVIOUS
  <2> QED
    BY <2>1, <2>2 DEF Wired
<1>6. Sent'
  <2>1. \A d \in Conns : d # c => wire'[d].up = wire[d].up
    OBVIOUS
  <2>2. \A w \in Speakers : work[w].pc # "idle" => work[w].conn \in Conns
    BY DEF Roles, Speakers, Workers
  <2>3. Len(wire'[c].up) <= 1
    OBVIOUS
  <2> HIDE <1>g, <1>c, <1>ty, <1>f, <1>fin, <1>fd, <1>hk, <1>wire, <1>nil, <1>down, <1>up, <1>told, <1>quiet, <1>guest,
          <1>id, <1>done
  <2> QED
    BY <2>1, <2>2, <2>3 DEF Sent, OnlyAsks
<1>7. Stand'
  BY DEF Stand, AtEnroll, AtReconnect, None, Workers
<1>8. Told'
  BY DEF Told, None
<1>9. Voice'
  BY DEF Voice, Mine, None
<1>10. Forwarded'
  BY DEF Forwarded
<1>11. Kept'
  <2> USE DEF Kept, Vouched, Issued, None, Workers
  <2>1. KeptGuest'
    BY DEF KeptGuest
  <2>2. KeptEnrolling'
    BY DEF KeptEnrolling
  <2>3. KeptAccepted'
    BY DEF KeptAccepted
  <2>4. KeptSecrets'
    BY DEF KeptSecrets
  <2>5. KeptReconnect'
    BY DEF KeptReconnect
  <2> QED
    BY <2>1, <2>2, <2>3, <2>4, <2>5
<1> QED
  BY <1>1, <1>2, <1>3, <1>4, <1>5, <1>6, <1>7, <1>8, <1>9, <1>10, <1>11

\* The guest has its secrets, and is ready.
LEMMA RefreshStep ==
    ASSUME IInv, Refresh
    PROVE  IInv'
<1> USE DEF IInv
<1>same. /\ store' = store /\ link' = link /\ entry' = entry /\ chan' = chan /\ work' = work /\ late' = late
         /\ asks' = asks /\ fwd' = fwd /\ past' = past
  BY DEF Refresh, GuestMoves, Msg
<1> USE DEF Shaped
<1>sh. Shaped
  BY Shapes
<1>g. guest.up /\ guest.conn # None /\ guest.pc = "secrets" /\ guest.vm \in Nat \ {0} /\ guest.epoch \in Nat
        /\ guest.token \in Nat
  BY DEF Refresh, Came, Waiting, TypeOK, Guests
<1>c. PICK c \in Conns : c = guest.conn
  BY <1>sh, <1>g
<1>ty. wire \in [Conns -> Streams] /\ wire[c].up \in Seq(Frames) /\ wire[c].down \in Seq(Frames)
  BY DEF TypeOK, Streams
<1>h0. wire[c].down # <<>>
  BY <1>c DEF Refresh, Came
<1>f. PICK f \in Frames : f = Head(wire[c].down)
  BY <1>ty, <1>h0, InTail
<1>fin. f \in In(wire[c].down) /\ f.n \in Nat /\ f.m \in Nat
  BY <1>ty, <1>h0, <1>f, InTail DEF Frames
<1>fd. f.k = "resp"
  BY <1>c, <1>f DEF Refresh, Came, Msg, TakesEpoch
<1>h. PICK h \in Frames : h = F("ready", guest.epoch, 0)
  BY <1>g, <1>fin DEF Frames, F
<1>hk. h.k = "ready" /\ h.n = guest.epoch /\ h.m = 0
  BY <1>h DEF F
<1>s. PICK s \in Seq(Frames) : s = <<h>>
  BY <1>h, FrameSeq
<1>sd. s \in Seq(Frames)
  BY <1>s
<1>sq. In(s) = {h} /\ Len(s) = 1
  BY <1>s, InFew
<1>w1. wire' = Replied(s)
  BY <1>c, <1>f, <1>h, <1>s DEF Refresh, GuestMoves, Msg
<1>cg. guest.conn \in Conns /\ wire[guest.conn].down # <<>>
  BY <1>c, <1>h0
<1>wire. /\ wire' \in [Conns -> Streams]
         /\ \A d \in Conns : /\ wire'[d].host = wire[d].host /\ wire'[d].guest = wire[d].guest
                             /\ (d # c => wire'[d] = wire[d])
  BY <1>c, <1>cg, <1>ty, <1>sd, <1>w1, RepliedEffect
<1>wd. wire'[c].down = Tail(wire[c].down)
  BY <1>c, <1>cg, <1>ty, <1>sd, <1>w1, RepliedEffect
<1>wu. wire'[c].up = IF wire[c].host /\ wire[c].guest THEN wire[c].up \o s ELSE wire[c].up
  BY <1>c, <1>cg, <1>ty, <1>sd, <1>w1, RepliedEffect
<1>nil. In(<<>>) = {} /\ Len(<<>>) = 0
  BY InFew, EmptySeq
<1>down. /\ In(wire'[c].down) \subseteq In(wire[c].down)
         /\ Len(wire[c].down) \in Nat /\ Len(wire'[c].down) = Len(wire[c].down) - 1
         /\ Len(wire[c].down) <= 1 => wire'[c].down = <<>>
  BY <1>ty, <1>h0, <1>wd, InTail
<1>up. /\ In(wire'[c].up) \subseteq In(wire[c].up) \cup {h}
       /\ wire[c].up = <<>> => Len(wire'[c].up) <= 1
       /\ ~wire[c].host => wire'[c].up = wire[c].up
  <2>1. /\ In(wire[c].up \o s) = In(wire[c].up) \cup In(s)
        /\ Len(wire[c].up \o s) = Len(wire[c].up) + Len(s)
    BY <1>ty, <1>sd, InJoin
  <2> QED
    BY <2>1, <1>wu, <1>sq, <1>nil
<1>roles. /\ work.enroll.conn = c => work.enroll.pc \in {"wait", "enroll", "enrolling", "install"}
          /\ work.reconnect.conn = c => work.reconnect.pc \in {"begin", "proof", "accept", "config", "redeem", "fetch", "ready", "install"}
  BY <1>sh DEF Roles, Speakers
<1>at. /\ entry.hub # c /\ work.enroll.conn # c
       /\ work.reconnect.conn = c => work.reconnect.pc = "ready" /\ wire[c].up = <<>> /\ Len(wire[c].down) <= 1
  <2>1. entry.hub # c
    BY <1>g, <1>c, <1>fin, <1>fd, <1>h0, <1>roles DEF Stand, AtEnroll, AtReconnect
  <2>2. work.enroll.conn # c
    BY <1>g, <1>c, <1>fin, <1>fd, <1>h0, <1>roles DEF Stand, AtEnroll, AtReconnect
  <2>3. work.reconnect.conn = c => work.reconnect.pc = "ready" /\ wire[c].up = <<>> /\ Len(wire[c].down) <= 1
    BY <1>g, <1>c, <1>fin, <1>fd, <1>h0, <1>roles DEF Stand, AtEnroll, AtReconnect
  <2> QED
    BY <2>1, <2>2, <2>3
<1>told. /\ \A a \in asks : a.conn # c/\ \A x \in In(wire[c].up) : x.k # "ask"
  BY <1>g, <1>c DEF Told
<1>quiet. wire[c].up = <<>>
  <2>1. wire[c].host => c = entry.hub \/ work.enroll.conn = c \/ work.reconnect.conn = c
    BY DEF Wired, Speakers
  <2> QED
    BY <2>1, <1>at DEF Wired
<1>free. \A w \in Speakers : work[w].conn = c => work[w].pc \notin Calling \cup {"install"}
  BY <1>at DEF Speakers, Calling
<1>guest1. guest \in Guests
  BY DEF TypeOK
<1>guest2. guest' = [guest EXCEPT !.env = f.n, !.pc = "ready"]
  BY <1>c, <1>f DEF Refresh, GuestMoves, Msg
<1>guest. /\ guest'.vm = guest.vm /\ guest'.up = guest.up /\ guest'.id = guest.id /\ guest'.epoch = guest.epoch
          /\ guest'.token = guest.token /\ guest'.next = guest.next /\ guest'.env = f.n /\ guest'.pc = "ready"
          /\ guest'.conn = guest.conn /\ guest'.seq = guest.seq /\ guest'.ask = guest.ask /\ guest' \in Guests
  BY <1>g, <1>fin, <1>guest1, <1>guest2 DEF Guests, Sockets, None
<1>id. guest.id = "enrolled"
  BY <1>g DEF Kept, KeptGuest
<1>token. f.n = guest.token
  BY <1>g, <1>c, <1>fin DEF Kept, KeptSecrets
<1> USE <1>same, <1>sh, <1>g, <1>c, <1>ty, <1>f, <1>fin, <1>fd, <1>hk, <1>wire, <1>nil, <1>down, <1>up, <1>at, <1>told,
        <1>quiet, <1>free, <1>guest, <1>id, <1>token
<1>1. TypeOK'
  BY DEF TypeOK
<1>2. Roles'
  BY DEF Roles, Speakers, None, Workers
<1>3. Placed'
  BY DEF Placed, Speakers, None, Workers
<1>4. HubUnfenced'
  BY DEF HubUnfenced
<1>5. Wired'
  <2>1. \A d \in Conns : ~wire'[d].host => wire'[d].up = <<>>
    BY DEF Wired
  <2>2. \A d \in Conns : wire'[d].host = wire[d].host /\ wire'[d].guest = wire[d].guest
    OBVIOUS
  <2> QED
    BY <2>1, <2>2 DEF Wired
<1>6. Sent'
  <2>1. \A d \in Conns : d # c => wire'[d].up = wire[d].up
    OBVIOUS
  <2>2. \A w \in Speakers : work[w].pc # "idle" => work[w].conn \in Conns
    BY DEF Roles, Speakers, Workers
  <2>3. Len(wire'[c].up) <= 1
    OBVIOUS
  <2> HIDE <1>g, <1>c, <1>ty, <1>f, <1>fin, <1>fd, <1>hk, <1>wire, <1>nil, <1>down, <1>up, <1>told, <1>quiet, <1>guest,
          <1>id, <1>token
  <2> QED
    BY <2>1, <2>2, <2>3 DEF Sent, OnlyAsks
<1>7. Stand'
  BY DEF Stand, AtEnroll, AtReconnect, None, Workers
<1>8. Told'
  BY DEF Told, None
<1>9. Voice'
  BY DEF Voice, Mine, None
<1>10. Forwarded'
  BY DEF Forwarded
<1>11. Kept'
  <2> USE DEF Kept, Vouched, Issued, None, Workers
  <2>1. KeptGuest'
    BY DEF KeptGuest
  <2>2. KeptEnrolling'
    BY DEF KeptEnrolling
  <2>3. KeptAccepted'
    BY DEF KeptAccepted
  <2>4. KeptSecrets'
    BY DEF KeptSecrets
  <2>5. KeptReconnect'
    BY DEF KeptReconnect
  <2> QED
    BY <2>1, <2>2, <2>3, <2>4, <2>5
<1> QED
  BY <1>1, <1>2, <1>3, <1>4, <1>5, <1>6, <1>7, <1>8, <1>9, <1>10, <1>11

\* The guest is told that it is ready.
LEMMA AcknowledgedStep ==
    ASSUME IInv, Acknowledged
    PROVE  IInv'
<1> USE DEF IInv
<1>same. /\ store' = store /\ link' = link /\ entry' = entry /\ chan' = chan /\ work' = work /\ late' = late
         /\ asks' = asks /\ fwd' = fwd /\ past' = past
  BY DEF Acknowledged, GuestMoves, Msg
<1> USE DEF Shaped
<1>sh. Shaped
  BY Shapes
<1>g. guest.up /\ guest.conn # None /\ guest.pc = "ready" /\ guest.vm \in Nat \ {0} /\ guest.epoch \in Nat
        /\ guest.token \in Nat
  BY DEF Acknowledged, Came, Waiting, TypeOK, Guests
<1>c. PICK c \in Conns : c = guest.conn
  BY <1>sh, <1>g
<1>ty. wire \in [Conns -> Streams] /\ wire[c].up \in Seq(Frames) /\ wire[c].down \in Seq(Frames)
  BY DEF TypeOK, Streams
<1>h0. wire[c].down # <<>>
  BY <1>c DEF Acknowledged, Came
<1>f. PICK f \in Frames : f = Head(wire[c].down)
  BY <1>ty, <1>h0, InTail
<1>fin. f \in In(wire[c].down) /\ f.n \in Nat /\ f.m \in Nat
  BY <1>ty, <1>h0, <1>f, InTail DEF Frames
<1>fd. f.k = "ack"
  BY <1>c, <1>f DEF Acknowledged, Came, Msg, TakesEpoch
<1>s. PICK s \in Seq(Frames) : s = <<>>
  BY EmptySeq
<1>sd. s \in Seq(Frames)
  BY <1>s
<1>w1. wire' = Replied(s)
  BY <1>s DEF Acknowledged, GuestMoves
<1>cg. guest.conn \in Conns /\ wire[guest.conn].down # <<>>
  BY <1>c, <1>h0
<1>wire. /\ wire' \in [Conns -> Streams]
         /\ \A d \in Conns : /\ wire'[d].host = wire[d].host /\ wire'[d].guest = wire[d].guest
                             /\ (d # c => wire'[d] = wire[d])
  BY <1>c, <1>cg, <1>ty, <1>sd, <1>w1, RepliedEffect
<1>wd. wire'[c].down = Tail(wire[c].down)
  BY <1>c, <1>cg, <1>ty, <1>sd, <1>w1, RepliedEffect
<1>wu. wire'[c].up = IF wire[c].host /\ wire[c].guest THEN wire[c].up \o s ELSE wire[c].up
  BY <1>c, <1>cg, <1>ty, <1>sd, <1>w1, RepliedEffect
<1>nil. In(<<>>) = {} /\ Len(<<>>) = 0
  BY InFew, EmptySeq
<1>down. /\ In(wire'[c].down) \subseteq In(wire[c].down)
         /\ Len(wire[c].down) \in Nat /\ Len(wire'[c].down) = Len(wire[c].down) - 1
         /\ Len(wire[c].down) <= 1 => wire'[c].down = <<>>
  BY <1>ty, <1>h0, <1>wd, InTail
<1>up. wire'[c].up = wire[c].up
  BY <1>ty, <1>s, <1>wu, ConcatEmptySeq
<1>roles. /\ work.enroll.conn = c => work.enroll.pc \in {"wait", "enroll", "enrolling", "install"}
          /\ work.reconnect.conn = c => work.reconnect.pc \in {"begin", "proof", "accept", "config", "redeem", "fetch", "ready", "install"}
  BY <1>sh DEF Roles, Speakers
<1>at. /\ work.enroll.conn # c
       /\ work.reconnect.conn = c => work.reconnect.pc = "install"
  <2>1. work.enroll.conn # c
    BY <1>g, <1>c, <1>fin, <1>fd, <1>h0, <1>roles DEF Stand, AtEnroll, AtReconnect
  <2>2. work.reconnect.conn = c => work.reconnect.pc = "install"
    BY <1>g, <1>c, <1>fin, <1>fd, <1>h0, <1>roles DEF Stand, AtEnroll, AtReconnect
  <2> QED
    BY <2>1, <2>2
<1>told. /\ \A a \in asks : a.conn # c/\ \A x \in In(wire[c].up) : x.k # "ask"
  BY <1>g, <1>c DEF Told
<1>guest1. guest \in Guests
  BY DEF TypeOK
<1>guest2. guest' = [guest EXCEPT !.pc = "serving"]
  BY <1>c, <1>f DEF Acknowledged, GuestMoves, Msg
<1>guest. /\ guest'.vm = guest.vm /\ guest'.up = guest.up /\ guest'.id = guest.id /\ guest'.epoch = guest.epoch
          /\ guest'.token = guest.token /\ guest'.next = guest.next /\ guest'.env = guest.env
          /\ guest'.pc = "serving" /\ guest'.conn = guest.conn /\ guest'.seq = guest.seq
          /\ guest'.ask = guest.ask /\ guest' \in Guests
  BY <1>g, <1>fin, <1>guest1, <1>guest2 DEF Guests, Sockets, None
<1>id. guest.id = "enrolled" /\ guest.env = guest.token
  BY <1>g DEF Kept, KeptGuest
<1> USE <1>same, <1>sh, <1>g, <1>c, <1>ty, <1>f, <1>fin, <1>fd, <1>wire, <1>nil, <1>down, <1>up, <1>at, <1>told, <1>guest,
        <1>id
<1>1. TypeOK'
  BY DEF TypeOK
<1>2. Roles'
  BY DEF Roles, Speakers, None, Workers
<1>3. Placed'
  BY DEF Placed, Speakers, None, Workers
<1>4. HubUnfenced'
  BY DEF HubUnfenced
<1>5. Wired'
  <2>1. \A d \in Conns : ~wire'[d].host => wire'[d].up = <<>>
    BY DEF Wired
  <2>2. \A d \in Conns : wire'[d].host = wire[d].host /\ wire'[d].guest = wire[d].guest
    OBVIOUS
  <2> QED
    BY <2>1, <2>2 DEF Wired
<1>6. Sent'
  <2>1. \A d \in Conns : wire'[d].up = wire[d].up
    OBVIOUS
  <2>2. \A w \in Speakers : work[w].pc # "idle" => work[w].conn \in Conns
    BY DEF Roles, Speakers, Workers
  <2> HIDE <1>g, <1>c, <1>ty, <1>f, <1>fin, <1>fd, <1>wire, <1>nil, <1>down, <1>up, <1>at, <1>told, <1>guest, <1>id
  <2> QED
    BY <2>1, <2>2 DEF Sent, OnlyAsks
<1>7. Stand'
  BY DEF Stand, AtEnroll, AtReconnect, None, Workers
<1>8. Told'
  BY DEF Told, None
<1>9. Voice'
  BY DEF Voice, Mine, None
<1>10. Forwarded'
  BY DEF Forwarded
<1>11. Kept'
  <2> USE DEF Kept, Vouched, Issued, None, Workers
  <2>1. KeptGuest'
    BY DEF KeptGuest
  <2>2. KeptEnrolling'
    BY DEF KeptEnrolling
  <2>3. KeptAccepted'
    BY DEF KeptAccepted
  <2>4. KeptSecrets'
    BY DEF KeptSecrets
  <2>5. KeptReconnect'
    BY DEF KeptReconnect
  <2> QED
    BY <2>1, <2>2, <2>3, <2>4, <2>5
<1> QED
  BY <1>1, <1>2, <1>3, <1>4, <1>5, <1>6, <1>7, <1>8, <1>9, <1>10, <1>11


--------------------
\* The guest hangs up, and asks

\* The guest closes its end; one that never enrolled has failed to boot.
LEMMA HangupStep ==
    ASSUME IInv, Waiting, Hangup
    PROVE  IInv'
<1> USE DEF IInv
<1>same. /\ store' = store /\ link' = link /\ entry' = entry /\ chan' = chan /\ work' = work /\ late' = late
         /\ asks' = asks /\ fwd' = fwd /\ past' = past
  BY DEF Hangup
<1> USE DEF Shaped
<1>sh. Shaped
  BY Shapes
<1>g. guest.up /\ guest.conn # None /\ guest \in Guests
  BY DEF Waiting, TypeOK
<1>c. PICK c \in Conns : c = guest.conn
  BY <1>sh, <1>g
<1>ty. wire \in [Conns -> Streams] /\ wire[c].up \in Seq(Frames) /\ wire[c].down \in Seq(Frames)
  BY DEF TypeOK, Streams
<1>wire1. wire' = GuestCloses(wire, c)
  BY <1>c DEF Hangup
<1>wire. /\ wire' \in [Conns -> Streams]
         /\ \A d \in Conns : wire'[d].host = wire[d].host /\ wire'[d].up = wire[d].up /\ (d # c => wire'[d] = wire[d])
         /\ ~wire'[c].guest /\ wire'[c].down = <<>>
  <2>1. c \in Sockets /\ c # None
    BY <1>sh DEF Sockets
  <2> QED
    BY <1>ty, <1>wire1, <2>1, GuestClosesEffect
<1>nil. In(<<>>) = {} /\ Len(<<>>) = 0
  BY InFew, EmptySeq
<1>on. guest.id = "enrolled" => guest' = [guest EXCEPT !.pc = "idle", !.conn = None, !.ask = 0]
  BY DEF Hangup
<1>off. guest.id # "enrolled" => guest' = [guest EXCEPT !.up = FALSE, !.pc = "off", !.conn = None]
  BY DEF Hangup
<1>guest. /\ guest' \in Guests /\ guest'.conn = None
          /\ guest'.vm = guest.vm /\ guest'.id = guest.id /\ guest'.epoch = guest.epoch
          /\ guest'.up => guest.id = "enrolled"
          /\ guest'.pc \in {"idle", "off"}
  <2>1. CASE guest.id = "enrolled"
    <3>1. guest' = [guest EXCEPT !.pc = "idle", !.conn = None, !.ask = 0] /\ None \in Sockets
      BY <1>on, <2>1 DEF Sockets
    <3>2. guest' \in Guests
      BY <1>g, <3>1 DEF Guests
    <3> QED
      BY <1>g, <2>1, <3>1, <3>2 DEF Guests
  <2>2. CASE guest.id # "enrolled"
    BY <1>g, <1>off, <2>2 DEF Guests, Sockets, None
  <2> QED
    BY <2>1, <2>2
<1>workers. \A w \in Speakers : work[w].pc # "idle" => work[w].conn \in Conns
  BY <1>sh DEF Roles, Speakers, Workers
<1> USE <1>same, <1>sh, <1>g, <1>c, <1>ty, <1>wire, <1>nil, <1>guest, <1>workers
<1>1. TypeOK'
  BY DEF TypeOK
<1>2. Roles'
  BY DEF Roles, Speakers, None, Workers
<1>3. Placed'
  BY DEF Placed, Speakers, None, Workers
<1>4. HubUnfenced'
  BY DEF HubUnfenced
<1>5. Wired'
  BY DEF Wired
<1>6. Sent'
  BY DEF Sent, OnlyAsks
<1>7. Stand'
  BY DEF Stand, AtEnroll, AtReconnect, None, Workers
<1>8. Told'
  BY DEF Told, None
<1>9. Voice'
  BY DEF Voice, Mine, None
<1>10. Forwarded'
  BY DEF Forwarded
<1>11. Kept'
  <2> USE DEF Kept, Vouched, Issued, None, Workers
  <2>1. KeptGuest'
    BY DEF KeptGuest
  <2>2. KeptEnrolling'
    BY DEF KeptEnrolling
  <2>3. KeptAccepted'
    BY DEF KeptAccepted
  <2>4. KeptSecrets'
    BY DEF KeptSecrets
  <2>5. KeptReconnect'
    BY DEF KeptReconnect
  <2> QED
    BY <2>1, <2>2, <2>3, <2>4, <2>5
<1> QED
  BY <1>1, <1>2, <1>3, <1>4, <1>5, <1>6, <1>7, <1>8, <1>9, <1>10, <1>11

\* A guest that is served asks something.
LEMMA GuestAsksStep ==
    ASSUME IInv, Ask
    PROVE  IInv'
<1> USE DEF IInv
<1>same. /\ store' = store /\ link' = link /\ entry' = entry /\ chan' = chan /\ work' = work /\ late' = late
         /\ asks' = asks /\ fwd' = fwd
  BY DEF Ask
<1> USE DEF Shaped
<1>sh. Shaped
  BY Shapes
<1>g. guest.up /\ guest.pc = "serving" /\ guest.ask = 0 /\ guest.conn # None
  BY DEF Ask, Told
<1>c. PICK c \in Conns : c = guest.conn
  BY <1>sh, <1>g
<1>ty. wire \in [Conns -> Streams] /\ wire[c].up \in Seq(Frames) /\ wire[c].down \in Seq(Frames)
  BY DEF TypeOK, Streams
<1>num. guest \in Guests /\ past.tag \in Nat
  BY DEF TypeOK
<1>v. PICK v \in Nat : v = guest.seq + 1
  BY <1>num DEF Guests
<1>t. PICK t \in Nat : t = past.tag + 1 /\ t # 0
  BY <1>num
<1>h. PICK h \in Frames : h = F("ask", v, t)
  BY DEF Frames, F
<1>hk. h.k = "ask" /\ h.n = v /\ h.m = t
  BY <1>h DEF F
<1>s. PICK s \in Seq(Frames) : s = <<h>>
  BY <1>h, FrameSeq
<1>sd. s \in Seq(Frames)
  BY <1>s
<1>sq. In(s) = {h}
  BY <1>s, InFew
<1>w1. wire' = Up(c, s)
  BY <1>c, <1>v, <1>t, <1>h, <1>s DEF Ask
<1>wire. /\ wire' \in [Conns -> Streams]
         /\ \A d \in Conns : /\ wire'[d].host = wire[d].host /\ wire'[d].guest = wire[d].guest
                             /\ wire'[d].down = wire[d].down
                             /\ (d # c => wire'[d] = wire[d])
  BY <1>c, <1>ty, <1>sd, <1>w1, UpEffect
<1>wu. wire'[c].up = IF wire[c].host /\ wire[c].guest THEN wire[c].up \o s ELSE wire[c].up
  BY <1>c, <1>ty, <1>sd, <1>w1, UpEffect
<1>up. /\ In(wire'[c].up) \subseteq In(wire[c].up) \cup {h}
       /\ ~wire[c].host => wire'[c].up = wire[c].up
  <2>1. In(wire[c].up \o s) = In(wire[c].up) \cup In(s)
    BY <1>ty, <1>sd, InJoin
  <2> QED
    BY <2>1, <1>wu, <1>sq
<1>p1. past \in [tag : Nat, wrong : BOOLEAN, fenced : SUBSET Conns, remint : BOOLEAN]
  BY DEF TypeOK
<1>p2. past' = [past EXCEPT !.tag = t]
  BY <1>t DEF Ask
<1>past. /\ past' \in [tag : Nat, wrong : BOOLEAN, fenced : SUBSET Conns, remint : BOOLEAN]
         /\ past'.remint = past.remint /\ past'.fenced = past.fenced
  BY <1>p1, <1>p2
<1>nats. guest.seq \in Nat /\ v = guest.seq + 1 /\ (\A a \in asks : a.id \in Nat)
           /\ (\A x \in Frames : x.n \in Nat) /\ In(wire[c].up) \subseteq Frames
           /\ In(wire[c].down) \subseteq Frames
  BY <1>num, <1>v, <1>ty, InFrames DEF TypeOK, Guests, Requests, Frames
<1>stand. /\ work.enroll.conn = c => work.enroll.pc = "install"
          /\ work.reconnect.conn = c => work.reconnect.pc = "install"
  <2>1. /\ work.enroll.conn = c => work.enroll.pc \in {"wait", "enroll", "enrolling", "install"}
        /\ work.reconnect.conn = c =>
            work.reconnect.pc \in {"begin", "proof", "accept", "config", "redeem", "fetch", "ready", "install"}
    BY <1>sh DEF Roles, Speakers
  <2> QED
    BY <1>g, <1>c, <2>1 DEF Stand, AtEnroll, AtReconnect
<1>guest1. guest \in Guests
  BY DEF TypeOK
<1>guest2. guest' = [guest EXCEPT !.seq = v, !.ask = t]
  BY <1>v, <1>t DEF Ask
<1>guest. /\ guest'.vm = guest.vm /\ guest'.up = guest.up /\ guest'.id = guest.id /\ guest'.epoch = guest.epoch
          /\ guest'.token = guest.token /\ guest'.next = guest.next /\ guest'.env = guest.env
          /\ guest'.pc = guest.pc /\ guest'.conn = guest.conn /\ guest'.seq = v /\ guest'.ask = t
          /\ guest' \in Guests
  BY <1>v, <1>t, <1>guest1, <1>guest2 DEF Guests, Sockets, None
<1>workers. \A w \in Speakers : work[w].pc # "idle" => work[w].conn \in Conns
              /\ (work[w].conn = c => work[w].pc = "install")
  BY <1>sh, <1>stand DEF Roles, Speakers, Workers
<1> USE <1>same, <1>sh, <1>g, <1>c, <1>ty, <1>v, <1>t, <1>hk, <1>wire, <1>up, <1>past, <1>nats, <1>stand, <1>guest,
        <1>workers
<1>1. TypeOK'
  BY DEF TypeOK
<1>2. Roles'
  BY DEF Roles, Speakers, None, Workers
<1>3. Placed'
  BY DEF Placed, Speakers, None, Workers
<1>4. HubUnfenced'
  BY DEF HubUnfenced
<1>5. Wired'
  <2>1. \A d \in Conns : ~wire'[d].host => wire'[d].up = <<>>
    BY DEF Wired
  <2>2. \A d \in Conns : wire'[d].host = wire[d].host /\ wire'[d].guest = wire[d].guest
    OBVIOUS
  <2> QED
    BY <2>1, <2>2 DEF Wired
<1>6. Sent'
  <2> HIDE <1>same, <1>sh, <1>g, <1>c, <1>ty, <1>v, <1>t, <1>hk, <1>wire, <1>up, <1>past, <1>nats, <1>stand,
          <1>guest, <1>workers
  <2>1. \A d \in Conns : OnlyAsks(d) => OnlyAsks(d)'
    BY <1>wire, <1>up, <1>hk DEF OnlyAsks
  <2>2. entry.hub # None => OnlyAsks(entry.hub)'
    BY <1>sh, <1>same, <2>1 DEF Sent
  <2>3. ASSUME NEW w \in Speakers, work[w].pc # "idle"
        PROVE  LET up == wire'[work[w].conn].up IN
               /\ work[w].pc \in Calling => up = <<>>
               /\ work[w].pc = "install" => OnlyAsks(work[w].conn)'
               /\ work[w].pc \notin Calling \cup {"install"} => Len(up) <= 1
    <3>1. PICK d \in Conns : d = work[w].conn /\ work'[w].conn = d
      BY <1>same, <1>workers, <2>3
    <3>2. CASE d = c
      <4>1. work[w].pc = "install" /\ OnlyAsks(d)
        BY <1>workers, <2>3, <3>1, <3>2 DEF Sent
      <4>2. OnlyAsks(d)'
        BY <2>1, <4>1
      <4> QED
        BY <3>1, <4>1, <4>2 DEF Calling, OnlyAsks
    <3>3. CASE d # c
      <4>1. wire'[d] = wire[d]
        BY <1>wire, <3>3
      <4> QED
        BY <2>3, <3>1, <4>1 DEF Sent, OnlyAsks
    <3> QED
      BY <3>2, <3>3
  <2> QED
    BY <1>same, <2>2, <2>3 DEF Sent, OnlyAsks
<1>7. Stand'
  BY DEF Stand, AtEnroll, AtReconnect, None, Workers
<1>8. Told'
  BY DEF Told, None
<1>9. Voice'
  <2>1. \A id, tag \in Nat : Mine(id, tag) => Mine(id, tag)'
    BY DEF Mine
  <2>2. Mine(h.n, h.m)'
    BY DEF Mine
  <2>3. /\ \A a \in asks : a.id \in Nat /\ a.tag \in Nat
        /\ \A x \in Frames : x.n \in Nat /\ x.m \in Nat
    BY DEF TypeOK, Requests, Frames
  <2>4. /\ \A a \in asks : a.conn = c => Mine(a.id, a.tag)
        /\ \A x \in In(wire[c].up) : x.k = "ask" => Mine(x.n, x.m)
        /\ \A x \in In(wire[c].down) : x.k = "answer" => Mine(x.n, x.m)
    BY DEF Voice
  <2>5. guest'.conn = c /\ asks' = asks /\ wire'[c].down = wire[c].down
    OBVIOUS
  <2>6. ASSUME NEW x \in In(wire'[c].up), x.k = "ask"
        PROVE  Mine(x.n, x.m)'
    BY <2>1, <2>2, <2>3, <2>4, <2>6
  <2>7. \A a \in asks : a.conn = c => Mine(a.id, a.tag)'
    BY <2>1, <2>3, <2>4
  <2>8. \A x \in In(wire[c].down) : x.k = "answer" => Mine(x.n, x.m)'
    BY <2>1, <2>3, <2>4
  <2> QED
    BY <2>5, <2>6, <2>7, <2>8 DEF Voice, Mine
<1>10. Forwarded'
  BY DEF Forwarded
<1>11. Kept'
  <2> USE DEF Kept, Vouched, Issued, None, Workers
  <2>1. KeptGuest'
    BY DEF KeptGuest
  <2>2. KeptEnrolling'
    BY DEF KeptEnrolling
  <2>3. KeptAccepted'
    BY DEF KeptAccepted
  <2>4. KeptSecrets'
    BY DEF KeptSecrets
  <2>5. KeptReconnect'
    BY DEF KeptReconnect
  <2> QED
    BY <2>1, <2>2, <2>3, <2>4, <2>5
<1> QED
  BY <1>1, <1>2, <1>3, <1>4, <1>5, <1>6, <1>7, <1>8, <1>9, <1>10, <1>11


--------------------
\* Answers to the guest

\* The guest takes an answer, or drops it.
LEMMA GuestAnsweredStep ==
    ASSUME IInv, GuestAnswered
    PROVE  IInv'
<1> USE DEF IInv
<1>same. /\ store' = store /\ link' = link /\ entry' = entry /\ chan' = chan /\ work' = work /\ late' = late
         /\ asks' = asks /\ fwd' = fwd
  BY DEF GuestAnswered
<1> USE DEF Shaped
<1>sh. Shaped
  BY Shapes
<1>g. guest.up /\ guest.conn # None /\ guest.pc = "serving"
  BY DEF GuestAnswered, Waiting
<1>c. PICK c \in Conns : c = guest.conn
  BY <1>sh, <1>g
<1>ty. wire \in [Conns -> Streams] /\ wire[c].up \in Seq(Frames) /\ wire[c].down \in Seq(Frames)
  BY DEF TypeOK, Streams
<1>h0. wire[c].down # <<>>
  BY <1>c DEF GuestAnswered
<1>s. PICK s \in Seq(Frames) : s = <<>>
  BY EmptySeq
<1>sd. s \in Seq(Frames)
  BY <1>s
<1>w1. wire' = Replied(s)
  BY <1>s DEF GuestAnswered
<1>cg. guest.conn \in Conns /\ wire[guest.conn].down # <<>>
  BY <1>c, <1>h0
<1>wire. /\ wire' \in [Conns -> Streams]
         /\ \A d \in Conns : /\ wire'[d].host = wire[d].host /\ wire'[d].guest = wire[d].guest
                             /\ (d # c => wire'[d] = wire[d])
  BY <1>c, <1>cg, <1>ty, <1>sd, <1>w1, RepliedEffect
<1>wd. wire'[c].down = Tail(wire[c].down)
  BY <1>c, <1>cg, <1>ty, <1>sd, <1>w1, RepliedEffect
<1>wu. wire'[c].up = IF wire[c].host /\ wire[c].guest THEN wire[c].up \o s ELSE wire[c].up
  BY <1>c, <1>cg, <1>ty, <1>sd, <1>w1, RepliedEffect
<1>nil. In(<<>>) = {} /\ Len(<<>>) = 0
  BY InFew, EmptySeq
<1>down. /\ In(wire'[c].down) \subseteq In(wire[c].down)
  BY <1>ty, <1>h0, <1>wd, InTail
<1>up. wire'[c].up = wire[c].up
  BY <1>ty, <1>s, <1>wu, ConcatEmptySeq
<1>g1. guest \in Guests /\ (guest' = guest \/ guest' = [guest EXCEPT !.ask = 0])
  BY DEF GuestAnswered, TypeOK
<1>guest. /\ guest' \in Guests /\ guest'.vm = guest.vm /\ guest'.up = guest.up /\ guest'.id = guest.id
          /\ guest'.epoch = guest.epoch /\ guest'.token = guest.token /\ guest'.next = guest.next
          /\ guest'.env = guest.env /\ guest'.pc = guest.pc /\ guest'.conn = guest.conn
          /\ guest'.seq = guest.seq
          /\ guest'.ask = guest.ask \/ guest'.ask = 0
  <2>1. CASE guest' = guest
    BY <1>g1, <2>1
  <2>2. CASE guest' = [guest EXCEPT !.ask = 0]
    BY <1>g1, <2>2 DEF Guests
  <2> QED
    BY <1>g1, <2>1, <2>2
<1>p0. PICK wrong : wrong = (LET mine == Msg.k = "answer" /\ guest.ask # 0 /\ Msg.n = guest.seq IN past.wrong \/ (mine /\ Msg.m # guest.ask))
  OBVIOUS
<1>p1. past \in [tag : Nat, wrong : BOOLEAN, fenced : SUBSET Conns, remint : BOOLEAN]
  BY DEF TypeOK
<1>p2. past' = [past EXCEPT !.wrong = wrong] /\ wrong \in BOOLEAN
  BY <1>p0, <1>p1 DEF GuestAnswered
<1>past. /\ past' \in [tag : Nat, wrong : BOOLEAN, fenced : SUBSET Conns, remint : BOOLEAN]
         /\ past'.remint = past.remint /\ past'.fenced = past.fenced
  BY <1>p1, <1>p2
<1> USE <1>same, <1>sh, <1>g, <1>c, <1>ty, <1>wire, <1>nil, <1>down, <1>up, <1>guest, <1>past
<1>1. TypeOK'
  BY DEF TypeOK
<1>2. Roles'
  BY DEF Roles, Speakers, None, Workers
<1>3. Placed'
  BY DEF Placed, Speakers, None, Workers
<1>4. HubUnfenced'
  BY DEF HubUnfenced
<1>5. Wired'
  <2>1. \A d \in Conns : ~wire'[d].host => wire'[d].up = <<>>
    BY DEF Wired
  <2>2. \A d \in Conns : wire'[d].host = wire[d].host /\ wire'[d].guest = wire[d].guest
    OBVIOUS
  <2> QED
    BY <2>1, <2>2 DEF Wired
<1>6. Sent'
  <2>1. \A d \in Conns : wire'[d].up = wire[d].up
    OBVIOUS
  <2>2. \A w \in Speakers : work[w].pc # "idle" => work[w].conn \in Conns
    BY DEF Roles, Speakers, Workers
  <2> HIDE <1>g, <1>c, <1>ty, <1>wire, <1>nil, <1>down, <1>up, <1>guest, <1>past
  <2> QED
    BY <2>1, <2>2 DEF Sent, OnlyAsks
<1>7. Stand'
  BY DEF Stand, AtEnroll, AtReconnect, None, Workers
<1>8. Told'
  BY DEF Told, None
<1>9. Voice'
  <2>1. \A id, tag \in Nat : Mine(id, tag) => Mine(id, tag)'
    BY DEF Mine
  <2>2. /\ \A a \in asks : a.id \in Nat /\ a.tag \in Nat
        /\ \A x \in Frames : x.n \in Nat /\ x.m \in Nat
    BY DEF TypeOK, Requests, Frames
  <2>3. /\ \A a \in asks : a.conn = c => Mine(a.id, a.tag)
        /\ \A x \in In(wire[c].up) : x.k = "ask" => Mine(x.n, x.m)
        /\ \A x \in In(wire[c].down) : x.k = "answer" => Mine(x.n, x.m)
    BY DEF Voice
  <2>4. guest'.conn = c /\ asks' = asks
    OBVIOUS
  <2>5. In(wire[c].up) \subseteq Frames /\ In(wire[c].down) \subseteq Frames
    BY InFrames
  <2>6. ASSUME NEW x \in In(wire'[c].up), x.k = "ask"
        PROVE  Mine(x.n, x.m)'
    BY <2>1, <2>2, <2>3, <2>5, <2>6
  <2>7. \A a \in asks : a.conn = c => Mine(a.id, a.tag)'
    BY <2>1, <2>2, <2>3
  <2>8. \A x \in In(wire'[c].down) : x.k = "answer" => Mine(x.n, x.m)'
    BY <2>1, <2>2, <2>3, <2>5
  <2> QED
    BY <2>4, <2>6, <2>7, <2>8 DEF Voice, Mine
<1>10. Forwarded'
  BY DEF Forwarded
<1>11. Kept'
  <2> USE DEF Kept, Vouched, Issued, None, Workers
  <2>1. KeptGuest'
    BY DEF KeptGuest
  <2>2. KeptEnrolling'
    BY DEF KeptEnrolling
  <2>3. KeptAccepted'
    BY DEF KeptAccepted
  <2>4. KeptSecrets'
    BY DEF KeptSecrets
  <2>5. KeptReconnect'
    BY DEF KeptReconnect
  <2> QED
    BY <2>1, <2>2, <2>3, <2>4, <2>5
<1> QED
  BY <1>1, <1>2, <1>3, <1>4, <1>5, <1>6, <1>7, <1>8, <1>9, <1>10, <1>11


\* An answer the guest takes is that of the question it waits on.
LEMMA RightAnswer ==
    ASSUME IInv, GuestAnswered
    PROVE  past'.wrong = past.wrong
<1> USE DEF IInv
<1>1. PICK c \in Conns : c = guest.conn
  BY Shapes DEF GuestAnswered, Waiting
<1>2. wire[c].down \in Seq(Frames) /\ wire[c].down # <<>> /\ guest.conn # None
  BY <1>1, Shapes DEF GuestAnswered, Waiting
<1>3. Msg \in In(wire[c].down)
  BY <1>1, <1>2, InTail DEF Msg
<1>4. Msg.k = "answer" => Mine(Msg.n, Msg.m)
  BY <1>1, <1>2, <1>3 DEF Voice
<1>5. ~(Msg.k = "answer" /\ guest.ask # 0 /\ Msg.n = guest.seq /\ Msg.m # guest.ask)
  BY <1>4 DEF Mine
<1>6. past \in [tag : Nat, wrong : BOOLEAN, fenced : SUBSET Conns, remint : BOOLEAN]
  BY DEF TypeOK
<1>7. past' = [past EXCEPT !.wrong = past.wrong \/ (Msg.k = "answer" /\ guest.ask # 0 /\ Msg.n = guest.seq /\ Msg.m # guest.ask)]
  BY DEF GuestAnswered
<1>8. past' = [past EXCEPT !.wrong = past.wrong]
  BY <1>5, <1>6, <1>7
<1> QED
  BY <1>6, <1>8


\* An answer goes down the stream of the hub it was asked on, under the guest's own number, or nowhere.
LEMMA AnswerGoesHome ==
    ASSUME IInv, NEW a, ForwardAnswer(a), wire' # wire
    PROVE  entry.hub = a.conn /\ wire' = Down(a.conn, <<F("answer", a.id, a.tag)>>)
<1> USE DEF IInv
<1>1. link = a.link /\ \E f \in fwd.pending : f.n = a.n
  BY DEF ForwardAnswer
<1>2. PICK f : f = CHOOSE g \in fwd.pending : g.n = a.n
  OBVIOUS
<1>3. f \in fwd.pending /\ f.n = a.n
  BY <1>1, <1>2
<1>4. wire' = IF entry.hub = f.hub /\ entry.boot = f.boot /\ entry.gen = f.gen /\ link = f.link
              THEN Down(f.hub, <<F("answer", f.id, a.tag)>>) ELSE wire
  BY <1>1, <1>2, Zenon DEF ForwardAnswer
<1>5. a \in asks /\ a.at # "hub"
  BY DEF ForwardAnswer
<1>6. f.id = a.id /\ f.hub = a.conn
  BY <1>1, <1>3, <1>5 DEF Forwarded
<1> QED
  BY <1>4, <1>6

\* An answer is handed to the hub that asked.
LEMMA ForwardAnswerStep ==
    ASSUME IInv, NEW a, ForwardAnswer(a)
    PROVE  IInv'
<1> USE DEF IInv
<1>same. /\ store' = store /\ link' = link /\ entry' = entry /\ chan' = chan /\ guest' = guest /\ work' = work
         /\ late' = late /\ past' = past
  BY DEF ForwardAnswer
<1> USE DEF Shaped
<1>sh. Shaped
  BY Shapes
<1>a. a \in asks /\ a \in Requests /\ a.conn \in Conns /\ a.id \in Nat /\ a.tag \in Nat
  BY DEF ForwardAnswer, TypeOK, Requests
<1>c. PICK c \in Conns : c = a.conn
  BY <1>a
<1>ty. wire \in [Conns -> Streams] /\ wire[c].up \in Seq(Frames) /\ wire[c].down \in Seq(Frames)
  BY DEF TypeOK, Streams
<1>asks. asks' \subseteq asks
  BY DEF ForwardAnswer
<1>f1. fwd \in [seq : Nat, pending : SUBSET Forwards]
  BY DEF TypeOK
<1>f2. fwd' = fwd \/ fwd' = [fwd EXCEPT !.pending = {f \in @ : f.n # a.n}]
  BY DEF ForwardAnswer
<1>fwd. /\ fwd' \in [seq : Nat, pending : SUBSET Forwards] /\ fwd'.seq = fwd.seq
        /\ fwd'.pending \subseteq fwd.pending
  BY <1>f1, <1>f2
<1>h. PICK h \in Frames : h = F("answer", a.id, a.tag)
  BY <1>a DEF Frames, F
<1>hk. h.k = "answer" /\ h.n = a.id /\ h.m = a.tag
  BY <1>h DEF F
<1>s. PICK s \in Seq(Frames) : s = <<h>>
  BY <1>h, FrameSeq
<1>sd. s \in Seq(Frames)
  BY <1>s
<1>sq. In(s) = {h}
  BY <1>s, InFew
<1>w1. wire' = wire \/ (entry.hub = c /\ wire' = Down(c, s))
  BY <1>c, <1>h, <1>s, AnswerGoesHome
<1>wire. /\ wire' \in [Conns -> Streams]
         /\ \A d \in Conns : /\ wire'[d].host = wire[d].host /\ wire'[d].guest = wire[d].guest
                             /\ wire'[d].up = wire[d].up
                             /\ (d # c => wire'[d] = wire[d])
  <2>1. CASE wire' = wire
    BY <1>ty, <2>1
  <2>2. CASE wire' = Down(c, s)
    BY <1>c, <1>ty, <1>sd, <2>2, DownEffect
  <2> QED
    BY <1>w1, <2>1, <2>2
<1>down. /\ In(wire'[c].down) \subseteq In(wire[c].down) \cup {h}
  <2>1. In(wire[c].down \o s) = In(wire[c].down) \cup In(s)
    BY <1>ty, <1>sd, InJoin
  <2>2. Down(c, s)[c].down = wire[c].down \o s \/ Down(c, s) = wire
    BY <1>c, <1>ty, <1>sd, DownEffect
  <2> QED
    BY <2>1, <2>2, <1>w1, <1>sq
<1>alone. wire' # wire => entry.hub = c
  BY <1>w1
<1>serves. guest.conn = c => guest.pc = "serving"
  BY <1>sh, <1>a, <1>c DEF Told
<1>mine. guest.conn = c => Mine(h.n, h.m)
  BY <1>sh, <1>a, <1>c, <1>hk DEF Voice
<1> USE <1>same, <1>sh, <1>a, <1>c, <1>ty, <1>asks, <1>fwd, <1>hk, <1>wire, <1>down, <1>alone, <1>serves, <1>mine
<1>1. TypeOK'
  BY DEF TypeOK
<1>2. Roles'
  BY DEF Roles, Speakers, None, Workers
<1>3. Placed'
  BY DEF Placed, Speakers, None, Workers
<1>4. HubUnfenced'
  BY DEF HubUnfenced
<1>5. Wired'
  BY DEF Wired, Speakers, None, Workers
<1>6. Sent'
  <2>1. \A d \in Conns : wire'[d].up = wire[d].up
    OBVIOUS
  <2>2. \A w \in Speakers : work[w].pc # "idle" => work[w].conn \in Conns
    BY DEF Roles, Speakers, Workers
  <2> HIDE <1>a, <1>c, <1>ty, <1>asks, <1>fwd, <1>hk, <1>wire, <1>down, <1>alone, <1>serves, <1>mine
  <2> QED
    BY <2>1, <2>2 DEF Sent, OnlyAsks
<1>7. Stand'
  <2>1. CASE wire' = wire
    BY <2>1 DEF Stand, AtEnroll, AtReconnect
  <2>2. CASE wire' # wire
    <3>1. entry.hub = c /\ work.enroll.conn # c /\ work.reconnect.conn # c
      BY <2>2 DEF Wired, Speakers
    <3>2. guest.conn # None => guest.conn = c \/ wire'[guest.conn] = wire[guest.conn]
      OBVIOUS
    <3> QED
      BY <3>1, <3>2 DEF Stand, AtEnroll, AtReconnect
  <2> QED
    BY <2>1, <2>2
<1>8. Told'
  <2>1. CASE guest.conn = c
    BY <2>1 DEF Told
  <2>2. CASE guest.conn # c
    <3>1. guest.conn # None => wire'[guest.conn] = wire[guest.conn]
      BY <2>2
    <3> QED
      BY <2>2, <3>1 DEF Told
  <2> QED
    BY <2>1, <2>2
<1>9. Voice'
  <2>1. CASE guest.conn = c
    <3>1. c # None
      OBVIOUS
    <3> QED
      BY <2>1, <3>1 DEF Voice, Mine
  <2>2. CASE guest.conn # c
    <3>1. guest.conn # None => wire'[guest.conn] = wire[guest.conn]
      BY <2>2
    <3> QED
      BY <2>2, <3>1 DEF Voice, Mine
  <2> QED
    BY <2>1, <2>2
<1>10. Forwarded'
  BY DEF Forwarded
<1>11. Kept'
  <2>1. guest.conn # None => wire'[guest.conn] = wire[guest.conn] \/ guest.pc = "serving"
    OBVIOUS
  <2> QED
    BY <2>1 DEF Kept, KeptGuest, KeptEnrolling, KeptAccepted, KeptSecrets, KeptReconnect, Vouched, Issued
<1> QED
  BY <1>1, <1>2, <1>3, <1>4, <1>5, <1>6, <1>7, <1>8, <1>9, <1>10, <1>11


--------------------
\* The guest dials

\* The channel refuses the guest.
LEMMA RefuseStep ==
    ASSUME IInv, NEW c \in Conns \ Held, guest.up, guest.pc \in {"boot", "idle"},
           guest' = [guest EXCEPT !.conn = c, !.pc = IF guest.id = "none" THEN "config" ELSE "challenge"],
           UNCHANGED <<store, link, entry, late, asks, fwd, past>>,
           Refuse(c), UNCHANGED <<chan, work>>, chan.served
    PROVE  IInv'
<1> USE DEF IInv
<1>same. /\ store' = store /\ link' = link /\ entry' = entry /\ chan' = chan /\ work' = work /\ late' = late
         /\ asks' = asks /\ fwd' = fwd /\ past' = past
  BY DEF Refuse
<1>sh. /\ \A d \in Conns : d # None
       /\ guest.conn # None => guest.conn \in Conns
       /\ entry.hub # None => entry.hub \in Conns
       /\ \A x \in Workers : work[x].conn # None => work[x].conn \in Conns
  BY Shapes
<1>g. /\ guest.up /\ guest.conn = None /\ guest.pc \in {"boot", "idle"} /\ guest \in Guests
      /\ guest.vm \in Nat \ {0} /\ guest.epoch \in Nat
  BY DEF Told, TypeOK, Guests
<1>free. /\ guest.conn # c /\ entry.hub # c
         /\ \A w \in Workers : work[w].conn # c
         /\ \A a \in asks : a.conn # c
  BY DEF Held
<1>pc. PICK p \in {"config", "challenge"} : p = IF guest.id = "none" THEN "config" ELSE "challenge"
  OBVIOUS
<1>id. /\ p = "config" => guest.id = "none"
       /\ guest.id # "enrolled" => p = "config" /\ guest.epoch = 0
  BY <1>g, <1>pc DEF Kept, KeptGuest, Guests
<1>ty. wire \in [Conns -> Streams] /\ <<>> \in Seq(Frames) /\ chan \in Channels
  BY EmptySeq DEF TypeOK
<1>nil. In(<<>>) = {} /\ Len(<<>>) = 0
  BY InFew, EmptySeq
<1>st1. PICK s : s = [Closed EXCEPT !.guest = TRUE]
  OBVIOUS
<1>st. s \in Streams /\ ~s.host /\ s.guest /\ s.down = <<>> /\ s.up = <<>>
  BY <1>ty, <1>st1 DEF Closed, Streams
<1>wire1. wire' = [wire EXCEPT ![c] = s]
  BY <1>st1 DEF Refuse
<1>wire. /\ wire' \in [Conns -> Streams] /\ wire'[c] = s
         /\ \A d \in Conns : d # c => wire'[d] = wire[d]
  BY <1>ty, <1>st, <1>wire1
<1>guest1. guest \in Guests
  BY DEF TypeOK
<1>guest2. guest' = [guest EXCEPT !.conn = c, !.pc = p]
  BY <1>pc
<1>guest. /\ guest'.vm = guest.vm /\ guest'.up = guest.up /\ guest'.id = guest.id /\ guest'.epoch = guest.epoch
          /\ guest'.token = guest.token /\ guest'.next = guest.next /\ guest'.env = guest.env /\ guest'.pc = p
          /\ guest'.conn = c /\ guest'.seq = guest.seq /\ guest'.ask = guest.ask /\ guest' \in Guests
  BY <1>g, <1>pc, <1>guest1, <1>guest2 DEF Guests, Sockets, None
<1> USE <1>same, <1>sh, <1>g, <1>free, <1>pc, <1>id, <1>ty, <1>nil, <1>st, <1>wire, <1>guest
<1>1. TypeOK'
  BY DEF TypeOK
<1>2. Roles'
  BY DEF Roles, Speakers, None, Workers
<1>3. Placed'
  BY DEF Placed, Speakers, None, Workers
<1>4. HubUnfenced'
  BY DEF HubUnfenced
<1>5. Wired'
  <2>1. \A d \in Conns : wire[d].guest = FALSE
    BY DEF Wired, Streams
  <2> QED
    BY <2>1 DEF Wired, Speakers, Workers
<1>6. Sent'
  <2>1. \A w \in Speakers : work[w].pc # "idle" => work[w].conn \in Conns /\ work[w].conn # c
    BY DEF Roles, Speakers, Workers
  <2>2. \A d \in Conns : d # c => wire'[d] = wire[d]
    OBVIOUS
  <2> HIDE <1>g, <1>pc, <1>id, <1>ty, <1>guest
  <2> QED
    BY <2>1, <2>2 DEF Sent, OnlyAsks, Calling
<1>7. Stand'
  BY DEF Stand, AtEnroll, AtReconnect, None, Workers
<1>8. Told'
  BY DEF Told, None
<1>9. Voice'
  BY DEF Voice, Mine, None
<1>10. Forwarded'
  BY DEF Forwarded
<1>11. Kept'
  <2> USE DEF Kept, Vouched, Issued, None, Workers
  <2>1. KeptGuest'
    BY DEF KeptGuest
  <2>2. KeptEnrolling'
    BY DEF KeptEnrolling
  <2>3. KeptAccepted'
    BY DEF KeptAccepted
  <2>4. KeptSecrets'
    BY DEF KeptSecrets
  <2>5. KeptReconnect'
    BY DEF KeptReconnect
  <2> QED
    BY <2>1, <2>2, <2>3, <2>4, <2>5
<1> QED
  BY <1>1, <1>2, <1>3, <1>4, <1>5, <1>6, <1>7, <1>8, <1>9, <1>10, <1>11

\* The boot's one delivery: the guest is configured, and its enrolment awaited.
LEMMA ServeGuestStep ==
    ASSUME IInv, NEW c \in Conns \ Held, guest.up, guest.pc \in {"boot", "idle"},
           guest' = [guest EXCEPT !.conn = c, !.pc = IF guest.id = "none" THEN "config" ELSE "challenge"],
           UNCHANGED <<store, link, entry, late, asks, fwd, past>>,
           ServeGuest(c), ~chan.served
    PROVE  IInv'
<1> USE DEF IInv
<1>same. /\ store' = store /\ link' = link /\ entry' = entry /\ late' = late /\ asks' = asks /\ fwd' = fwd
         /\ past' = past
  BY DEF ServeGuest
<1>sh. /\ \A d \in Conns : d # None
       /\ guest.conn # None => guest.conn \in Conns
       /\ entry.hub # None => entry.hub \in Conns
       /\ \A x \in Workers : work[x].conn # None => work[x].conn \in Conns
  BY Shapes
<1>g. /\ guest.up /\ guest.conn = None /\ guest.pc \in {"boot", "idle"} /\ guest \in Guests
      /\ guest.vm \in Nat \ {0} /\ guest.epoch \in Nat
  BY DEF Told, TypeOK, Guests
<1>free. /\ guest.conn # c /\ entry.hub # c
         /\ \A w \in Workers : work[w].conn # c
         /\ \A a \in asks : a.conn # c
  BY DEF Held
<1>pc. PICK p \in {"config", "challenge"} : p = IF guest.id = "none" THEN "config" ELSE "challenge"
  OBVIOUS
<1>id. /\ p = "config" => guest.id = "none"
       /\ guest.id # "enrolled" => p = "config" /\ guest.epoch = 0
  BY <1>g, <1>pc DEF Kept, KeptGuest, Guests
<1>ty. wire \in [Conns -> Streams] /\ <<>> \in Seq(Frames) /\ chan \in Channels
  BY EmptySeq DEF TypeOK
<1>nil. In(<<>>) = {} /\ Len(<<>>) = 0
  BY InFew, EmptySeq
<1>idle. work.enroll.conn = None
  BY DEF ServeGuest, Roles, Speakers
<1>fresh. guest.id = "none" /\ p = "config" /\ entry.state = "running"
  BY <1>g, <1>pc DEF Placed
<1>nums. chan.token \in Nat /\ entry.boot \in Nat
  BY <1>ty DEF Channels, TypeOK, Entries
<1>f. PICK f \in Frames : f = F("config", chan.token, 0)
  BY <1>nums DEF Frames, F
<1>fk. f.k = "config"
  BY <1>f DEF F
<1>q. PICK q \in Seq(Frames) : q = <<f>>
  BY <1>f, FrameSeq
<1>qd. q \in Seq(Frames) /\ In(q) = {f} /\ Len(q) = 1
  BY <1>q, InFew
<1>st1. PICK s : s = [Closed EXCEPT !.host = TRUE, !.guest = TRUE, !.down = q]
  OBVIOUS
<1>st. s \in Streams /\ s.host /\ s.guest /\ s.down = q /\ s.up = <<>>
  BY <1>ty, <1>qd, <1>st1 DEF Closed, Streams
<1>wire1. wire' = [wire EXCEPT ![c] = s]
  BY <1>st1, <1>q, <1>f DEF ServeGuest
<1>wire. /\ wire' \in [Conns -> Streams] /\ wire'[c] = s
         /\ \A d \in Conns : d # c => wire'[d] = wire[d]
  BY <1>ty, <1>st, <1>wire1
<1>j1. PICK j : j = [NoWork EXCEPT !.pc = "wait", !.conn = c, !.boot = entry.boot]
  OBVIOUS
<1>j. j \in Jobs /\ j.pc = "wait" /\ j.conn = c /\ j.gen = 0 /\ j.call = "none"
  BY <1>nums, <1>j1 DEF NoWork, Jobs, Stages, Sockets, None
<1>wk. "enroll" \in Workers /\ work \in [Workers -> Jobs]
  BY DEF Workers, TypeOK
<1>wk1. work' = [work EXCEPT !["enroll"] = j]
  BY <1>j1 DEF ServeGuest
<1>work. /\ work' \in [Workers -> Jobs] /\ work'["enroll"] = j
         /\ \A x \in Workers : x # "enroll" => work'[x] = work[x]
  BY <1>wk, <1>wk1, <1>j
<1>others. work'.reconnect = work.reconnect /\ work.reconnect.conn # c /\ entry.gen \in Nat \ {0}
  BY <1>work, <1>free DEF Workers, TypeOK, Entries
<1>guest1. guest \in Guests
  BY DEF TypeOK
<1>guest2. guest' = [guest EXCEPT !.conn = c, !.pc = p]
  BY <1>pc
<1>guest. /\ guest'.vm = guest.vm /\ guest'.up = guest.up /\ guest'.id = guest.id /\ guest'.epoch = guest.epoch
          /\ guest'.token = guest.token /\ guest'.next = guest.next /\ guest'.env = guest.env /\ guest'.pc = p
          /\ guest'.conn = c /\ guest'.seq = guest.seq /\ guest'.ask = guest.ask /\ guest' \in Guests
  BY <1>g, <1>pc, <1>guest1, <1>guest2 DEF Guests, Sockets, None
<1>chan1. chan \in Channels
  BY DEF TypeOK
<1>chan2. chan' = [chan EXCEPT !.served = TRUE]
  BY DEF ServeGuest
<1>chan. /\ chan'.vm = chan.vm /\ chan'.open = chan.open /\ chan'.served = TRUE /\ chan'.pending = chan.pending
         /\ chan'.token = chan.token /\ chan' \in Channels
  BY <1>chan1, <1>chan2 DEF Channels, Sockets, None
<1>now. guest'.conn = c /\ guest'.pc = "config" /\ wire'[c].up = <<>> /\ Len(wire'[c].down) <= 1
  BY <1>fresh, <1>guest, <1>wire, <1>st, <1>qd
<1> USE <1>now, <1>same, <1>sh, <1>g, <1>free, <1>pc, <1>id, <1>ty, <1>nil, <1>idle, <1>fresh, <1>nums, <1>fk, <1>qd, <1>st, <1>wire,
        <1>j, <1>work, <1>others, <1>guest, <1>chan
<1>1. TypeOK'
  BY DEF TypeOK, Workers, Calling
<1>2. Roles'
  BY DEF Roles, Speakers, None, Workers
<1>3. Placed'
  BY DEF Placed, Speakers, None, Workers
<1>4. HubUnfenced'
  BY DEF HubUnfenced
<1>5. Wired'
  <2>1. \A d \in Conns : wire[d].guest = FALSE
    BY DEF Wired, Streams
  <2>2. \A d \in Conns : wire'[d].guest => d = c
    BY <2>1
  <2>3. \A d \in Conns : ~wire'[d].host => wire'[d].up = <<>>
    BY DEF Wired
  <2>4. ASSUME NEW d \in Conns, wire'[d].host
        PROVE  d = entry.hub \/ work'.enroll.conn = d \/ work'.reconnect.conn = d
    <3>1. CASE d = c
      BY <3>1
    <3>2. CASE d # c
      <4>1. wire[d].host /\ d # None
        BY <2>4, <3>2
      <4>2. d = entry.hub \/ work.enroll.conn = d \/ work.reconnect.conn = d
        BY <4>1 DEF Wired, Speakers
      <4> QED
        BY <4>1, <4>2
    <3> QED
      BY <3>1, <3>2
  <2>5. \A d \in Conns : wire'[d].host => d = entry.hub \/ \E w \in Speakers : work'[w].conn = d
    BY <2>4 DEF Speakers
  <2>6. work'.enroll.conn # None => work'.enroll.conn # work'.reconnect.conn
    OBVIOUS
  <2>7. entry.hub # None => \A w \in Speakers : work'[w].conn # entry.hub
    <3>1. entry.hub # None => work.reconnect.conn # entry.hub
      BY DEF Wired, Speakers
    <3> QED
      BY <3>1 DEF Speakers
  <2> QED
    BY <2>2, <2>3, <2>5, <2>6, <2>7 DEF Wired
<1>6. Sent'
  <2>1. entry.hub # None => OnlyAsks(entry.hub)'
    BY DEF Sent, OnlyAsks
  <2>2. ASSUME NEW w \in Speakers, work'[w].pc # "idle"
        PROVE  LET up == wire'[work'[w].conn].up IN
               /\ work'[w].pc \in Calling => up = <<>>
               /\ work'[w].pc = "install" => \A x \in In(up) : x.k = "ask"
               /\ work'[w].pc \notin Calling \cup {"install"} => Len(up) <= 1
    <3>1. CASE w = "enroll"
      BY <3>1 DEF Calling
    <3>2. CASE w # "enroll"
      <4>1. work'[w] = work[w] /\ work[w].conn \in Conns /\ work[w].conn # c
        BY <2>2, <3>2 DEF Roles, Speakers, Workers
      <4>2. wire'[work[w].conn] = wire[work[w].conn]
        BY <4>1
      <4> QED
        BY <2>2, <4>1, <4>2 DEF Sent, OnlyAsks
    <3> QED
      BY <3>1, <3>2
  <2> HIDE <1>now, <1>sh, <1>g, <1>free, <1>pc, <1>id, <1>ty, <1>nil, <1>idle, <1>fresh, <1>nums, <1>fk, <1>qd, <1>st,
          <1>wire, <1>j, <1>work, <1>others, <1>guest, <1>chan
  <2> QED
    BY <2>1, <2>2 DEF Sent, OnlyAsks
<1>7. Stand'
  <2>1. work'.enroll.pc = "wait" /\ work'.reconnect.conn # c /\ entry'.hub # c
    OBVIOUS
  <2> QED
    BY <2>1 DEF Stand, AtEnroll
<1>8. Told'
  BY DEF Told
<1>9. Voice'
  BY DEF Voice, Mine, None
<1>10. Forwarded'
  BY DEF Forwarded
<1>11. Kept'
  <2> USE DEF Kept, Vouched, Issued, None, Workers
  <2>1. KeptGuest'
    BY DEF KeptGuest
  <2>2. KeptEnrolling'
    BY DEF KeptEnrolling
  <2>3. KeptAccepted'
    BY DEF KeptAccepted
  <2>4. KeptSecrets'
    BY DEF KeptSecrets
  <2>5. KeptReconnect'
    BY DEF KeptReconnect
  <2> QED
    BY <2>1, <2>2, <2>3, <2>4, <2>5
<1> QED
  BY <1>1, <1>2, <1>3, <1>4, <1>5, <1>6, <1>7, <1>8, <1>9, <1>10, <1>11

\* A guest that comes back is leased its stream, and an attempt asked for.
LEMMA ServeReconnectingGuestStep ==
    ASSUME IInv, NEW c \in Conns \ Held, guest.up, guest.pc \in {"boot", "idle"},
           guest' = [guest EXCEPT !.conn = c, !.pc = IF guest.id = "none" THEN "config" ELSE "challenge"],
           UNCHANGED <<store, link, entry, late, asks, fwd, past>>,
           ServeReconnectingGuest(c), chan.served, work.reconnect.pc = "idle"
    PROVE  IInv'
<1> USE DEF IInv
<1>same. /\ store' = store /\ link' = link /\ entry' = entry /\ late' = late /\ asks' = asks /\ fwd' = fwd
         /\ past' = past
  BY DEF ServeReconnectingGuest
<1>sh. /\ \A d \in Conns : d # None
       /\ guest.conn # None => guest.conn \in Conns
       /\ entry.hub # None => entry.hub \in Conns
       /\ \A x \in Workers : work[x].conn # None => work[x].conn \in Conns
  BY Shapes
<1>g. /\ guest.up /\ guest.conn = None /\ guest.pc \in {"boot", "idle"} /\ guest \in Guests
      /\ guest.vm \in Nat \ {0} /\ guest.epoch \in Nat
  BY DEF Told, TypeOK, Guests
<1>free. /\ guest.conn # c /\ entry.hub # c
         /\ \A w \in Workers : work[w].conn # c
         /\ \A a \in asks : a.conn # c
  BY DEF Held
<1>pc. PICK p \in {"config", "challenge"} : p = IF guest.id = "none" THEN "config" ELSE "challenge"
  OBVIOUS
<1>id. /\ p = "config" => guest.id = "none"
       /\ guest.id # "enrolled" => p = "config" /\ guest.epoch = 0
  BY <1>g, <1>pc DEF Kept, KeptGuest, Guests
<1>ty. wire \in [Conns -> Streams] /\ <<>> \in Seq(Frames) /\ chan \in Channels
  BY EmptySeq DEF TypeOK
<1>nil. In(<<>>) = {} /\ Len(<<>>) = 0
  BY InFew, EmptySeq
<1>idle. work.reconnect.conn = None
  BY DEF Roles, Speakers
<1>fresh. entry.state = "running" /\ chan.served
  BY <1>g DEF Placed
<1>nums. entry.boot \in Nat /\ entry.gen \in Nat \ {0} /\ link \in Nat /\ entry.hub \in Sockets
  BY DEF TypeOK, Entries
<1>st1. PICK s : s = [Closed EXCEPT !.host = TRUE, !.guest = TRUE]
  OBVIOUS
<1>st. s \in Streams /\ s.host /\ s.guest /\ s.down = <<>> /\ s.up = <<>>
  BY <1>ty, <1>st1 DEF Closed, Streams
<1>wire1. wire' = [wire EXCEPT ![c] = s]
  BY <1>st1 DEF ServeReconnectingGuest
<1>wire. /\ wire' \in [Conns -> Streams] /\ wire'[c] = s
         /\ \A d \in Conns : d # c => wire'[d] = wire[d]
  BY <1>ty, <1>st, <1>wire1
<1>j1. PICK j : j = [Lease(c) EXCEPT !.pc = "begin", !.call = "sent"]
  OBVIOUS
<1>j. j \in Jobs /\ j.pc = "begin" /\ j.conn = c /\ j.gen = entry.gen /\ j.call = "sent"
  BY <1>nums, <1>j1 DEF Lease, NoWork, Jobs, Stages, Sockets, None
<1>wk. "reconnect" \in Workers /\ work \in [Workers -> Jobs]
  BY DEF Workers, TypeOK
<1>wk1. work' = [work EXCEPT !["reconnect"] = j]
  BY <1>j1 DEF ServeReconnectingGuest
<1>work. /\ work' \in [Workers -> Jobs] /\ work'["reconnect"] = j
         /\ \A x \in Workers : x # "reconnect" => work'[x] = work[x]
  BY <1>wk, <1>wk1, <1>j
<1>others. work'.enroll = work.enroll /\ work.enroll.conn # c
  BY <1>work, <1>free DEF Workers
<1>guest1. guest \in Guests
  BY DEF TypeOK
<1>guest2. guest' = [guest EXCEPT !.conn = c, !.pc = p]
  BY <1>pc
<1>guest. /\ guest'.vm = guest.vm /\ guest'.up = guest.up /\ guest'.id = guest.id /\ guest'.epoch = guest.epoch
          /\ guest'.token = guest.token /\ guest'.next = guest.next /\ guest'.env = guest.env /\ guest'.pc = p
          /\ guest'.conn = c /\ guest'.seq = guest.seq /\ guest'.ask = guest.ask /\ guest' \in Guests
  BY <1>g, <1>pc, <1>guest1, <1>guest2 DEF Guests, Sockets, None
<1>chan1. chan \in Channels
  BY DEF TypeOK
<1>chan2. chan' = [chan EXCEPT !.pending = TRUE]
  BY DEF ServeReconnectingGuest
<1>chan. /\ chan'.vm = chan.vm /\ chan'.open = chan.open /\ chan'.served = chan.served /\ chan'.pending = TRUE
         /\ chan'.token = chan.token /\ chan' \in Channels
  BY <1>chan1, <1>chan2 DEF Channels, Sockets, None
<1> USE <1>same, <1>sh, <1>g, <1>free, <1>pc, <1>id, <1>ty, <1>nil, <1>idle, <1>fresh, <1>nums, <1>st, <1>wire, <1>j,
        <1>work, <1>others, <1>guest, <1>chan
<1>1. TypeOK'
  BY DEF TypeOK, Workers, Calling
<1>2. Roles'
  BY DEF Roles, Speakers, None, Workers
<1>3. Placed'
  BY DEF Placed, Speakers, None, Workers
<1>4. HubUnfenced'
  BY DEF HubUnfenced
<1>5. Wired'
  <2>1. \A d \in Conns : wire[d].guest = FALSE
    BY DEF Wired, Streams
  <2>2. \A d \in Conns : wire'[d].guest => d = c
    BY <2>1
  <2>3. \A d \in Conns : ~wire'[d].host => wire'[d].up = <<>>
    BY DEF Wired
  <2>4. ASSUME NEW d \in Conns, wire'[d].host
        PROVE  d = entry.hub \/ work'.enroll.conn = d \/ work'.reconnect.conn = d
    <3>1. CASE d = c
      BY <3>1
    <3>2. CASE d # c
      <4>1. wire[d].host /\ d # None
        BY <2>4, <3>2
      <4>2. d = entry.hub \/ work.enroll.conn = d \/ work.reconnect.conn = d
        BY <4>1 DEF Wired, Speakers
      <4> QED
        BY <4>1, <4>2
    <3> QED
      BY <3>1, <3>2
  <2>5. \A d \in Conns : wire'[d].host => d = entry.hub \/ \E w \in Speakers : work'[w].conn = d
    BY <2>4 DEF Speakers
  <2>6. work'.enroll.conn # None => work'.enroll.conn # work'.reconnect.conn
    OBVIOUS
  <2>7. entry.hub # None => \A w \in Speakers : work'[w].conn # entry.hub
    <3>1. entry.hub # None => work.enroll.conn # entry.hub
      BY DEF Wired, Speakers
    <3> QED
      BY <3>1 DEF Speakers
  <2> QED
    BY <2>2, <2>3, <2>5, <2>6, <2>7 DEF Wired
<1>6. Sent'
  <2>1. entry.hub # None => OnlyAsks(entry.hub)'
    BY DEF Sent, OnlyAsks
  <2>2. ASSUME NEW w \in Speakers, work'[w].pc # "idle"
        PROVE  LET up == wire'[work'[w].conn].up IN
               /\ work'[w].pc \in Calling => up = <<>>
               /\ work'[w].pc = "install" => \A x \in In(up) : x.k = "ask"
               /\ work'[w].pc \notin Calling \cup {"install"} => Len(up) <= 1
    <3>1. CASE w = "reconnect"
      BY <3>1 DEF Calling
    <3>2. CASE w # "reconnect"
      <4>1. work'[w] = work[w] /\ work[w].conn \in Conns /\ work[w].conn # c
        BY <2>2, <3>2 DEF Roles, Speakers, Workers
      <4>2. wire'[work[w].conn] = wire[work[w].conn]
        BY <4>1
      <4> QED
        BY <2>2, <4>1, <4>2 DEF Sent, OnlyAsks
    <3> QED
      BY <3>1, <3>2
  <2> HIDE <1>sh, <1>g, <1>free, <1>pc, <1>id, <1>ty, <1>nil, <1>idle, <1>fresh, <1>nums, <1>st, <1>wire, <1>j, <1>work,
          <1>others, <1>guest, <1>chan
  <2> QED
    BY <2>1, <2>2 DEF Sent, OnlyAsks
<1>7. Stand'
  BY DEF Stand, AtEnroll, AtReconnect, None, Workers
<1>8. Told'
  BY DEF Told, None
<1>9. Voice'
  BY DEF Voice, Mine, None
<1>10. Forwarded'
  BY DEF Forwarded
<1>11. Kept'
  <2> USE DEF Kept, Vouched, Issued, None, Workers
  <2>1. KeptGuest'
    BY DEF KeptGuest
  <2>2. KeptEnrolling'
    BY DEF KeptEnrolling
  <2>3. KeptAccepted'
    BY DEF KeptAccepted
  <2>4. KeptSecrets'
    BY DEF KeptSecrets
  <2>5. KeptReconnect'
    BY DEF KeptReconnect
  <2> QED
    BY <2>1, <2>2, <2>3, <2>4, <2>5
<1> QED
  BY <1>1, <1>2, <1>3, <1>4, <1>5, <1>6, <1>7, <1>8, <1>9, <1>10, <1>11


\* The guest dials, and the channel serves it, leases its stream or refuses it.
LEMMA DialStep ==
    ASSUME IInv, Dial
    PROVE  IInv'
<1>1. PICK c \in Conns \ Held :
        /\ guest' = [guest EXCEPT !.conn = c, !.pc = IF guest.id = "none" THEN "config" ELSE "challenge"]
        /\ IF chan.pending THEN Refuse(c)
           ELSE IF ~chan.served THEN ServeGuest(c)
           ELSE IF MayAcquire /\ work.reconnect.pc = "idle" THEN ServeReconnectingGuest(c) ELSE Refuse(c)
  BY DEF Dial
<1>2. guest.up /\ guest.pc \in {"boot", "idle"} /\ UNCHANGED <<store, link, entry, late, asks, fwd, past>>
  BY DEF Dial
<1>3. chan.pending => chan.served
  BY DEF IInv, Placed
<1>4. ASSUME Refuse(c), chan.served
      PROVE  IInv'
  BY <1>1, <1>2, <1>4, RefuseStep DEF Refuse
<1>5. ASSUME ServeGuest(c), ~chan.served
      PROVE  IInv'
  BY <1>1, <1>2, <1>5, ServeGuestStep
<1>6. ASSUME ServeReconnectingGuest(c), chan.served, work.reconnect.pc = "idle"
      PROVE  IInv'
  BY <1>1, <1>2, <1>6, ServeReconnectingGuestStep
<1> QED
  BY <1>1, <1>3, <1>4, <1>5, <1>6


--------------------
\* The invariant holds

\* It holds at first, of a session that boots and of one whose guest is served.
LEMMA InitInv ==
    ASSUME Init
    PROVE  IInv
<1>1. setup \in Setups /\ setup.served \in BOOLEAN /\ (setup.served => 1 \in Conns)
        /\ \A c \in Conns : c \in Nat \ {0}
  BY ReconnectAssumption DEF Init
<1>2. PICK b : b = setup.served
  OBVIOUS
<1>3. /\ Closed = [host |-> FALSE, guest |-> FALSE, down |-> <<>>, up |-> <<>>]
      /\ <<>> \in Seq(Frames) /\ Closed \in Streams /\ In(<<>>) = {} /\ Len(<<>>) = 0
  <2>1. <<>> \in Seq(Frames)
    BY EmptySeq
  <2> QED
    BY <2>1, InFew, EmptySeq DEF Closed, Streams
<1>4. PICK o : o = [Closed EXCEPT !.host = TRUE, !.guest = TRUE]
  OBVIOUS
<1>5. o \in Streams /\ o.up = <<>> /\ o.down = <<>> /\ o.host /\ o.guest
  BY <1>3, <1>4 DEF Streams
<1>6. wire = [c \in Conns |-> IF b /\ c = 1 THEN o ELSE Closed]
  BY <1>2, <1>4, Zenon DEF Init
<1>7. /\ wire \in [Conns -> Streams]
      /\ \A c \in Conns : wire[c].up = <<>> /\ wire[c].down = <<>>
      /\ \A c \in Conns : wire[c].host \/ wire[c].guest => b /\ c = 1
  BY <1>3, <1>5, <1>6
<1>8. /\ NoWork \in Jobs /\ NoWork.pc = "idle" /\ NoWork.conn = None /\ NoWork.gen = 0 /\ NoWork.call = "none"
      /\ work = [w \in Workers |-> NoWork]
  BY DEF NoWork, Jobs, Stages, Sockets, None, Init
<1>9. /\ guest \in Guests /\ guest.vm = 1 /\ guest.epoch = 0 /\ guest.up /\ guest.seq = 0 /\ guest.ask = 0
      /\ b => guest.pc = "serving" /\ guest.conn = 1 /\ guest.id = "enrolled" /\ guest.env = guest.token
      /\ ~b => guest.pc = "boot" /\ guest.conn = None /\ guest.id = "none"
  <2>1. PICK g : g = FreshGuest(1)
    OBVIOUS
  <2>2. g = [vm |-> 1, up |-> TRUE, id |-> "none", epoch |-> 0, token |-> 0, next |-> 0, env |-> 0, pc |-> "boot",
             conn |-> None, seq |-> 0, ask |-> 0]
    BY <2>1 DEF FreshGuest
  <2>3. CASE b
    <3>1. guest = [g EXCEPT !.id = "enrolled", !.token = 1, !.env = 1, !.pc = "serving", !.conn = 1]
      BY <1>2, <2>1, <2>3, Zenon DEF Init
    <3> QED
      BY <1>1, <1>2, <2>2, <2>3, <3>1 DEF Guests, Sockets, None
  <2>4. CASE ~b
    <3>1. guest = g
      BY <1>2, <2>1, <2>4, Zenon DEF Init
    <3> QED
      BY <2>2, <2>4, <3>1 DEF Guests, Sockets, None
  <2> QED
    BY <2>3, <2>4
<1>10. /\ store = [token |-> 1, consumed |-> b, minted |-> 1, gen |-> 1, place |-> 1, on |-> TRUE,
                   identity |-> IF b THEN 1 ELSE 0, attempt |-> 0, by |-> 0, tries |-> 0, epoch |-> 0,
                   runnerGen |-> 1, connected |-> TRUE, edited |-> FALSE]
       /\ entry = [boot |-> 1, gen |-> 1, state |-> "running", hub |-> IF b THEN 1 ELSE None, hubLink |-> 1,
                   epoch |-> 0, recovered |-> FALSE, boots |-> 1]
       /\ chan = [vm |-> 1, open |-> TRUE, served |-> b, pending |-> FALSE, token |-> 1]
  BY <1>2, Zenon DEF Init
<1>11. /\ store \in Rows /\ store.place = 1 /\ store.gen = 1 /\ store.runnerGen = 1 /\ store.epoch = 0
       /\ b => store.identity = 1
  BY <1>1, <1>2, <1>10 DEF Rows
<1>12. /\ entry \in Entries /\ entry.gen = 1 /\ entry.state = "running" /\ entry.epoch = 0
       /\ entry.hub = IF b THEN 1 ELSE None
  BY <1>1, <1>2, <1>10 DEF Entries, Sockets, None
<1>13. chan \in Channels /\ ~chan.pending /\ chan.served = b
  BY <1>1, <1>2, <1>10 DEF Channels
<1>14. /\ link = 1 /\ late = {} /\ asks = {} /\ fwd = [seq |-> 0, pending |-> {}]
       /\ past = [tag |-> 0, wrong |-> FALSE, fenced |-> {}, remint |-> FALSE]
  BY DEF Init
<1>15. TypeOK
  BY <1>7, <1>8, <1>9, <1>11, <1>12, <1>13, <1>14 DEF TypeOK
<1>16. Roles /\ HubUnfenced /\ Forwarded
  BY <1>8, <1>14 DEF Roles, HubUnfenced, Forwarded, Speakers, Workers
<1>17. Placed
  BY <1>8, <1>9, <1>11, <1>12, <1>13, <1>14 DEF Placed, Speakers, Workers
<1>18. Wired
  BY <1>1, <1>7, <1>8, <1>9, <1>12 DEF Wired, Speakers, Workers, None
<1>19. Sent
  <2>1. entry.hub # None => In(wire[entry.hub].up) = {}
    BY <1>1, <1>2, <1>3, <1>7, <1>12
  <2>2. \A w \in Speakers : work[w].pc = "idle"
    BY <1>8 DEF Speakers, Workers
  <2> QED
    BY <2>1, <2>2 DEF Sent, OnlyAsks
<1>20. Stand
  BY <1>8, <1>9, <1>12 DEF Stand, Workers, None
<1>21. Told /\ Voice
  BY <1>1, <1>2, <1>3, <1>7, <1>9, <1>14 DEF Told, Voice, None
<1>22. Kept
  BY <1>8, <1>9, <1>11, <1>12 DEF Kept, KeptGuest, KeptEnrolling, KeptAccepted, KeptSecrets, KeptReconnect,
     Vouched, Issued,
    Workers
<1> QED
  BY <1>15, <1>16, <1>17, <1>18, <1>19, <1>20, <1>21, <1>22 DEF IInv

\* A step that changes nothing keeps it.
LEMMA StutterStep ==
    ASSUME IInv, UNCHANGED vars
    PROVE  IInv'
BY DEF vars, IInv, TypeOK, Roles, Placed, HubUnfenced, Wired, Sent, OnlyAsks, Stand, AtEnroll, AtReconnect,
   Told, Voice, Mine,
   Forwarded, Kept, KeptGuest, KeptEnrolling, KeptAccepted, KeptSecrets, KeptReconnect, Vouched, Issued

\* A step of a worker keeps it.
LEMMA WorkersKeep ==
    ASSUME IInv, NEW w \in Workers, WorkerStep(w)
    PROVE  IInv'
<1>1. Serve(w) \/ GivesUp(w) => IInv'
  BY ServeStep, GivesUpStep
<1>2. EnrollAcquires \/ EnrollHeard \/ EnrollAnswered => IInv'
  BY EnrollAcquiresStep, EnrollHeardStep, EnrollAnsweredStep
<1>3. BeginAnswered \/ ProofHeard \/ Fence \/ Configured \/ RedeemHeard \/ FetchAnswered \/ ReadyHeard => IInv'
  BY BeginAnsweredStep, ProofHeardStep, FenceStep, ConfiguredStep, RedeemHeardStep, FetchAnsweredStep, ReadyHeardStep
<1>4. w \in Speakers /\ Install(w) => IInv'
  BY InstallStep
<1>5. ResumeCompletes \/ ResumeFails \/ RecoverBegins \/ Recovered => IInv'
  BY ResumeCompletesStep, ResumeFailsStep, RecoverBeginsStep, RecoveredStep
<1> QED
  BY <1>1, <1>2, <1>3, <1>4, <1>5 DEF WorkerStep, Speakers

\* A step of the guest keeps it.
LEMMA GuestKeeps ==
    ASSUME IInv, GuestStep
    PROVE  IInv'
<1>1. GuestFails \/ GuestRefuses => IInv'
  BY HangupStep DEF GuestFails, GuestRefuses
<1> QED
  BY <1>1, DialStep, EnrollSendsStep, EnrolledStep, ProveStep, AcceptStep, RedeemStep, RefreshStep, AcknowledgedStep,
     GuestAnsweredStep DEF GuestStep

\* Every step keeps it.
LEMMA NextInv ==
    ASSUME IInv, [Next]_vars
    PROVE  IInv'
<1>1. (\E w \in Workers : WorkerStep(w)) \/ GuestStep => IInv'
  BY WorkersKeep, GuestKeeps
<1>2. AskStep \/ HubDies \/ LinkUp => IInv'
  BY HubReadsStep, SendOwnedStep, AskAnsweredStep, ForwardAnswerStep, HubDiesStep, LinkUpStep DEF AskStep
<1>3. Faults => IInv'
  BY ServeLateStep, ExpireStep, EditStep, LinkLostStep, DisconnectedStep, RestartStep, SuspendStep, ResumeStep,
     GuestAsksStep,
     BreakStep DEF Faults
<1> QED
  BY <1>1, <1>2, <1>3, StutterStep DEF Next

\* The guest's questions and the history of its answers change in few steps.
LEMMA WorkersSilent ==
    ASSUME NEW w \in Workers, WorkerStep(w), past \in [tag : Nat, wrong : BOOLEAN, fenced : SUBSET Conns, remint : BOOLEAN]
    PROVE  asks' = asks /\ past'.wrong = past.wrong
<1>1. asks' = asks
  BY DEF WorkerStep, Serve, GivesUp, EnrollAcquires, EnrollHeard, EnrollAnswered, BeginAnswered, ProofHeard,
     Fence, Configured,
    RedeemHeard, FetchAnswered, ReadyHeard, Install, ResumeCompletes, ResumeFails, RecoverBegins, Recovered
<1>2. past' = past \/ (\E s : past' = [past EXCEPT !.fenced = s])
  <2>1. Serve(w) \/ GivesUp(w) => past' = past
    BY DEF Serve, GivesUp, Fail
  <2>2. EnrollAcquires \/ EnrollHeard \/ EnrollAnswered => past' = past
    BY DEF EnrollAcquires, EnrollHeard, EnrollAnswered, Fail
  <2>3. BeginAnswered \/ ProofHeard \/ Configured \/ RedeemHeard \/ FetchAnswered \/ ReadyHeard => past' = past
    BY DEF BeginAnswered, ProofHeard, Configured, RedeemHeard, FetchAnswered, ReadyHeard
  <2>4. Fence => \E s : past' = [past EXCEPT !.fenced = s]
    BY Zenon DEF Fence
  <2>5. Install(w) => past' = past \/ (\E s : past' = [past EXCEPT !.fenced = s])
    BY Zenon DEF Install, Fail
  <2>6. ResumeCompletes \/ ResumeFails \/ RecoverBegins \/ Recovered => past' = past
    BY DEF ResumeCompletes, ResumeFails, RecoverBegins, Recovered
  <2> QED
    BY <2>1, <2>2, <2>3, <2>4, <2>5, <2>6 DEF WorkerStep
<1> QED
  BY <1>1, <1>2

\* No step makes an answer a wrong one.
LEMMA NeverWrong ==
    ASSUME IInv, [Next]_vars
    PROVE  past'.wrong = past.wrong
<1> USE DEF IInv
<1>1. past \in [tag : Nat, wrong : BOOLEAN, fenced : SUBSET Conns, remint : BOOLEAN]
  BY DEF TypeOK
<1>2. \A w \in Workers : WorkerStep(w) => past'.wrong = past.wrong
  BY <1>1, WorkersSilent
<1>3. GuestStep => past'.wrong = past.wrong
  <2>1. GuestAnswered => past'.wrong = past.wrong
    BY RightAnswer
  <2>2. GuestStep /\ ~GuestAnswered => past' = past
    BY DEF GuestStep, Dial, GuestFails, GuestRefuses, Hangup, EnrollSends, Enrolled, Prove, Accept, Redeem, Refresh,
      Acknowledged, GuestMoves
  <2> QED
    BY <2>1, <2>2
<1>4. AskStep \/ LinkUp => past' = past
  BY DEF AskStep, HubReads, SendOwned, AskAnswered, ForwardAnswer, LinkUp
<1>5. HubDies \/ Restart \/ Suspend => past'.wrong = past.wrong
  BY <1>1 DEF HubDies, Restart, Suspend
<1>6. (\E k \in late : ServeLate(k)) \/ Ask => past'.wrong = past.wrong
  <2>1. ASSUME NEW k, ServeLate(k)
        PROVE  past'.wrong = past.wrong
    <3>1. PICK r : r = (past.remint \/ (k.method = "mint" /\ Answer(k).ok))
      OBVIOUS
    <3>2. past' = [past EXCEPT !.remint = r]
      BY <2>1, <3>1, Zenon DEF ServeLate
    <3> QED
      BY <1>1, <3>2
  <2>2. Ask => past'.wrong = past.wrong
    BY <1>1 DEF Ask
  <2> QED
    BY <2>1, <2>2
<1>7. Expire \/ Edit \/ LinkLost \/ Disconnected \/ Resume \/ (\E c \in Conns : Break(c)) => past' = past
  BY DEF Expire, Edit, LinkLost, Disconnected, Resume, Break
<1>8. UNCHANGED vars => past' = past
  BY DEF vars
<1> QED
  BY <1>2, <1>3, <1>4, <1>5, <1>6, <1>7, <1>8 DEF Next, Faults

\* A request that goes up is one of the hub there is, which no acceptance fenced.
LEMMA NoOldVoiceStep ==
    ASSUME IInv, [Next]_vars
    PROVE  \A x \in asks' \ asks : x.at = "up" => x.conn \notin past.fenced
<1> USE DEF IInv
<1>1. past \in [tag : Nat, wrong : BOOLEAN, fenced : SUBSET Conns, remint : BOOLEAN] /\ asks \subseteq Requests
  BY DEF TypeOK
<1>2. \A w \in Workers : WorkerStep(w) => asks' = asks
  BY <1>1, WorkersSilent
<1>3. GuestStep => asks' = asks
  BY DEF GuestStep, Dial, GuestFails, GuestRefuses, Hangup, EnrollSends, Enrolled, Prove, Accept, Redeem, Refresh,
    Acknowledged, GuestMoves, GuestAnswered
<1>4. HubDies \/ LinkUp => asks' = asks
  BY DEF HubDies, LinkUp
<1>5. Faults => asks' \subseteq asks
  <2>1. Restart => asks' \subseteq asks
    BY DEF Restart
  <2>2. Faults /\ ~Restart => asks' = asks
    BY DEF Faults, ServeLate, Expire, Edit, LinkLost, Disconnected, Suspend, Resume, Ask, Break
  <2> QED
    BY <2>1, <2>2
<1>6. ASSUME HubReads, NEW x \in asks' \ asks
      PROVE  x.at = "hub"
  BY <1>6 DEF HubReads
<1>7. ASSUME NEW a \in asks, SendOwned(a), NEW x \in asks' \ asks
      PROVE  x.conn \notin past.fenced
  <2>1. Owns(a) /\ x = [a EXCEPT !.at = "up", !.n = ForwardId(a)]
    BY <1>7 DEF SendOwned
  <2>2. x.conn = a.conn
    BY <1>1, <2>1 DEF Requests
  <2> QED
    BY <2>1, <2>2 DEF Owns, HubUnfenced
<1>8. ASSUME NEW a \in asks, AskAnswered(a), NEW x \in asks' \ asks
      PROVE  x.at = "down"
  <2>1. x = [a EXCEPT !.at = "down"]
    BY <1>8 DEF AskAnswered
  <2> QED
    BY <1>1, <2>1 DEF Requests
<1>9. \A a \in asks : ForwardAnswer(a) => asks' \subseteq asks
  BY DEF ForwardAnswer
<1>10. UNCHANGED vars => asks' = asks
  BY DEF vars
<1> QED
  BY <1>2, <1>3, <1>4, <1>5, <1>6, <1>7, <1>8, <1>9, <1>10 DEF Next, AskStep

--------------------
\* Theorems

\* The invariant holds in every behaviour.
LEMMA Invariance == Spec => []IInv
<1>1. Init => IInv
  BY InitInv
<1>2. IInv /\ [Next]_vars => IInv'
  BY NextInv
<1> QED
  BY <1>1, <1>2, PTL DEF Spec

\* Rows, streams, workers and requests have the shapes stated, whatever is lost and restarted.
THEOREM TypeCorrect == Spec => []TypeOK
<1>1. IInv => TypeOK
  BY DEF IInv
<1> QED
  BY <1>1, Invariance, PTL

\* No request of a stream that was fenced, or whose hub ended, is sent up any more (sendOwnedGuestMessage).
THEOREM NoOldVoiceHolds == Spec => NoOldVoice
<1>1. IInv /\ [Next]_vars => [SentOfLiveStream]_vars
  BY NoOldVoiceStep DEF SentOfLiveStream
<1> QED
  BY <1>1, Invariance, PTL DEF Spec, NoOldVoice

\* No answer is taken by a guest that did not ask for it (guestRPCForwards, deliver).
THEOREM AnswersHold == Spec => []AnswersItsQuestion
<1>1. Init => AnswersItsQuestion
  BY DEF Init, AnswersItsQuestion
<1>2. IInv /\ AnswersItsQuestion /\ [Next]_vars => AnswersItsQuestion'
  BY NeverWrong DEF AnswersItsQuestion
<1> QED
  BY <1>1, <1>2, Invariance, PTL DEF Spec

\* What an enrolled guest needs to come back stays true: its key, its placement, and an epoch still to be issued.
THEOREM ReturnStaysPossible == Spec => []CanStillReconnect
<1>1. IInv => CanStillReconnect
  BY DEF IInv, Kept, KeptGuest, Vouched, Issued, CanStillReconnect
<1> QED
  BY <1>1, Invariance, PTL
=============================================================================
