----------------------------- MODULE ExecProofs -----------------------------
\* Proofs about Exec, for any number of commands, pids and slots, any
\* queue lengths and any setups.
EXTENDS Exec, FiniteSetTheorems, TLAPS

--------------------
\* The reaper's table.

\* An outcome taken out of a table leaves the others as they were.
LEMMA WithoutKeeps ==
  ASSUME NEW T, NEW q \in Seq(T), NEW p
  PROVE  /\ Without(q, p) \in Seq(T)
         /\ \A i \in 1 .. Len(Without(q, p)) : \E j \in 1 .. Len(q) : Without(q, p)[i] = q[j]
<1>1. CASE Held(q, p)
  <2> DEFINE k == Place(q, p)
             w == [i \in 1 .. Len(q) - 1 |-> IF i < k THEN q[i] ELSE q[i + 1]]
  <2>1. k \in 1 .. Len(q)
    BY <1>1 DEF Held, Place
  <2> HIDE DEF k
  <2>2. Len(q) \in Nat /\ Len(q) - 1 \in Nat
    BY <2>1
  <2>3. w \in Seq(T) /\ Len(w) = Len(q) - 1
    BY <2>1, <2>2
  <2>4. \A i \in 1 .. Len(w) : \E j \in 1 .. Len(q) : w[i] = q[j]
    BY <2>1, <2>2, <2>3
  <2>5. Without(q, p) = w
    BY <1>1 DEF Without, k
  <2> QED
    BY <2>3, <2>4, <2>5
<1>2. CASE ~Held(q, p)
  BY <1>2 DEF Without
<1> QED
  BY <1>1, <1>2

\* A tombstone is added, and at the bound the oldest goes.
LEMMA EntombKeeps ==
  ASSUME NEW T, NEW q \in Seq(T), NEW x \in T
  PROVE  /\ Entomb(q, x) \in Seq(T)
         /\ \A i \in 1 .. Len(Entomb(q, x)) : Entomb(q, x)[i] = x \/ \E j \in 1 .. Len(q) : Entomb(q, x)[i] = q[j]
<1> DEFINE kept == IF Held(q, x.pid) THEN [i \in DOMAIN q |-> IF q[i].pid = x.pid THEN x ELSE q[i]] ELSE Append(q, x)
<1>1. /\ kept \in Seq(T) /\ Len(kept) >= Len(q)
      /\ \A i \in 1 .. Len(kept) : kept[i] = x \/ \E j \in 1 .. Len(q) : kept[i] = q[j]
  OBVIOUS
<1> HIDE DEF kept
<1>2. CASE Len(kept) > MaxUnclaimed
  <2>1. kept # <<>>
    BY <1>1, <1>2, ReaperAssumption
  <2> QED
    BY <1>1, <1>2, <2>1 DEF Entomb, kept
<1>3. CASE ~(Len(kept) > MaxUnclaimed)
  BY <1>1, <1>3 DEF Entomb, kept
<1> QED
  BY <1>2, <1>3

Codes == [pid : Pids, seq : Nat, of : Execs \cup {Orphan}]
Tombs == [pid : Pids, seq : Nat]
Tables == [seq : Nat, codes : Seq(Codes), tombs : Seq(Tombs)]

LEMMA Entries ==
  ASSUME NEW t \in Tables
  PROVE  /\ t.seq \in Nat
         /\ \A i \in 1 .. Len(t.codes) : t.codes[i].seq \in Nat /\ t.codes[i].of \in Execs \cup {Orphan}
         /\ \A i \in 1 .. Len(t.tombs) : t.tombs[i].seq \in Nat
<1>1. t.seq \in Nat /\ t.codes \in Seq(Codes) /\ t.tombs \in Seq(Tombs)
  BY DEF Tables
<1>2. \A i \in 1 .. Len(t.codes) : t.codes[i] \in Codes
  BY <1>1
<1>3. \A i \in 1 .. Len(t.tombs) : t.tombs[i] \in Tombs
  BY <1>1
<1> QED
  BY <1>1, <1>2, <1>3 DEF Codes, Tombs

\* remember adds one outcome, numbered above all; a tombstone is that of
\* an outcome the table held.
LEMMA RememberAdds ==
  ASSUME NEW t \in Tables, NEW p \in Pids, NEW of \in Execs \cup {Orphan}
  PROVE  LET u == Remember(t, p, of)
             r == [pid |-> p, seq |-> t.seq + 1, of |-> of]
         IN  /\ u \in Tables /\ u.seq = t.seq + 1
             /\ \A i \in 1 .. Len(u.codes) : u.codes[i] = r \/ \E j \in 1 .. Len(t.codes) : u.codes[i] = t.codes[j]
             /\ \A i \in 1 .. Len(u.tombs) :
                  \/ u.tombs[i].pid = p /\ u.tombs[i].seq = t.seq + 1
                  \/ \E j \in 1 .. Len(t.tombs) : u.tombs[i] = t.tombs[j]
                  \/ \E j \in 1 .. Len(t.codes) : u.tombs[i].pid = t.codes[j].pid /\ u.tombs[i].seq = t.codes[j].seq
<1> DEFINE r == [pid |-> p, seq |-> t.seq + 1, of |-> of]
           codes == IF Held(t.codes, p) THEN [i \in DOMAIN t.codes |-> IF t.codes[i].pid = p THEN r ELSE t.codes[i]]
                    ELSE Append(t.codes, r)
           tombs == Without(t.tombs, p)
           x == [pid |-> codes[1].pid, seq |-> codes[1].seq]
           u == Remember(t, p, of)
<1>1. t.seq \in Nat /\ t.codes \in Seq(Codes) /\ t.tombs \in Seq(Tombs) /\ r \in Codes /\ r.pid = p /\ r.seq = t.seq + 1
  BY ExecAssumption DEF Tables, Codes
<1>2. /\ tombs \in Seq(Tombs)
      /\ \A i \in 1 .. Len(tombs) : \E j \in 1 .. Len(t.tombs) : tombs[i] = t.tombs[j]
  BY <1>1, WithoutKeeps
<1>3. /\ codes \in Seq(Codes)
      /\ \A i \in 1 .. Len(codes) : codes[i] = r \/ \E j \in 1 .. Len(t.codes) : codes[i] = t.codes[j]
  <2> HIDE DEF r
  <2>1. CASE Held(t.codes, p)
    BY <1>1, <2>1
  <2>2. CASE ~Held(t.codes, p)
    BY <1>1, <2>2
  <2> QED
    BY <2>1, <2>2
<1>4. u = IF Len(codes) > MaxUnclaimed
          THEN [seq |-> t.seq + 1, codes |-> Tail(codes), tombs |-> Entomb(tombs, x)]
          ELSE [seq |-> t.seq + 1, codes |-> codes, tombs |-> tombs]
  BY DEF Remember
<1> HIDE DEF codes, tombs, u, r
<1>5. CASE Len(codes) > MaxUnclaimed
  <2>1. codes # <<>> /\ 1 \in 1 .. Len(codes)
    BY <1>3, <1>5, ReaperAssumption
  <2>2. x \in Tombs /\ x.pid = codes[1].pid /\ x.seq = codes[1].seq
    <3>1. codes[1] \in Codes
      BY <1>3, <2>1
    <3>2. codes[1].pid \in Pids /\ codes[1].seq \in Nat
      BY <3>1 DEF Codes
    <3> QED
      BY <3>2 DEF Tombs
  <2> HIDE DEF x
  <2>3. /\ Entomb(tombs, x) \in Seq(Tombs)
        /\ \A i \in 1 .. Len(Entomb(tombs, x)) :
             Entomb(tombs, x)[i] = x \/ \E j \in 1 .. Len(tombs) : Entomb(tombs, x)[i] = tombs[j]
    BY <1>2, <2>2, EntombKeeps
  <2>4. u.seq = t.seq + 1 /\ u.codes = Tail(codes) /\ u.tombs = Entomb(tombs, x) /\ u \in Tables
    BY <1>1, <1>3, <1>4, <1>5, <2>1, <2>3 DEF Tables
  <2>5. \A i \in 1 .. Len(u.codes) : u.codes[i] = r \/ \E j \in 1 .. Len(t.codes) : u.codes[i] = t.codes[j]
    <3>1. Len(Tail(codes)) = Len(codes) - 1 /\ \A i \in 1 .. Len(Tail(codes)) : i + 1 \in 1 .. Len(codes) /\ Tail(codes)[i] = codes[i + 1]
      BY <1>3, <2>1
    <3> QED
      BY <1>3, <2>4, <3>1
  <2>6. \/ x.pid = p /\ x.seq = t.seq + 1
        \/ \E j \in 1 .. Len(t.codes) : x.pid = t.codes[j].pid /\ x.seq = t.codes[j].seq
    BY <1>1, <1>3, <2>1, <2>2
  <2>7. \A i \in 1 .. Len(u.tombs) :
            \/ u.tombs[i].pid = p /\ u.tombs[i].seq = t.seq + 1
            \/ \E j \in 1 .. Len(t.tombs) : u.tombs[i] = t.tombs[j]
            \/ \E j \in 1 .. Len(t.codes) : u.tombs[i].pid = t.codes[j].pid /\ u.tombs[i].seq = t.codes[j].seq
    <3> SUFFICES ASSUME NEW i \in 1 .. Len(u.tombs), u.tombs[i] # x
                 PROVE  \E j \in 1 .. Len(t.tombs) : u.tombs[i] = t.tombs[j]
      BY <2>6
    <3>1. PICK k \in 1 .. Len(tombs) : u.tombs[i] = tombs[k]
      BY <2>3, <2>4
    <3> QED
      BY <1>2, <3>1
  <2> QED
    BY <2>4, <2>5, <2>7 DEF r, u
<1>6. CASE ~(Len(codes) > MaxUnclaimed)
  <2>1. u.seq = t.seq + 1 /\ u.codes = codes /\ u.tombs = tombs /\ u \in Tables
    BY <1>1, <1>2, <1>3, <1>4, <1>6 DEF Tables
  <2> QED
    BY <1>2, <1>3, <2>1 DEF r, u
<1> QED
  BY <1>5, <1>6

\* What a waiter finds is an outcome of its pid, newer than its mark, that
\* the table holds or held; the table keeps a part of what it had.
LEMMA AwaitFinds ==
  ASSUME NEW t \in Tables, NEW p, NEW mark
  PROVE  LET w == AwaitStatus(t, p, mark)
         IN  /\ w.table \in Tables /\ w.table.seq = t.seq
             /\ \A i \in 1 .. Len(w.table.codes) : \E j \in 1 .. Len(t.codes) : w.table.codes[i] = t.codes[j]
             /\ \A i \in 1 .. Len(w.table.tombs) : \E j \in 1 .. Len(t.tombs) : w.table.tombs[i] = t.tombs[j]
             /\ \/ w.found = "wait"
                \/ \E j \in 1 .. Len(t.codes) : t.codes[j].pid = p /\ t.codes[j].seq > mark /\ w.found = t.codes[j].of
                \/ w.found = "evicted" /\ \E j \in 1 .. Len(t.tombs) : t.tombs[j].pid = p /\ t.tombs[j].seq > mark
<1> DEFINE fresh(q) == Held(q, p) /\ Entry(q, p).seq > mark
           claimed == [t EXCEPT !.codes = Without(@, p)]
           cleared == [claimed EXCEPT !.tombs = Without(@, p)]
           w == AwaitStatus(t, p, mark)
<1>1. t.seq \in Nat /\ t.codes \in Seq(Codes) /\ t.tombs \in Seq(Tombs)
  BY DEF Tables
<1>2. /\ Without(t.codes, p) \in Seq(Codes) /\ Without(t.tombs, p) \in Seq(Tombs)
      /\ \A i \in 1 .. Len(Without(t.codes, p)) : \E j \in 1 .. Len(t.codes) : Without(t.codes, p)[i] = t.codes[j]
      /\ \A i \in 1 .. Len(Without(t.tombs, p)) : \E j \in 1 .. Len(t.tombs) : Without(t.tombs, p)[i] = t.tombs[j]
  <2>1. /\ Without(t.codes, p) \in Seq(Codes)
        /\ \A i \in 1 .. Len(Without(t.codes, p)) : \E j \in 1 .. Len(t.codes) : Without(t.codes, p)[i] = t.codes[j]
    BY <1>1, WithoutKeeps
  <2>2. /\ Without(t.tombs, p) \in Seq(Tombs)
        /\ \A i \in 1 .. Len(Without(t.tombs, p)) : \E j \in 1 .. Len(t.tombs) : Without(t.tombs, p)[i] = t.tombs[j]
    BY <1>1, WithoutKeeps
  <2> QED
    BY <2>1, <2>2
<1>3. /\ claimed \in Tables /\ claimed.seq = t.seq /\ claimed.codes = Without(t.codes, p) /\ claimed.tombs = t.tombs
      /\ cleared \in Tables /\ cleared.seq = t.seq /\ cleared.codes = Without(t.codes, p) /\ cleared.tombs = Without(t.tombs, p)
  BY <1>1, <1>2 DEF Tables
<1>4. ASSUME NEW q, fresh(q)
      PROVE  \E j \in 1 .. Len(q) : q[j].pid = p /\ q[j].seq > mark /\ q[j] = Entry(q, p)
  <2>1. Place(q, p) \in 1 .. Len(q) /\ q[Place(q, p)].pid = p
    BY <1>4 DEF Held, Place
  <2> QED
    BY <1>4, <2>1 DEF Entry
<1>5. \/ fresh(t.codes) /\ w = [found |-> Entry(t.codes, p).of, table |-> claimed]
      \/ fresh(t.tombs) /\ w = [found |-> "evicted", table |-> cleared]
      \/ w = [found |-> "wait", table |-> cleared]
  BY DEF AwaitStatus
<1> HIDE DEF fresh, claimed, cleared, w
<1>6. CASE fresh(t.codes) /\ w = [found |-> Entry(t.codes, p).of, table |-> claimed]
  <2>1. PICK j \in 1 .. Len(t.codes) : t.codes[j].pid = p /\ t.codes[j].seq > mark /\ t.codes[j] = Entry(t.codes, p)
    BY <1>4, <1>6
  <2>2. w.table = claimed /\ w.found = t.codes[j].of
    BY <1>6, <2>1
  <2>3. \E k \in 1 .. Len(t.codes) : t.codes[k].pid = p /\ t.codes[k].seq > mark /\ w.found = t.codes[k].of
    BY <2>1, <2>2
  <2>4. \A i \in 1 .. Len(t.tombs) : \E k \in 1 .. Len(t.tombs) : t.tombs[i] = t.tombs[k]
    OBVIOUS
  <2>5. /\ w.table \in Tables /\ w.table.seq = t.seq
        /\ w.table.codes = Without(t.codes, p) /\ w.table.tombs = t.tombs
    BY <1>3, <2>2
  <2> QED
    BY <1>2, <2>3, <2>4, <2>5 DEF w
<1>7. CASE fresh(t.tombs) /\ w = [found |-> "evicted", table |-> cleared]
  <2>1. PICK j \in 1 .. Len(t.tombs) : t.tombs[j].pid = p /\ t.tombs[j].seq > mark
    BY <1>4, <1>7
  <2>2. w.table = cleared /\ w.found = "evicted"
    BY <1>7
  <2>3. w.found = "evicted" /\ \E k \in 1 .. Len(t.tombs) : t.tombs[k].pid = p /\ t.tombs[k].seq > mark
    BY <2>1, <2>2
  <2> QED
    BY <1>2, <1>3, <2>2, <2>3 DEF w
<1>8. CASE w = [found |-> "wait", table |-> cleared]
  <2>1. w.table = cleared /\ w.found = "wait"
    BY <1>8
  <2> QED
    BY <1>2, <1>3, <2>1 DEF w
<1> QED
  BY <1>5, <1>6, <1>7, <1>8

--------------------
\* What a caller may be told of its command.

Stages == {"none", "opened", "reserved", "spawned", "armed", "running", "reaping", "exiting", "done"}
Spawned == {"spawned", "armed", "running", "reaping"}
Holding == {"reserved"} \cup Spawned
Refusals == {"refused", "not_found", "session_ending", "too_many_execs", "too_many_detached"}

ExecType == [st : Stages, det : BOOLEAN, proc : {"none", "live", "ended", "killed"}, pid : Pids \cup {0}, mark : Nat,
             slot : BOOLEAN, closing : BOOLEAN, outClosed : BOOLEAN, killing : BOOLEAN, bye : BOOLEAN, out : Seq(Messages),
             piece : {"none", "written", "sent", "cut"}, stdin : Nat, stdinDone : BOOLEAN, status : Outcomes]
CallType == [st : {"idle", "parked", "open", "live", "over"}, det : BOOLEAN, started : BOOLEAN, end : Ends,
             of : Outcomes \cup {"killed"}, whole : BOOLEAN, ran : BOOLEAN]
ExTypes == ex \in [Execs -> ExecType] /\ call \in [Execs -> CallType] /\ reaped \in Tables

\* Where an attachment stands: it holds its slot until its wait returns,
\* which it does with its own outcome; what kills it shuts it first.
Stand(e, a) ==
  /\ a.slot <=> a.st \in Holding
  /\ a.st \in {"none", "opened", "reserved"} => a.proc = "none" /\ a.piece = "none"
  /\ a.st \in Spawned => a.proc # "none" /\ a.status = "none"
  /\ a.st = "exiting" => a.proc # "none" /\ a.status # "none"
  /\ a.st = "done" => (a.proc = "none" <=> a.status = "none")
  /\ a.st \in {"exiting", "done"} => a.piece # "written"
  /\ a.proc = "none" <=> a.pid = 0
  /\ a.status # "none" => a.status \in {e, "evicted"} /\ a.proc \in {"ended", "killed"}
  /\ a.outClosed \/ a.killing \/ a.proc = "killed" \/ a.piece = "cut" => a.closing

\* A message of an attachment in state a, whose command ran or did not.
Says1(a, ran, m) ==
  /\ m = "exit" => a.st = "done" /\ a.status # "none" /\ a.proc = "ended" /\ a.piece # "cut"
  /\ m \in Refusals => a.st = "done" /\ ~ran
  /\ m = "started" => ran

Utters(a, ran) == \A i \in 1 .. Len(a.out) : Says1(a, ran, a.out[i])

\* What the caller c of an attachment a has been told.
Told(e, a, c) ==
  /\ c.st \in {"idle", "parked"} => a.st = "none" /\ ~c.ran /\ ~c.started
  /\ c.st # "over" => c.end = "none"
  /\ a.proc # "none" \/ c.started => c.ran
  /\ a.st \in {"opened", "reserved"} => ~c.ran
  /\ c.end \in Refusals \cup {"conflict"} => ~c.ran /\ a.st \in {"none", "done"}
  /\ c.end = "exit" => c.of \in {e, "evicted"} /\ c.whole

\* An outcome newer than the mark of a process that holds the pid is its
\* own, or the tombstone of it.
Marked(e, a, t) ==
  a.proc # "none" /\ a.status = "none" =>
    /\ a.mark <= t.seq
    /\ \A i \in 1 .. Len(t.codes) :
         t.codes[i].pid = a.pid /\ t.codes[i].seq > a.mark => t.codes[i].of = e /\ a.proc # "live"
    /\ \A i \in 1 .. Len(t.tombs) : t.tombs[i].pid = a.pid /\ t.tombs[i].seq > a.mark => a.proc # "live"

Numbered(t) ==
  /\ \A i \in 1 .. Len(t.codes) : t.codes[i].seq <= t.seq
  /\ \A i \in 1 .. Len(t.tombs) : t.tombs[i].seq <= t.seq

\* No two processes that are not waited for have one pid.
Apart ==
  \A e, f \in Execs : e # f /\ ex[e].status = "none" /\ ex[f].status = "none" /\ ex[e].pid = ex[f].pid => ex[e].pid = 0

Honest ==
  /\ ExTypes
  /\ \A e \in Execs : /\ Stand(e, ex[e]) /\ Told(e, ex[e], call[e])
                      /\ Utters(ex[e], call[e].ran) /\ Marked(e, ex[e], reaped)
  /\ Numbered(reaped) /\ Apart

\* The parts of an attachment that say where it stands.
Like(b, a) ==
  /\ b.st = a.st /\ b.proc = a.proc /\ b.pid = a.pid /\ b.mark = a.mark /\ b.slot = a.slot
  /\ b.piece = a.piece /\ b.status = a.status

Shut(b, a) == (b.outClosed \/ b.killing => b.closing) /\ (a.closing => b.closing)

LEMMA LikeStands ==
  ASSUME NEW e, NEW a, NEW b, Stand(e, a), Like(b, a), Shut(b, a)
  PROVE  Stand(e, b)
  BY DEF Stand, Like, Shut

LEMMA LikeSays ==
  ASSUME NEW a, NEW b, NEW ran, NEW m, Says1(a, ran, m), Like(b, a)
  PROVE  Says1(b, ran, m)
  BY DEF Says1, Like

LEMMA LikeTold ==
  ASSUME NEW e, NEW a, NEW b, NEW c, Told(e, a, c), Like(b, a)
  PROVE  Told(e, b, c)
  BY DEF Told, Like

\* What stays out of a queue, or is added to it.
LEMMA LikeUtters ==
  ASSUME NEW a \in ExecType, NEW b \in ExecType, NEW ran, NEW m, Utters(a, ran), Like(b, a),
         b.out = a.out \/ b.out = <<>> \/ (b.out = Append(a.out, m) /\ Says1(b, ran, m))
  PROVE  Utters(b, ran)
<1>1. a.out \in Seq(Messages)
  BY DEF ExecType
<1> SUFFICES ASSUME NEW i \in 1 .. Len(b.out) PROVE Says1(b, ran, b.out[i])
  BY DEF Utters
<1>2. CASE i \in 1 .. Len(a.out) /\ b.out[i] = a.out[i]
  BY <1>2, LikeSays DEF Utters
<1>3. CASE b.out[i] = m /\ Says1(b, ran, m)
  BY <1>3
<1> QED
  BY <1>1, <1>2, <1>3

\* The attachment's own methods.
LEMMA FinishIs ==
  ASSUME NEW a \in ExecType
  PROVE  /\ Finish(a) \in ExecType /\ Like(Finish(a), a) /\ Finish(a).closing
         /\ Finish(a).out = a.out /\ Finish(a).killing = a.killing
  BY DEF Finish, ExecType, Like

LEMMA PutIs ==
  ASSUME NEW a \in ExecType, NEW q \in Seq(Messages)
  PROVE  LET b == [a EXCEPT !.out = q]
         IN  /\ b \in ExecType /\ Like(b, a) /\ b.out = q
             /\ b.closing = a.closing /\ b.killing = a.killing /\ b.outClosed = a.outClosed
  BY DEF ExecType, Like

LEMMA EmitIs ==
  ASSUME NEW a \in ExecType, NEW m \in Messages
  PROVE  /\ Emit(a, m) \in ExecType /\ Like(Emit(a, m), a) /\ Emit(a, m).closing = a.closing
         /\ Emit(a, m).killing = a.killing /\ Emit(a, m).outClosed = a.outClosed
         /\ Emit(a, m).out = a.out \/ (~a.closing /\ Emit(a, m).out = Append(a.out, m))
<1> DEFINE q == Append(a.out, m)
<1>1. a.out \in Seq(Messages)
  BY DEF ExecType
<1>2. q \in Seq(Messages)
  BY <1>1
<1>3. Emit(a, m) = IF a.closing \/ a.outClosed THEN a ELSE [a EXCEPT !.out = q]
  BY DEF Emit
<1> HIDE DEF q
<1>4. CASE a.closing \/ a.outClosed
  BY <1>3, <1>4 DEF Like
<1>5. CASE ~(a.closing \/ a.outClosed)
  <2>1. /\ Emit(a, m) \in ExecType /\ Like(Emit(a, m), a) /\ Emit(a, m).closing = a.closing
        /\ Emit(a, m).killing = a.killing /\ Emit(a, m).outClosed = a.outClosed /\ Emit(a, m).out = q
    BY <1>2, <1>3, <1>5, PutIs
  <2> QED
    BY <1>5, <2>1 DEF q
<1> QED
  BY <1>4, <1>5

LEMMA RefuseIs ==
  ASSUME NEW a \in ExecType, NEW m \in Messages
  PROVE  /\ Refuse(a, m) \in ExecType /\ Like(Refuse(a, m), a) /\ Refuse(a, m).closing
         /\ Refuse(a, m).out = a.out \/ Refuse(a, m).out = Append(a.out, m)
<1> DEFINE q == Append(a.out, m)
           b == IF a.outClosed THEN a ELSE [a EXCEPT !.out = q]
<1>1. a.out \in Seq(Messages)
  BY DEF ExecType
<1>2. q \in Seq(Messages)
  BY <1>1
<1>3. Refuse(a, m) = Finish(b)
  BY DEF Refuse
<1> HIDE DEF q
<1>4. b \in ExecType /\ Like(b, a) /\ (b.out = a.out \/ b.out = q)
  BY <1>2, PutIs DEF Like
<1> HIDE DEF b
<1> QED
  BY <1>3, <1>4, FinishIs DEF Like, q

LEMMA KillIs ==
  ASSUME NEW a \in ExecType
  PROVE  Kill(a) \in ExecType /\ Like(Kill(a), a) /\ Kill(a).closing /\ Kill(a).out = a.out
<1>1. CASE Armed(a)
  BY <1>1 DEF Kill, ExecType, Like
<1>2. CASE ~Armed(a)
  BY <1>2, FinishIs DEF Kill
<1> QED
  BY <1>1, <1>2

LEMMA CloseIs ==
  ASSUME NEW e, NEW a \in ExecType, Stand(e, a)
  PROVE  Close(a) \in ExecType /\ Like(Close(a), a) /\ Shut(Close(a), a) /\ Close(a).out = a.out
<1>1. CASE a.st = "done" \/ (a.det /\ a.st # "opened")
  BY <1>1 DEF Close, Like, Shut, Stand
<1>2. CASE ~(a.st = "done" \/ (a.det /\ a.st # "opened"))
  BY <1>2, KillIs DEF Close, Shut
<1> QED
  BY <1>1, <1>2

--------------------
\* Steps of one attachment.

LEMMA Shapes ==
  ASSUME Honest, NEW e \in Execs
  PROVE  /\ ex[e] \in ExecType /\ call[e] \in CallType /\ Stand(e, ex[e]) /\ Told(e, ex[e], call[e])
         /\ Utters(ex[e], call[e].ran) /\ Marked(e, ex[e], reaped)
         /\ ex[e].out \in Seq(Messages) /\ ex[e].closing \in BOOLEAN
         /\ \A b : [ex EXCEPT ![e] = b][e] = b
         /\ \A c : [call EXCEPT ![e] = c][e] = c
         /\ call = [call EXCEPT ![e] = call[e]] /\ ex = [ex EXCEPT ![e] = ex[e]]
  BY DEF Honest, ExTypes, ExecType

LEMMA SlotsStay ==
  ASSUME Honest, NEW e \in Execs, NEW b, ex' = [ex EXCEPT ![e] = b], b.slot = ex[e].slot
  PROVE  Slots' = Slots
  BY DEF Honest, ExTypes, Slots

\* An attachment moves, its process does not.
LEMMA OneMoves ==
  ASSUME Honest, NEW e \in Execs, NEW b \in ExecType, NEW c \in CallType,
         ex' = [ex EXCEPT ![e] = b], call' = [call EXCEPT ![e] = c], UNCHANGED reaped,
         Stand(e, b), Told(e, b, c), Utters(b, c.ran),
         b.proc = ex[e].proc, b.pid = ex[e].pid, b.mark = ex[e].mark, b.status = ex[e].status
  PROVE  Honest'
<1>1. ExTypes'
  BY DEF Honest, ExTypes
<1>2. ex'[e] = b /\ call'[e] = c
  BY Shapes
<1>3. \A f \in Execs \ {e} : ex'[f] = ex[f] /\ call'[f] = call[f]
  BY DEF Honest, ExTypes
<1>4. Marked(e, b, reaped)
  BY Shapes DEF Marked
<1>5. \A f \in Execs : ex'[f].status = ex[f].status /\ ex'[f].pid = ex[f].pid
  BY <1>2, <1>3
<1>6. Apart'
  BY <1>5 DEF Honest, Apart
<1>7. ASSUME NEW f \in Execs
      PROVE  Stand(f, ex'[f]) /\ Told(f, ex'[f], call'[f]) /\ Utters(ex'[f], call'[f].ran) /\ Marked(f, ex'[f], reaped')
  <2>1. CASE f = e
    BY <1>2, <1>4, <2>1
  <2>2. CASE f # e
    BY <1>3, <1>7, <2>2, Shapes
  <2> QED
    BY <2>1, <2>2
<1> QED
  BY <1>1, <1>6, <1>7 DEF Honest

\* An attachment is shut or says something, and stands where it stood.
LEMMA LikeMoves ==
  ASSUME Honest, NEW e \in Execs, NEW b \in ExecType, NEW m, ex' = [ex EXCEPT ![e] = b], UNCHANGED <<call, reaped>>,
         Like(b, ex[e]), Shut(b, ex[e]),
         b.out = ex[e].out \/ b.out = <<>> \/ (b.out = Append(ex[e].out, m) /\ Says1(b, call[e].ran, m))
  PROVE  Honest' /\ Slots' = Slots
<1>1. Stand(e, b)
  BY Shapes, LikeStands
<1>2. Told(e, b, call[e])
  BY Shapes, LikeTold
<1>3. Utters(b, call[e].ran)
  BY Shapes, LikeUtters
<1>4. call[e] \in CallType /\ call' = [call EXCEPT ![e] = call[e]]
  BY Shapes
<1>5. Honest'
  BY <1>1, <1>2, <1>3, <1>4, OneMoves DEF Like
<1> QED
  BY <1>5, SlotsStay DEF Like

LEMMA CloseExecHonest ==
  ASSUME Honest, NEW e \in Execs, CloseExec(e)
  PROVE  Honest' /\ Slots' = Slots
<1> DEFINE b == [Close(ex[e]) EXCEPT !.bye = FALSE]
<1>1. ex' = [ex EXCEPT ![e] = b] /\ UNCHANGED <<call, reaped>>
  BY DEF CloseExec, Only, Still
<1>2. Close(ex[e]) \in ExecType /\ Like(Close(ex[e]), ex[e]) /\ Shut(Close(ex[e]), ex[e]) /\ Close(ex[e]).out = ex[e].out
  BY Shapes, CloseIs
<1>3. b \in ExecType /\ Like(b, ex[e]) /\ Shut(b, ex[e]) /\ b.out = ex[e].out
  BY <1>2 DEF ExecType, Like, Shut
<1> HIDE DEF b
<1> QED
  BY <1>1, <1>3, LikeMoves

LEMMA KillOneHonest ==
  ASSUME Honest, NEW e \in Execs, KillOne(e)
  PROVE  Honest' /\ Slots' = Slots
<1>1. ex' = [ex EXCEPT ![e] = Kill(ex[e])] /\ UNCHANGED <<call, reaped>>
  BY DEF KillOne, Only, Still
<1>2. Kill(ex[e]) \in ExecType /\ Like(Kill(ex[e]), ex[e]) /\ Shut(Kill(ex[e]), ex[e]) /\ Kill(ex[e]).out = ex[e].out
  BY Shapes, KillIs DEF Shut
<1> QED
  BY <1>1, <1>2, LikeMoves

LEMMA OfferStdinHonest ==
  ASSUME Honest, NEW e \in Execs, OfferStdin(e)
  PROVE  Honest' /\ Slots' = Slots
<1> DEFINE a == ex[e]
           d == Emit(a, "stdin_overrun")
           k == [Kill(d) EXCEPT !.stdin = @ + 1]
           n == [a EXCEPT !.stdin = @ + 1]
           b == IF a.stdin = StdinDepth THEN k ELSE n
<1>1. ex' = [ex EXCEPT ![e] = b] /\ UNCHANGED <<call, reaped>>
  BY DEF OfferStdin, Only
<1>2. /\ d \in ExecType /\ Like(d, a) /\ (d.out = a.out \/ d.out = Append(a.out, "stdin_overrun"))
  BY Shapes, EmitIs DEF Messages
<1> HIDE DEF d
<1>3. Kill(d) \in ExecType /\ Like(Kill(d), d) /\ Kill(d).closing /\ Kill(d).out = d.out
  BY <1>2, KillIs
<1>4. k \in ExecType /\ Like(k, a) /\ Shut(k, a) /\ k.out = d.out
  BY <1>2, <1>3 DEF ExecType, Like, Shut
<1>5. n \in ExecType /\ Like(n, a) /\ Shut(n, a) /\ n.out = a.out
  BY Shapes DEF ExecType, Like, Shut, Stand
<1> HIDE DEF k, n
<1>6. b \in ExecType /\ Like(b, a) /\ Shut(b, a) /\ (b.out = a.out \/ b.out = Append(a.out, "stdin_overrun"))
  BY <1>2, <1>4, <1>5
<1>7. Says1(b, call[e].ran, "stdin_overrun")
  BY DEF Says1, Refusals
<1> HIDE DEF b
<1> QED
  BY <1>1, <1>6, <1>7, LikeMoves

LEMMA PumpStdinHonest ==
  ASSUME Honest, NEW e \in Execs, PumpStdin(e)
  PROVE  Honest' /\ Slots' = Slots
<1> DEFINE a == ex[e]
<1>1. PICK b : /\ ex' = [ex EXCEPT ![e] = b] /\ UNCHANGED <<call, reaped>>
               /\ (a.stdin > 0 /\ b = [a EXCEPT !.stdin = @ - 1]) \/ b = [a EXCEPT !.stdinDone = TRUE]
  BY DEF PumpStdin, Only, Still
<1>2. b \in ExecType /\ Like(b, a) /\ Shut(b, a) /\ b.out = a.out
  <2>1. a \in ExecType /\ Shut(a, a) /\ a.stdin \in Nat
    BY Shapes DEF Stand, Shut, ExecType
  <2>2. CASE a.stdin > 0 /\ b = [a EXCEPT !.stdin = @ - 1]
    <3>1. a.stdin - 1 \in Nat
      BY <2>1, <2>2
    <3> QED
      BY <2>1, <2>2, <3>1 DEF ExecType, Like, Shut
  <2>3. CASE b = [a EXCEPT !.stdinDone = TRUE]
    BY <2>1, <2>3 DEF ExecType, Like, Shut
  <2> QED
    BY <1>1, <2>2, <2>3
<1> QED
  BY <1>1, <1>2, LikeMoves

LEMMA WriteHonest ==
  ASSUME Honest, NEW e \in Execs, Write(e)
  PROVE  Honest' /\ Slots' = Slots
<1> DEFINE a == ex[e]
           b == [a EXCEPT !.piece = "written"]
<1>1. /\ ex' = [ex EXCEPT ![e] = b] /\ UNCHANGED <<call, reaped>> /\ a.proc = "live"
  BY DEF Write, Only, Still
<1>2. /\ b \in ExecType /\ b.st = a.st /\ b.proc = a.proc /\ b.pid = a.pid /\ b.mark = a.mark /\ b.slot = a.slot
      /\ b.status = a.status /\ b.out = a.out /\ b.piece = "written" /\ b.closing = a.closing
      /\ b.outClosed = a.outClosed /\ b.killing = a.killing
  BY Shapes DEF ExecType
<1> HIDE DEF b
<1>3. Stand(e, b) /\ a.st \in Spawned
  BY <1>1, <1>2, Shapes DEF Stand, Spawned, ExecType, Stages
<1>4. Told(e, b, call[e])
  BY <1>2, Shapes DEF Told
<1>5. Utters(b, call[e].ran)
  BY <1>2, <1>3, Shapes DEF Utters, Says1, Spawned
<1>6. Honest'
  BY <1>1, <1>2, <1>3, <1>4, <1>5, Shapes, OneMoves
<1> QED
  BY <1>1, <1>2, <1>6, SlotsStay

LEMMA HandOverHonest ==
  ASSUME Honest, NEW e \in Execs, HandOver(e)
  PROVE  Honest' /\ Slots' = Slots
<1> DEFINE a == ex[e]
           d == Emit(a, "piece")
           p == IF a.closing THEN "cut" ELSE "sent"
           b == [d EXCEPT !.piece = p]
<1>1. /\ ex' = [ex EXCEPT ![e] = b] /\ UNCHANGED <<call, reaped>> /\ a.piece = "written"
  BY DEF HandOver, Only, Still
<1>2. /\ d \in ExecType /\ Like(d, a) /\ (d.out = a.out \/ d.out = Append(a.out, "piece"))
      /\ d.closing = a.closing /\ d.killing = a.killing /\ d.outClosed = a.outClosed
  BY Shapes, EmitIs DEF Messages
<1> HIDE DEF d
<1>3. /\ b \in ExecType /\ b.st = a.st /\ b.proc = a.proc /\ b.pid = a.pid /\ b.mark = a.mark /\ b.slot = a.slot
      /\ b.status = a.status /\ b.out = d.out /\ b.piece = p /\ b.closing = a.closing
      /\ b.outClosed = a.outClosed /\ b.killing = a.killing
  BY <1>2 DEF ExecType, Like
<1> HIDE DEF b
<1>4. Stand(e, b) /\ a.st \in Spawned
  BY <1>1, <1>3, Shapes DEF Stand, Spawned, Holding, ExecType, Stages
<1>5. Told(e, b, call[e])
  BY <1>3, Shapes DEF Told
<1>6. Utters(b, call[e].ran)
  <2>1. \A m : Says1(a, call[e].ran, m) => Says1(b, call[e].ran, m)
    BY <1>3, <1>4 DEF Says1, Spawned
  <2>2. Says1(b, call[e].ran, "piece")
    BY DEF Says1, Refusals
  <2>3. \A i \in 1 .. Len(b.out) : b.out[i] = "piece" \/ (i \in 1 .. Len(a.out) /\ b.out[i] = a.out[i])
    BY <1>2, <1>3, Shapes
  <2> QED
    BY <2>1, <2>2, <2>3, Shapes DEF Utters
<1>7. Honest'
  BY <1>1, <1>3, <1>4, <1>5, <1>6, Shapes, OneMoves
<1> QED
  BY <1>1, <1>3, <1>7, SlotsStay

LEMMA ArmHonest ==
  ASSUME Honest, NEW e \in Execs, Arm(e)
  PROVE  Honest' /\ Slots' = Slots
<1> DEFINE a == ex[e]
           b == IF a.closing THEN [a EXCEPT !.st = "reaping", !.killing = TRUE] ELSE [a EXCEPT !.st = "armed"]
<1>1. /\ ex' = [ex EXCEPT ![e] = b] /\ UNCHANGED <<call, reaped>> /\ a.st = "spawned"
  BY DEF Arm, Only, Still
<1>2. /\ b \in ExecType /\ b.st \in {"reaping", "armed"} /\ b.proc = a.proc /\ b.pid = a.pid /\ b.mark = a.mark /\ b.slot = a.slot
      /\ b.status = a.status /\ b.out = a.out /\ b.piece = a.piece /\ b.closing = a.closing
      /\ b.outClosed = a.outClosed /\ (b.killing => a.killing \/ a.closing)
  <2>1. a \in ExecType
    BY Shapes
  <2>2. CASE a.closing
    <3>1. b = [a EXCEPT !.st = "reaping", !.killing = TRUE]
      BY <2>2
    <3> QED
      BY <2>1, <2>2, <3>1 DEF ExecType, Stages
  <2>3. CASE ~a.closing
    <3>1. b = [a EXCEPT !.st = "armed"]
      BY <2>3
    <3> QED
      BY <2>1, <3>1 DEF ExecType, Stages
  <2> QED
    BY <2>2, <2>3
<1> HIDE DEF b
<1>3. Stand(e, b)
  BY <1>1, <1>2, Shapes DEF Stand, Spawned, Holding
<1>4. Told(e, b, call[e])
  BY <1>1, <1>2, Shapes DEF Told
<1>5. Utters(b, call[e].ran)
  BY <1>1, <1>2, Shapes DEF Utters, Says1
<1>6. Honest'
  BY <1>1, <1>2, <1>3, <1>4, <1>5, Shapes, OneMoves
<1> QED
  BY <1>1, <1>2, <1>6, SlotsStay

LEMMA AnnounceHonest ==
  ASSUME Honest, NEW e \in Execs, Announce(e)
  PROVE  Honest' /\ Slots' = Slots
<1> DEFINE a == ex[e]
           d == Emit(a, "started")
           r == [d EXCEPT !.st = "reaping"]
           b == IF a.det THEN Finish(r) ELSE [d EXCEPT !.st = "running"]
<1>1. /\ ex' = [ex EXCEPT ![e] = b] /\ UNCHANGED <<call, reaped>> /\ a.st = "armed"
  BY DEF Announce, Only, Still
<1>2. /\ d \in ExecType /\ Like(d, a) /\ (d.out = a.out \/ d.out = Append(a.out, "started"))
      /\ d.closing = a.closing /\ d.killing = a.killing /\ d.outClosed = a.outClosed
  BY Shapes, EmitIs DEF Messages
<1> HIDE DEF d
<1>3. /\ b \in ExecType /\ b.st \in {"reaping", "running"} /\ b.proc = a.proc /\ b.pid = a.pid /\ b.mark = a.mark /\ b.slot = a.slot
      /\ b.status = a.status /\ b.out = d.out /\ b.piece = a.piece
      /\ (a.closing => b.closing) /\ (b.outClosed \/ b.killing => b.closing \/ a.outClosed \/ a.killing)
  <2>1. CASE a.det
    <3>1. /\ r \in ExecType /\ r.st = "reaping" /\ r.out = d.out /\ r.killing = d.killing /\ r.closing = d.closing
          /\ r.proc = d.proc /\ r.pid = d.pid /\ r.mark = d.mark /\ r.slot = d.slot /\ r.status = d.status /\ r.piece = d.piece
      BY <1>2 DEF ExecType, Stages
    <3> HIDE DEF r
    <3>2. Finish(r) \in ExecType /\ Like(Finish(r), r) /\ Finish(r).closing /\ Finish(r).out = r.out
      BY <3>1, FinishIs
    <3> QED
      BY <1>2, <2>1, <3>1, <3>2 DEF Like
  <2>2. CASE ~a.det
    <3>1. b = [d EXCEPT !.st = "running"]
      BY <2>2
    <3> HIDE DEF b
    <3> QED
      BY <1>2, <3>1 DEF ExecType, Stages, Like
  <2> QED
    BY <2>1, <2>2
<1> HIDE DEF b
<1>4. Stand(e, b) /\ call[e].ran
  BY <1>1, <1>3, Shapes DEF Stand, Spawned, Holding, Told
<1>5. Told(e, b, call[e])
  BY <1>1, <1>3, Shapes DEF Told
<1>6. Utters(b, call[e].ran)
  <2>1. \A m : Says1(a, call[e].ran, m) => Says1(b, call[e].ran, m)
    BY <1>1, <1>3 DEF Says1
  <2>2. Says1(b, call[e].ran, "started")
    BY <1>4 DEF Says1, Refusals
  <2>3. \A i \in 1 .. Len(b.out) : b.out[i] = "started" \/ (i \in 1 .. Len(a.out) /\ b.out[i] = a.out[i])
    BY <1>2, <1>3, Shapes
  <2> QED
    BY <2>1, <2>2, <2>3, Shapes DEF Utters
<1>7. Honest'
  BY <1>1, <1>3, <1>4, <1>5, <1>6, Shapes, OneMoves
<1> QED
  BY <1>1, <1>3, <1>7, SlotsStay

LEMMA EmitExitHonest ==
  ASSUME Honest, NEW e \in Execs, EmitExit(e)
  PROVE  Honest' /\ Slots' = Slots
<1> DEFINE a == ex[e]
           d == Emit(a, "exit")
           r == [d EXCEPT !.st = "done"]
           b == Finish(r)
<1>1. /\ ex' = [ex EXCEPT ![e] = b] /\ UNCHANGED <<call, reaped>> /\ a.st = "exiting"
  BY DEF EmitExit, Only, Still
<1>2. /\ d \in ExecType /\ Like(d, a) /\ (d.out = a.out \/ (~a.closing /\ d.out = Append(a.out, "exit")))
      /\ d.closing = a.closing /\ d.killing = a.killing /\ d.outClosed = a.outClosed
  BY Shapes, EmitIs DEF Messages
<1> HIDE DEF d
<1>3. /\ b \in ExecType /\ b.st = "done" /\ b.proc = a.proc /\ b.pid = a.pid /\ b.mark = a.mark /\ b.slot = a.slot
      /\ b.status = a.status /\ b.out = d.out /\ b.piece = a.piece /\ b.closing
  <2>1. /\ r \in ExecType /\ r.st = "done" /\ r.out = d.out
        /\ r.proc = d.proc /\ r.pid = d.pid /\ r.mark = d.mark /\ r.slot = d.slot /\ r.status = d.status /\ r.piece = d.piece
    BY <1>2 DEF ExecType, Stages
  <2> HIDE DEF r
  <2>2. Finish(r) \in ExecType /\ Like(Finish(r), r) /\ Finish(r).closing /\ Finish(r).out = r.out
    BY <2>1, FinishIs
  <2> QED
    BY <1>2, <2>1, <2>2 DEF Like
<1> HIDE DEF b
<1>4. Stand(e, b)
  BY <1>1, <1>3, Shapes DEF Stand, Spawned, Holding
<1>5. Told(e, b, call[e])
  BY <1>1, <1>3, Shapes DEF Told
<1>6. Utters(b, call[e].ran)
  <2>1. \A m : Says1(a, call[e].ran, m) => Says1(b, call[e].ran, m)
    BY <1>1, <1>3 DEF Says1
  <2>2. ~a.closing => Says1(b, call[e].ran, "exit")
    BY <1>1, <1>3, Shapes DEF Says1, Refusals, Stand
  <2>3. \A i \in 1 .. Len(b.out) : (~a.closing /\ b.out[i] = "exit") \/ (i \in 1 .. Len(a.out) /\ b.out[i] = a.out[i])
    BY <1>2, <1>3, Shapes
  <2> QED
    BY <2>1, <2>2, <2>3, Shapes DEF Utters
<1>7. Honest'
  BY <1>1, <1>3, <1>4, <1>5, <1>6, Shapes, OneMoves
<1> QED
  BY <1>1, <1>3, <1>7, SlotsStay

\* A slot is given, or the caller is told why not.
LEMMA ReserveHonest ==
  ASSUME Honest, NEW e \in Execs, Reserve(e)
  PROVE  /\ Honest'
         /\ \/ RefusalOf(e) = "none" /\ e \notin Slots /\ Slots' = Slots \cup {e}
            \/ RefusalOf(e) # "none" /\ Slots' = Slots
<1> DEFINE a == ex[e]
           m == RefusalOf(e)
<1>a. a.st = "opened" /\ UNCHANGED <<call, reaped>>
  BY DEF Reserve, Still
<1>b. a \in ExecType /\ a.out \in Seq(Messages)
  BY Shapes
<1>1. CASE m = "none"
  <2> DEFINE b == [a EXCEPT !.st = "reserved", !.slot = TRUE]
  <2>1. ex' = [ex EXCEPT ![e] = b]
    BY <1>1 DEF Reserve, Only
  <2>2. /\ b \in ExecType /\ b.st = "reserved" /\ b.proc = a.proc /\ b.pid = a.pid /\ b.mark = a.mark /\ b.slot = TRUE
        /\ b.status = a.status /\ b.out = a.out /\ b.piece = a.piece /\ b.closing = a.closing
        /\ b.outClosed = a.outClosed /\ b.killing = a.killing
    BY <1>b DEF ExecType, Stages
  <2> HIDE DEF b
  <2>3. Stand(e, b)
    BY <1>a, <2>2, Shapes DEF Stand, Spawned, Holding
  <2>4. Told(e, b, call[e])
    BY <1>a, <2>2, Shapes DEF Told
  <2>5. Utters(b, call[e].ran)
    BY <1>a, <2>2, Shapes DEF Utters, Says1
  <2>6. Honest'
    BY <1>a, <2>1, <2>2, <2>3, <2>4, <2>5, Shapes, OneMoves
  <2>7. ~a.slot /\ ex'[e].slot /\ \A f \in Execs \ {e} : ex'[f] = ex[f]
    BY <1>a, <2>1, <2>2, Shapes DEF Stand, Holding, Spawned, Honest, ExTypes
  <2>8. e \notin Slots /\ Slots' = Slots \cup {e}
    BY <2>7 DEF Slots
  <2> QED
    BY <1>1, <2>6, <2>8
<1>2. CASE m # "none"
  <2> DEFINE d == [a EXCEPT !.st = "done"]
             b == Refuse(d, m)
  <2>1. ex' = [ex EXCEPT ![e] = b]
    BY <1>2 DEF Reserve, Only
  <2>2. m \in {"session_ending", "too_many_execs", "too_many_detached"}
    BY <1>2 DEF RefusalOf
  <2>3. /\ d \in ExecType /\ d.st = "done" /\ d.proc = a.proc /\ d.pid = a.pid /\ d.mark = a.mark /\ d.slot = a.slot
        /\ d.status = a.status /\ d.out = a.out /\ d.piece = a.piece
    BY <1>b DEF ExecType, Stages
  <2> HIDE DEF d, m
  <2>4. b \in ExecType /\ Like(b, d) /\ b.closing /\ (b.out = d.out \/ b.out = Append(d.out, m))
    <3>1. m \in Messages /\ d \in ExecType
      BY <2>2, <2>3 DEF Messages
    <3> QED
      BY <3>1, RefuseIs
  <2> HIDE DEF b
  <2>5. Stand(e, b)
    BY <1>a, <2>3, <2>4, Shapes DEF Stand, Spawned, Holding, Like
  <2>6. Told(e, b, call[e]) /\ ~call[e].ran
    BY <1>a, <2>3, <2>4, Shapes DEF Told, Like
  <2>7. Utters(b, call[e].ran)
    <3>1. \A n : Says1(a, call[e].ran, n) => Says1(b, call[e].ran, n)
      BY <1>a, <2>3, <2>4 DEF Says1, Like
    <3>2. Says1(b, call[e].ran, m)
      BY <2>2, <2>3, <2>4, <2>6 DEF Says1, Like
    <3>3. \A i \in 1 .. Len(b.out) : b.out[i] = m \/ (i \in 1 .. Len(a.out) /\ b.out[i] = a.out[i])
      BY <1>b, <2>3, <2>4
    <3> QED
      BY <3>1, <3>2, <3>3, Shapes DEF Utters
  <2>8. Honest'
    BY <1>a, <2>1, <2>3, <2>4, <2>5, <2>6, <2>7, Shapes, OneMoves DEF Like
  <2>9. Slots' = Slots
    BY <2>1, <2>3, <2>4, SlotsStay DEF Like
  <2> QED
    BY <1>2, <2>8, <2>9 DEF m
<1> QED
  BY <1>1, <1>2

\* What the slot of an exec that holds one is given back as.
LEMMA SlotBack ==
  ASSUME Honest, NEW e \in Execs, NEW b, ex[e].slot, ex' = [ex EXCEPT ![e] = b], ~b.slot
  PROVE  e \in Slots /\ Slots' = Slots \ {e}
<1>1. ex'[e] = b /\ \A f \in Execs \ {e} : ex'[f] = ex[f]
  BY DEF Honest, ExTypes
<1> QED
  BY <1>1 DEF Slots

LEMMA NotStartedHonest ==
  ASSUME Honest, NEW e \in Execs, NEW m \in {"refused", "not_found"}, NotStarted(e, m)
  PROVE  Honest' /\ e \in Slots /\ Slots' = Slots \ {e}
<1> DEFINE a == ex[e]
           d == [a EXCEPT !.st = "done"]
           r == Refuse(d, m)
           b == [r EXCEPT !.slot = FALSE]
<1>1. ex' = [ex EXCEPT ![e] = b] /\ a.st = "reserved" /\ UNCHANGED <<call, reaped>>
  BY DEF NotStarted, Release, Only, Still
<1>2. /\ d \in ExecType /\ d.st = "done" /\ d.proc = a.proc /\ d.pid = a.pid /\ d.mark = a.mark
      /\ d.status = a.status /\ d.out = a.out /\ d.piece = a.piece
  BY Shapes DEF ExecType, Stages
<1> HIDE DEF d
<1>3. r \in ExecType /\ Like(r, d) /\ r.closing /\ (r.out = d.out \/ r.out = Append(d.out, m))
  BY <1>2, RefuseIs DEF Messages
<1> HIDE DEF r
<1>4. /\ b \in ExecType /\ b.st = "done" /\ b.proc = a.proc /\ b.pid = a.pid /\ b.mark = a.mark /\ ~b.slot
      /\ b.status = a.status /\ b.piece = a.piece /\ b.closing /\ (b.out = a.out \/ b.out = Append(a.out, m))
  BY <1>2, <1>3 DEF ExecType, Like
<1> HIDE DEF b
<1>5. Stand(e, b) /\ a.slot
  BY <1>1, <1>4, Shapes DEF Stand, Spawned, Holding
<1>6. Told(e, b, call[e]) /\ ~call[e].ran
  BY <1>1, <1>4, Shapes DEF Told
<1>7. Utters(b, call[e].ran)
  <2>1. \A n : Says1(a, call[e].ran, n) => Says1(b, call[e].ran, n)
    BY <1>1, <1>4 DEF Says1
  <2>2. Says1(b, call[e].ran, m)
    BY <1>4, <1>6 DEF Says1
  <2>3. \A i \in 1 .. Len(b.out) : b.out[i] = m \/ (i \in 1 .. Len(a.out) /\ b.out[i] = a.out[i])
    <3>1. a.out \in Seq(Messages) /\ m \in Messages
      BY Shapes DEF ExecType, Messages
    <3>2. PICK o, p : o = a.out /\ p = b.out
      OBVIOUS
    <3>3. o \in Seq(Messages) /\ (p = o \/ p = Append(o, m))
      BY <1>4, <3>1, <3>2
    <3>4. \A i \in 1 .. Len(p) : p[i] = m \/ (i \in 1 .. Len(o) /\ p[i] = o[i])
      BY <3>1, <3>3
    <3> QED
      BY <3>2, <3>4
  <2> QED
    BY <2>1, <2>2, <2>3, Shapes DEF Utters
<1>8. Honest'
  BY <1>1, <1>4, <1>5, <1>6, <1>7, Shapes, OneMoves
<1> QED
  BY <1>1, <1>4, <1>5, <1>8, SlotBack

--------------------
\* Steps of a process, and of the reaper.

\* An attachment, its caller and the table move.
LEMMA AllMove ==
  ASSUME Honest, NEW e \in Execs, NEW b \in ExecType, NEW c \in CallType, NEW t \in Tables,
         ex' = [ex EXCEPT ![e] = b], call' = [call EXCEPT ![e] = c], reaped' = t,
         Stand(e, b), Told(e, b, c), Utters(b, c.ran), Marked(e, b, t), Numbered(t),
         \A f \in Execs \ {e} : Marked(f, ex[f], t), Apart'
  PROVE  Honest'
<1>1. ExTypes'
  BY DEF Honest, ExTypes
<1>2. ex'[e] = b /\ call'[e] = c
  BY Shapes
<1>3. \A f \in Execs \ {e} : ex'[f] = ex[f] /\ call'[f] = call[f]
  BY DEF Honest, ExTypes
<1>4. ASSUME NEW f \in Execs
      PROVE  Stand(f, ex'[f]) /\ Told(f, ex'[f], call'[f]) /\ Utters(ex'[f], call'[f].ran) /\ Marked(f, ex'[f], reaped')
  <2>1. CASE f = e
    BY <1>2, <2>1
  <2>2. CASE f # e
    BY <1>3, <1>4, <2>2, Shapes
  <2> QED
    BY <2>1, <2>2
<1> QED
  BY <1>1, <1>4 DEF Honest

\* A process starts, on a pid nothing holds.
LEMMA StartHonest ==
  ASSUME Honest, NEW e \in Execs, Start(e)
  PROVE  Honest' /\ Slots' = Slots
<1> DEFINE a == ex[e]
           p == FreePid
           b == [a EXCEPT !.st = "spawned", !.proc = "live", !.pid = p, !.mark = reaped.seq]
           c == [call[e] EXCEPT !.ran = TRUE]
<1>1. /\ ex' = [ex EXCEPT ![e] = b] /\ call' = [call EXCEPT ![e] = c] /\ UNCHANGED reaped
      /\ a.st = "reserved" /\ ~(Pids \subseteq InUse)
  BY DEF Start, Only, Mark, Honest, ExTypes
<1>2. p \in Pids /\ p \notin InUse
  BY <1>1 DEF FreePid
<1>3. p # 0
  BY <1>2, ExecAssumption
<1>4. a \in ExecType /\ a.out \in Seq(Messages) /\ call[e] \in CallType /\ reaped \in Tables /\ reaped.seq \in Nat
  BY Shapes DEF Honest, ExTypes, Tables
<1> HIDE DEF p
<1>5. /\ b \in ExecType /\ b.st = "spawned" /\ b.proc = "live" /\ b.pid = p /\ b.mark = reaped.seq /\ b.slot = a.slot
      /\ b.status = a.status /\ b.out = a.out /\ b.piece = a.piece /\ b.closing = a.closing
      /\ b.outClosed = a.outClosed /\ b.killing = a.killing
  BY <1>2, <1>4 DEF ExecType, Stages
<1>6. c \in CallType /\ c.ran /\ c.st = call[e].st /\ c.end = call[e].end /\ c.of = call[e].of /\ c.whole = call[e].whole
  BY <1>4 DEF CallType
<1> HIDE DEF b, c
<1>7. Stand(e, b) /\ a.status = "none" /\ Stand(e, a) /\ Told(e, a, call[e])
  BY <1>1, <1>3, <1>5, Shapes DEF Stand, Spawned, Holding
<1>8. Told(e, b, c)
  BY <1>1, <1>5, <1>6, <1>7 DEF Told
<1>9. Utters(b, c.ran)
  BY <1>1, <1>5, <1>6, Shapes DEF Utters, Says1
<1>10. Numbered(reaped)
  BY DEF Honest
<1>11. Marked(e, b, reaped)
  <2>1. \A i \in 1 .. Len(reaped.codes) : reaped.codes[i].seq \in Nat
    BY <1>4, Entries
  <2>2. \A i \in 1 .. Len(reaped.tombs) : reaped.tombs[i].seq \in Nat
    BY <1>4, Entries
  <2> QED
    BY <1>4, <1>5, <1>10, <2>1, <2>2 DEF Numbered, Marked
<1>12. \A f \in Execs \ {e} : Marked(f, ex[f], reaped)
  BY Shapes
<1>13. Apart'
  <2>1. ex'[e] = b /\ \A f \in Execs \ {e} : ex'[f] = ex[f]
    BY <1>1 DEF Honest, ExTypes
  <2>2. \A f \in Execs : ex[f].status = "none" => ex[f].pid # p
    BY <1>2 DEF InUse
  <2> QED
    BY <1>5, <2>1, <2>2 DEF Honest, Apart
<1>14. Honest'
  BY <1>1, <1>4, <1>5, <1>6, <1>7, <1>8, <1>9, <1>10, <1>11, <1>12, <1>13, AllMove
<1> QED
  BY <1>1, <1>5, <1>14, SlotsStay

\* The table loses outcomes.
LEMMA Shrinks ==
  ASSUME NEW t \in Tables, NEW u \in Tables, u.seq = t.seq,
         \A i \in 1 .. Len(u.codes) : \E j \in 1 .. Len(t.codes) : u.codes[i] = t.codes[j],
         \A i \in 1 .. Len(u.tombs) : \E j \in 1 .. Len(t.tombs) : u.tombs[i] = t.tombs[j]
  PROVE  /\ Numbered(t) => Numbered(u)
         /\ \A e, a : Marked(e, a, t) => Marked(e, a, u)
<1>1. Numbered(t) => Numbered(u)
  BY DEF Numbered
<1>2. ASSUME NEW e, NEW a, Marked(e, a, t) PROVE Marked(e, a, u)
  BY <1>2 DEF Marked
<1> QED
  BY <1>1, <1>2

\* The table gains an outcome of the pid p.
LEMMA Grows ==
  ASSUME NEW t \in Tables, NEW p \in Pids, NEW of \in Execs \cup {Orphan}, Numbered(t)
  PROVE  /\ Remember(t, p, of) \in Tables /\ Numbered(Remember(t, p, of))
         /\ \A e, a : /\ a.mark \in Nat /\ Marked(e, a, t)
                      /\ a.proc # "none" /\ a.status = "none" => a.pid # p \/ (of = e /\ a.proc # "live")
                      => Marked(e, a, Remember(t, p, of))
<1> DEFINE u == Remember(t, p, of)
           r == [pid |-> p, seq |-> t.seq + 1, of |-> of]
<1>1. /\ u \in Tables /\ u.seq = t.seq + 1 /\ t.seq \in Nat /\ r.pid = p /\ r.seq = t.seq + 1 /\ r.of = of
      /\ \A i \in 1 .. Len(u.codes) : u.codes[i] = r \/ \E j \in 1 .. Len(t.codes) : u.codes[i] = t.codes[j]
      /\ \A i \in 1 .. Len(u.tombs) :
           \/ u.tombs[i].pid = p /\ u.tombs[i].seq = t.seq + 1
           \/ \E j \in 1 .. Len(t.tombs) : u.tombs[i] = t.tombs[j]
           \/ \E j \in 1 .. Len(t.codes) : u.tombs[i].pid = t.codes[j].pid /\ u.tombs[i].seq = t.codes[j].seq
  BY RememberAdds DEF Tables
<1> HIDE DEF u, r
<1>2. /\ \A j \in 1 .. Len(t.codes) : t.codes[j].seq \in Nat /\ t.codes[j].seq <= t.seq
      /\ \A j \in 1 .. Len(t.tombs) : t.tombs[j].seq \in Nat /\ t.tombs[j].seq <= t.seq
  BY Entries DEF Numbered
<1>3. Numbered(u)
  <2>a. u.seq = t.seq + 1 /\ t.seq \in Nat
    BY <1>1
  <2>1. ASSUME NEW i \in 1 .. Len(u.codes) PROVE u.codes[i].seq <= u.seq
    <3>1. CASE u.codes[i] = r
      BY <1>1, <3>1
    <3>2. CASE \E j \in 1 .. Len(t.codes) : u.codes[i] = t.codes[j]
      <4>1. PICK j \in 1 .. Len(t.codes) : u.codes[i] = t.codes[j]
        BY <3>2
      <4>2. t.codes[j].seq \in Nat /\ t.codes[j].seq <= t.seq
        BY <1>2
      <4> QED
        BY <2>a, <4>1, <4>2
    <3> QED
      BY <1>1, <2>1, <3>1, <3>2
  <2>2. ASSUME NEW i \in 1 .. Len(u.tombs) PROVE u.tombs[i].seq <= u.seq
    <3>1. \/ u.tombs[i].seq = t.seq + 1
          \/ \E j \in 1 .. Len(t.tombs) : u.tombs[i].seq = t.tombs[j].seq
          \/ \E j \in 1 .. Len(t.codes) : u.tombs[i].seq = t.codes[j].seq
      BY <1>1, <2>2
    <3>2. ASSUME NEW j \in 1 .. Len(t.tombs), u.tombs[i].seq = t.tombs[j].seq PROVE u.tombs[i].seq <= u.seq
      <4>1. t.tombs[j].seq \in Nat /\ t.tombs[j].seq <= t.seq
        BY <1>2
      <4> QED
        BY <2>a, <3>2, <4>1
    <3>3. ASSUME NEW j \in 1 .. Len(t.codes), u.tombs[i].seq = t.codes[j].seq PROVE u.tombs[i].seq <= u.seq
      <4>1. t.codes[j].seq \in Nat /\ t.codes[j].seq <= t.seq
        BY <1>2
      <4> QED
        BY <2>a, <3>3, <4>1
    <3> QED
      BY <2>a, <3>1, <3>2, <3>3
  <2> QED
    BY <2>1, <2>2 DEF Numbered
<1>4. ASSUME NEW e, NEW a, a.mark \in Nat, Marked(e, a, t),
             a.proc # "none" /\ a.status = "none" => a.pid # p \/ (of = e /\ a.proc # "live")
      PROVE  Marked(e, a, u)
  <2> SUFFICES ASSUME a.proc # "none", a.status = "none"
               PROVE  /\ a.mark <= u.seq
                      /\ \A i \in 1 .. Len(u.codes) :
                           u.codes[i].pid = a.pid /\ u.codes[i].seq > a.mark => u.codes[i].of = e /\ a.proc # "live"
                      /\ \A i \in 1 .. Len(u.tombs) : u.tombs[i].pid = a.pid /\ u.tombs[i].seq > a.mark => a.proc # "live"
    BY DEF Marked
  <2>1. /\ a.mark <= t.seq
        /\ \A i \in 1 .. Len(t.codes) :
             t.codes[i].pid = a.pid /\ t.codes[i].seq > a.mark => t.codes[i].of = e /\ a.proc # "live"
        /\ \A i \in 1 .. Len(t.tombs) : t.tombs[i].pid = a.pid /\ t.tombs[i].seq > a.mark => a.proc # "live"
    BY <1>4 DEF Marked
  <2>2. a.mark <= u.seq
    BY <1>1, <1>4, <2>1
  <2>3. ASSUME NEW i \in 1 .. Len(u.codes), u.codes[i].pid = a.pid, u.codes[i].seq > a.mark
        PROVE  u.codes[i].of = e /\ a.proc # "live"
    BY <1>1, <1>4, <2>1, <2>3
  <2>4. ASSUME NEW i \in 1 .. Len(u.tombs), u.tombs[i].pid = a.pid, u.tombs[i].seq > a.mark
        PROVE  a.proc # "live"
    BY <1>1, <1>4, <2>1, <2>4
  <2> QED
    BY <2>2, <2>3, <2>4
<1> QED
  BY <1>1, <1>3, <1>4 DEF u

\* A process ends, and the reaper has its outcome.
LEMMA DiesHonest ==
  ASSUME Honest, NEW e \in Execs, Dies(e)
  PROVE  Honest' /\ Slots' = Slots
<1> DEFINE a == ex[e]
           k == IF a.killing THEN "killed" ELSE "ended"
           b == [a EXCEPT !.proc = k]
           t == Remember(reaped, a.pid, e)
<1>1. ex' = [ex EXCEPT ![e] = b] /\ UNCHANGED call /\ reaped' = t /\ a.proc = "live"
  BY DEF Dies, Only, Still
<1>2. a \in ExecType /\ a.out \in Seq(Messages) /\ reaped \in Tables /\ Numbered(reaped) /\ Stand(e, a) /\ Told(e, a, call[e])
  BY Shapes DEF Honest, ExTypes
<1>3. k \in {"killed", "ended"} /\ (k = "killed" => a.killing)
  OBVIOUS
<1> HIDE DEF k
<1>4. /\ b \in ExecType /\ b.st = a.st /\ b.proc = k /\ b.pid = a.pid /\ b.mark = a.mark /\ b.slot = a.slot
      /\ b.status = a.status /\ b.out = a.out /\ b.piece = a.piece /\ b.closing = a.closing
      /\ b.outClosed = a.outClosed /\ b.killing = a.killing /\ b.mark \in Nat
  BY <1>2, <1>3 DEF ExecType
<1> HIDE DEF b
<1>5. a.st \in Spawned /\ a.status = "none" /\ a.pid \in Pids /\ a.pid # 0
  BY <1>1, <1>2 DEF Stand, Spawned, ExecType, Stages
<1>6. Stand(e, b)
  BY <1>1, <1>2, <1>3, <1>4, <1>5 DEF Stand, Spawned, Holding
<1>7. Told(e, b, call[e])
  BY <1>1, <1>2, <1>3, <1>4 DEF Told
<1>8. Utters(b, call[e].ran)
  BY <1>4, <1>5, Shapes DEF Utters, Says1, Spawned
<1>9. t \in Tables /\ Numbered(t)
  BY <1>2, <1>5, Grows
<1>10. Marked(e, b, t)
  <2>1. Marked(e, b, reaped)
    BY <1>1, <1>3, <1>4, Shapes DEF Marked
  <2> QED
    BY <1>2, <1>3, <1>4, <1>5, <2>1, Grows
<1>11. \A f \in Execs \ {e} : Marked(f, ex[f], t)
  <2> SUFFICES ASSUME NEW f \in Execs \ {e} PROVE Marked(f, ex[f], t)
    OBVIOUS
  <2>1. ex[f].mark \in Nat /\ Marked(f, ex[f], reaped) /\ (ex[f].proc = "none" <=> ex[f].pid = 0)
    BY Shapes DEF ExecType, Stand
  <2>2. ex[f].proc # "none" /\ ex[f].status = "none" => ex[f].pid # a.pid
    BY <1>5, <2>1 DEF Honest, Apart
  <2> QED
    BY <1>2, <1>5, <2>1, <2>2, Grows
<1>12. Apart'
  <2>1. ex'[e] = b /\ \A f \in Execs \ {e} : ex'[f] = ex[f]
    BY <1>1 DEF Honest, ExTypes
  <2>2. \A f \in Execs : ex'[f].status = ex[f].status /\ ex'[f].pid = ex[f].pid
    BY <1>4, <2>1
  <2> QED
    BY <2>2 DEF Honest, Apart
<1>13. Honest'
  <2>1. call[e] \in CallType /\ call' = [call EXCEPT ![e] = call[e]]
    BY <1>1, Shapes
  <2> HIDE DEF t
  <2> QED
    BY <1>1, <1>4, <1>6, <1>7, <1>8, <1>9, <1>10, <1>11, <1>12, <2>1, AllMove
<1> QED
  BY <1>1, <1>4, <1>13, SlotsStay

\* An orphan's outcome, under a pid nothing holds.
LEMMA OrphanHonest ==
  ASSUME Honest, NEW p \in Pids, OrphanEnds(p)
  PROVE  Honest' /\ Slots' = Slots
<1> DEFINE t == Remember(reaped, p, Orphan)
<1>1. UNCHANGED <<ex, call>> /\ reaped' = t /\ p \notin InUse
  BY DEF OrphanEnds
<1>2. reaped \in Tables /\ Numbered(reaped) /\ Orphan \in Execs \cup {Orphan}
  BY DEF Honest, ExTypes
<1>3. t \in Tables /\ Numbered(t)
  BY <1>2, Grows
<1>4. ASSUME NEW e \in Execs PROVE Marked(e, ex[e], t)
  <2>1. ex[e].mark \in Nat /\ Marked(e, ex[e], reaped)
    BY <1>4, Shapes DEF ExecType
  <2>2. ex[e].status = "none" => ex[e].pid # p
    BY <1>1 DEF InUse
  <2> QED
    BY <1>2, <2>1, <2>2, Grows
<1> HIDE DEF t
<1>5. Honest'
  BY <1>1, <1>3, <1>4 DEF Honest, ExTypes, Apart
<1> QED
  BY <1>1, <1>5 DEF Slots

\* A waiter drops what is older than its child.
LEMMA DiscardHonest ==
  ASSUME Honest, NEW e \in Execs, Discard(e)
  PROVE  Honest' /\ Slots' = Slots
<1> DEFINE t == AwaitStatus(reaped, ex[e].pid, ex[e].mark).table
<1>1. UNCHANGED <<ex, call>> /\ reaped' = t
  BY DEF Discard, Still
<1>2. reaped \in Tables /\ Numbered(reaped)
  BY DEF Honest, ExTypes
<1>3. /\ t \in Tables /\ t.seq = reaped.seq
      /\ \A i \in 1 .. Len(t.codes) : \E j \in 1 .. Len(reaped.codes) : t.codes[i] = reaped.codes[j]
      /\ \A i \in 1 .. Len(t.tombs) : \E j \in 1 .. Len(reaped.tombs) : t.tombs[i] = reaped.tombs[j]
  BY <1>2, AwaitFinds
<1> HIDE DEF t
<1>4. Numbered(t) /\ \A f \in Execs : Marked(f, ex[f], t)
  BY <1>2, <1>3, Shrinks, Shapes
<1>5. Honest'
  BY <1>1, <1>3, <1>4 DEF Honest, ExTypes, Apart
<1> QED
  BY <1>1, <1>5 DEF Slots

\* The wait of an exec returns: its process is gone, and the outcome is
\* its own or was evicted.
LEMMA WaitHonest ==
  ASSUME Honest, NEW e \in Execs, WaitReturns(e)
  PROVE  Honest' /\ e \in Slots /\ Slots' = Slots \ {e}
<1> DEFINE a == ex[e]
           w == AwaitStatus(reaped, a.pid, a.mark)
           t == w.table
           s == IF a.st = "running" THEN "exiting" ELSE "done"
           d == [a EXCEPT !.st = s, !.status = w.found]
           b == [d EXCEPT !.slot = FALSE]
<1>1. /\ ex' = [ex EXCEPT ![e] = b] /\ reaped' = t /\ UNCHANGED call
      /\ a.st \in {"running", "reaping"} /\ a.piece # "written" /\ w.found # "wait"
  BY DEF WaitReturns, Release, Only, Still
<1>2. a \in ExecType /\ reaped \in Tables /\ Numbered(reaped) /\ Stand(e, a) /\ Told(e, a, call[e]) /\ Marked(e, a, reaped)
  BY Shapes DEF Honest, ExTypes
<1>3. /\ t \in Tables /\ t.seq = reaped.seq
      /\ \A i \in 1 .. Len(t.codes) : \E j \in 1 .. Len(reaped.codes) : t.codes[i] = reaped.codes[j]
      /\ \A i \in 1 .. Len(t.tombs) : \E j \in 1 .. Len(reaped.tombs) : t.tombs[i] = reaped.tombs[j]
      /\ \/ w.found = "wait"
         \/ \E j \in 1 .. Len(reaped.codes) :
              reaped.codes[j].pid = a.pid /\ reaped.codes[j].seq > a.mark /\ w.found = reaped.codes[j].of
         \/ w.found = "evicted" /\ \E j \in 1 .. Len(reaped.tombs) : reaped.tombs[j].pid = a.pid /\ reaped.tombs[j].seq > a.mark
  BY <1>2, AwaitFinds
<1> HIDE DEF w, t
<1>4. a.proc # "none" /\ a.status = "none" /\ a.slot /\ a.st \in Spawned
  BY <1>1, <1>2 DEF Stand, Spawned, Holding
<1>5. w.found \in {e, "evicted"} /\ a.proc # "live"
  BY <1>1, <1>2, <1>3, <1>4 DEF Marked
<1>6. w.found \in Outcomes /\ w.found # "none" /\ s \in {"exiting", "done"}
  BY <1>5, ExecAssumption DEF Outcomes
<1> HIDE DEF s
<1>7. /\ b \in ExecType /\ b.st = s /\ b.proc = a.proc /\ b.pid = a.pid /\ b.mark = a.mark /\ ~b.slot
      /\ b.status = w.found /\ b.out = a.out /\ b.piece = a.piece /\ b.closing = a.closing
      /\ b.outClosed = a.outClosed /\ b.killing = a.killing
  <2>1. /\ d \in ExecType /\ d.st = s /\ d.proc = a.proc /\ d.pid = a.pid /\ d.mark = a.mark
        /\ d.status = w.found /\ d.out = a.out /\ d.piece = a.piece /\ d.closing = a.closing
        /\ d.outClosed = a.outClosed /\ d.killing = a.killing
    BY <1>2, <1>6 DEF ExecType, Stages
  <2> HIDE DEF d
  <2> QED
    BY <2>1 DEF ExecType
<1> HIDE DEF b
<1>8. Stand(e, b)
  <2>1. a.proc \in {"ended", "killed"}
    BY <1>2, <1>4, <1>5 DEF ExecType
  <2> QED
    BY <1>1, <1>2, <1>4, <1>5, <1>6, <1>7, <2>1 DEF Stand, Spawned, Holding
<1>9. Told(e, b, call[e])
  BY <1>1, <1>2, <1>4, <1>6, <1>7 DEF Told
<1>10. Utters(b, call[e].ran)
  BY <1>4, <1>7, Shapes DEF Utters, Says1, Spawned
<1>11. Numbered(t) /\ \A f \in Execs : Marked(f, ex[f], t)
  BY <1>2, <1>3, Shrinks, Shapes
<1>12. Marked(e, b, t)
  BY <1>6, <1>7 DEF Marked
<1>13. Apart'
  <2>1. ex'[e] = b /\ \A f \in Execs \ {e} : ex'[f] = ex[f]
    BY <1>1 DEF Honest, ExTypes
  <2> QED
    BY <1>6, <1>7, <2>1 DEF Honest, Apart
<1>14. Honest'
  <2>1. call[e] \in CallType /\ call' = [call EXCEPT ![e] = call[e]]
    BY <1>1, Shapes
  <2> QED
    BY <1>1, <1>3, <1>7, <1>8, <1>9, <1>10, <1>11, <1>12, <1>13, <2>1, AllMove
<1> QED
  BY <1>1, <1>4, <1>7, <1>14, SlotBack

--------------------
\* Steps of the callers and of their streams.

\* A call that is over, and how.
Ended(c, end) == [c EXCEPT !.st = "over", !.end = end]

LEMMA EndedIs ==
  ASSUME NEW c \in CallType, NEW end \in Ends
  PROVE  /\ Ended(c, end) \in CallType /\ Ended(c, end).st = "over" /\ Ended(c, end).end = end
         /\ Ended(c, end).ran = c.ran /\ Ended(c, end).started = c.started
         /\ Ended(c, end).of = c.of /\ Ended(c, end).whole = c.whole
  BY DEF Ended, CallType

LEMMA OverIs ==
  ASSUME Honest, NEW e \in Execs, NEW end
  PROVE  Over(e, end) = [call EXCEPT ![e] = Ended(call[e], end)]
  BY DEF Over, Ended, Honest, ExTypes, CallType

\* A call that ends with no message says nothing of the command.
LEMMA EndedTold ==
  ASSUME NEW e, NEW a, NEW c \in CallType, NEW end \in {"left", "lost", "no_answer"}, Told(e, a, c)
  PROVE  Told(e, a, Ended(c, end)) /\ Ended(c, end) \in CallType /\ Ended(c, end).ran = c.ran
<1>1. end \in Ends
  BY DEF Ends
<1>2. /\ Ended(c, end) \in CallType /\ Ended(c, end).st = "over" /\ Ended(c, end).end = end
      /\ Ended(c, end).ran = c.ran /\ Ended(c, end).started = c.started
  BY <1>1, EndedIs
<1>3. Told(e, a, Ended(c, end))
  BY <1>2 DEF Told, Refusals
<1> QED
  BY <1>2, <1>3

\* The call moves, the attachment does not.
LEMMA CallMoves ==
  ASSUME Honest, NEW e \in Execs, NEW c \in CallType, UNCHANGED <<ex, reaped>>, call' = [call EXCEPT ![e] = c],
         Told(e, ex[e], c), c.ran = call[e].ran
  PROVE  Honest' /\ Slots' = Slots
<1>1. /\ ex[e] \in ExecType /\ ex' = [ex EXCEPT ![e] = ex[e]] /\ Stand(e, ex[e]) /\ Utters(ex[e], c.ran)
  BY Shapes
<1>2. Honest'
  BY <1>1, OneMoves
<1> QED
  BY <1>2 DEF Slots

LEMMA AskHonest ==
  ASSUME Honest, NEW e \in Execs, NEW d \in BOOLEAN, Ask(e, d)
  PROVE  Honest' /\ Slots' = Slots
<1>1. call[e].st = "idle" /\ UNCHANGED <<ex, reaped>>
  BY DEF Ask
<1>2. call[e] \in CallType /\ Told(e, ex[e], call[e])
  BY Shapes
<1>3. CASE call' = [call EXCEPT ![e].st = "parked", ![e].det = d]
  <2> DEFINE c == [call[e] EXCEPT !.st = "parked", !.det = d]
  <2>1. call' = [call EXCEPT ![e] = c]
    BY <1>3 DEF Honest, ExTypes, CallType
  <2>2. /\ c \in CallType /\ c.st = "parked" /\ c.ran = call[e].ran /\ c.started = call[e].started /\ c.end = call[e].end
        /\ c.of = call[e].of /\ c.whole = call[e].whole
    BY <1>2 DEF CallType
  <2> HIDE DEF c
  <2>3. Told(e, ex[e], c)
    BY <1>1, <1>2, <2>2 DEF Told
  <2> QED
    BY <1>1, <2>1, <2>2, <2>3, CallMoves
<1>4. ASSUME NEW end \in {"refused", "conflict"}, call' = Over(e, end) PROVE Honest' /\ Slots' = Slots
  <2>1. call' = [call EXCEPT ![e] = Ended(call[e], end)]
    BY <1>4, OverIs
  <2>2. end \in Ends
    BY DEF Ends, Messages
  <2>3. /\ Ended(call[e], end) \in CallType /\ Ended(call[e], end).st = "over" /\ Ended(call[e], end).end = end
        /\ Ended(call[e], end).ran = call[e].ran /\ Ended(call[e], end).started = call[e].started
    BY <1>2, <2>2, EndedIs
  <2>4. Told(e, ex[e], Ended(call[e], end))
    BY <1>1, <1>2, <2>3 DEF Told
  <2> QED
    BY <1>1, <2>1, <2>3, <2>4, CallMoves
<1> QED
  BY <1>3, <1>4 DEF Ask

LEMMA DialBackHonest ==
  ASSUME Honest, NEW e \in Execs, DialBack(e)
  PROVE  Honest' /\ Slots' = Slots
<1>1. call[e].st = "parked" /\ UNCHANGED reaped
  BY DEF DialBack
<1>2. /\ call[e] \in CallType /\ Told(e, ex[e], call[e]) /\ ex[e].st = "none" /\ ~call[e].ran /\ Stand(e, ex[e])
  BY <1>1, Shapes DEF Told
<1>3. CASE /\ call' = [call EXCEPT ![e].st = "open"]
           /\ ex' = [ex EXCEPT ![e] = [NoExec EXCEPT !.st = "opened", !.det = call[e].det]]
  <2> DEFINE c == [call[e] EXCEPT !.st = "open"]
             b == [NoExec EXCEPT !.st = "opened", !.det = call[e].det]
  <2>1. call' = [call EXCEPT ![e] = c] /\ ex' = [ex EXCEPT ![e] = b]
    BY <1>3 DEF Honest, ExTypes, CallType
  <2>2. /\ c \in CallType /\ c.st = "open" /\ c.ran = call[e].ran /\ c.started = call[e].started /\ c.end = call[e].end
        /\ c.of = call[e].of /\ c.whole = call[e].whole
    BY <1>2 DEF CallType
  <2>3. call[e].det \in BOOLEAN
    BY <1>2 DEF CallType
  <2>4. /\ b \in ExecType /\ b.st = "opened" /\ b.proc = "none" /\ b.pid = 0 /\ b.mark = 0 /\ ~b.slot /\ b.status = "none"
        /\ b.out = <<>> /\ b.piece = "none" /\ ~b.closing /\ ~b.outClosed /\ ~b.killing
    <3>1. <<>> \in Seq(Messages)
      OBVIOUS
    <3> QED
      BY <2>3, <3>1 DEF NoExec, ExecType, Stages, Outcomes
  <2> HIDE DEF b, c
  <2>5. Stand(e, b)
    BY <2>4 DEF Stand, Holding, Spawned
  <2>6. Told(e, b, c)
    BY <1>1, <1>2, <2>2, <2>4 DEF Told, Refusals
  <2>7. Utters(b, c.ran)
    BY <2>4 DEF Utters
  <2>8. Marked(e, b, reaped) /\ reaped \in Tables /\ Numbered(reaped) /\ \A f \in Execs : Marked(f, ex[f], reaped)
    BY <2>4 DEF Marked, Honest, ExTypes
  <2>9. Apart'
    <3>1. ex'[e] = b /\ \A f \in Execs \ {e} : ex'[f] = ex[f]
      BY <2>1 DEF Honest, ExTypes
    <3> QED
      BY <2>4, <3>1 DEF Honest, Apart
  <2>10. Honest'
    BY <1>1, <2>1, <2>2, <2>4, <2>5, <2>6, <2>7, <2>8, <2>9, AllMove
  <2>11. b.slot = ex[e].slot
    BY <1>2, <2>4, Shapes DEF Stand, Holding, Spawned, ExecType
  <2> QED
    BY <2>1, <2>10, <2>11, SlotsStay
<1>4. CASE call' = Over(e, "no_answer") /\ UNCHANGED ex
  <2>1. call' = [call EXCEPT ![e] = Ended(call[e], "no_answer")]
    BY <1>4, OverIs
  <2> QED
    BY <1>1, <1>2, <1>4, <2>1, EndedTold, CallMoves
<1> QED
  BY <1>3, <1>4 DEF DialBack

\* A call ends by itself, with what it has not read.
LEMMA EndsHonest ==
  ASSUME Honest, NEW e \in Execs, NoDialBack(e) \/ StreamEnds(e)
  PROVE  Honest' /\ Slots' = Slots
<1>1. PICK end \in {"left", "lost", "no_answer"} : call' = Over(e, end) /\ UNCHANGED <<ex, reaped>>
  <2>1. CASE NoDialBack(e)
    BY <2>1 DEF NoDialBack
  <2>2. CASE StreamEnds(e) /\ call[e].st = "open"
    BY <2>2 DEF StreamEnds
  <2>3. CASE StreamEnds(e) /\ call[e].st # "open"
    BY <2>3 DEF StreamEnds
  <2> QED
    BY <2>1, <2>2, <2>3
<1>2. call' = [call EXCEPT ![e] = Ended(call[e], end)]
  BY <1>1, OverIs
<1>3. call[e] \in CallType /\ Told(e, ex[e], call[e])
  BY Shapes
<1>4. Told(e, ex[e], Ended(call[e], end)) /\ Ended(call[e], end) \in CallType /\ Ended(call[e], end).ran = call[e].ran
  BY <1>3, EndedTold
<1> QED
  BY <1>1, <1>2, <1>4, CallMoves

LEMMA EndSpliceHonest ==
  ASSUME Honest, NEW e \in Execs, NEW end \in {"left", "no_answer"}, EndSplice(e, end)
  PROVE  Honest' /\ Slots' = Slots
<1> DEFINE a == ex[e]
           b == [a EXCEPT !.bye = TRUE, !.out = <<>>]
           c == Ended(call[e], end)
<1>1. ex' = [ex EXCEPT ![e] = b] /\ UNCHANGED reaped /\ call' = [call EXCEPT ![e] = c]
  <2>1. ex' = [ex EXCEPT ![e].bye = TRUE, ![e].out = <<>>] /\ UNCHANGED reaped /\ call' = Over(e, end)
    BY DEF EndSplice
  <2>2. ex \in [Execs -> ExecType]
    BY DEF Honest, ExTypes
  <2>3. ex' = [ex EXCEPT ![e] = b]
    BY <2>1, <2>2 DEF ExecType
  <2> QED
    BY <2>1, <2>3, OverIs
<1>2. a \in ExecType /\ Stand(e, a) /\ Told(e, a, call[e]) /\ call[e] \in CallType
  BY Shapes
<1>3. c \in CallType /\ Told(e, a, c)
  BY <1>2, EndedTold
<1>4. b \in ExecType /\ Like(b, a) /\ Shut(b, a) /\ b.out = <<>>
  <2>1. <<>> \in Seq(Messages)
    OBVIOUS
  <2> QED
    BY <1>2, <2>1 DEF ExecType, Like, Shut, Stand
<1> HIDE DEF b, c
<1>5. Stand(e, b) /\ Told(e, b, c) /\ Utters(b, c.ran)
  BY <1>2, <1>3, <1>4, LikeStands, LikeTold DEF Utters
<1>6. Honest'
  BY <1>1, <1>3, <1>4, <1>5, OneMoves DEF Like
<1> QED
  BY <1>1, <1>4, <1>6, SlotsStay DEF Like

\* One message reaches the caller, which believes it.
LEMMA DeliverHonest ==
  ASSUME Honest, NEW e \in Execs, Deliver(e)
  PROVE  Honest' /\ Slots' = Slots
<1> DEFINE a == ex[e]
           m == Head(a.out)
           started == m = "started"
           last == m # "piece" /\ (~started \/ a.det)
           exit == m = "exit"
           st == IF last THEN "over" ELSE "live"
           of == IF exit THEN (IF a.proc = "killed" THEN "killed" ELSE a.status) ELSE call[e].of
           end == IF last /\ ~started THEN m ELSE call[e].end
           c == [call[e] EXCEPT !.st = st, !.started = @ \/ started, !.of = of, !.whole = exit /\ a.piece # "cut", !.end = end]
           q == IF last THEN <<>> ELSE Tail(a.out)
           b == [a EXCEPT !.out = q, !.bye = last]
<1>1. a \in ExecType /\ call[e] \in CallType /\ Stand(e, a) /\ Told(e, a, call[e]) /\ Utters(a, call[e].ran)
  BY Shapes
<1>2. /\ call[e].st \in {"open", "live"} /\ Len(a.out) > 0 /\ UNCHANGED reaped
      /\ call' = [call EXCEPT ![e].st = st, ![e].started = @ \/ started, ![e].of = of, ![e].whole = exit /\ a.piece # "cut", ![e].end = end]
      /\ ex' = [ex EXCEPT ![e].out = q, ![e].bye = last]
  BY DEF Deliver, Says
<1>3. a.out \in Seq(Messages) /\ a.out # <<>> /\ m \in Messages /\ m = a.out[1] /\ 1 \in 1 .. Len(a.out) /\ Tail(a.out) \in Seq(Messages)
  BY <1>1, <1>2 DEF ExecType
<1>4. Says1(a, call[e].ran, m)
  BY <1>1, <1>3 DEF Utters
<1>5. st \in {"over", "live"} /\ of \in Outcomes \cup {"killed"} /\ end \in Ends /\ q \in Seq(Messages)
  <2>1. end \in Ends
    BY <1>1, <1>3 DEF CallType, Ends
  <2>2. of \in Outcomes \cup {"killed"}
    BY <1>1 DEF CallType, ExecType
  <2>3. q \in Seq(Messages)
    BY <1>3
  <2> QED
    BY <2>1, <2>2, <2>3
<1>6. call' = [call EXCEPT ![e] = c] /\ ex' = [ex EXCEPT ![e] = b]
  <2> HIDE DEF st, of, end, q, started, last, exit
  <2> QED
    BY <1>2 DEF Honest, ExTypes, CallType, ExecType
<1>7. /\ c \in CallType /\ c.st = st /\ c.started = (call[e].started \/ started) /\ c.of = of
      /\ c.whole = (exit /\ a.piece # "cut") /\ c.end = end /\ c.ran = call[e].ran
  <2>1. (call[e].started \/ started) \in BOOLEAN /\ (exit /\ a.piece # "cut") \in BOOLEAN
    OBVIOUS
  <2> HIDE DEF st, of, end, started, exit
  <2> QED
    BY <1>1, <1>5, <2>1 DEF CallType
<1>8. b \in ExecType /\ Like(b, a) /\ Shut(b, a) /\ b.out = q
  <2>1. last \in BOOLEAN
    OBVIOUS
  <2> HIDE DEF q, last
  <2> QED
    BY <1>1, <1>5, <2>1 DEF ExecType, Like, Shut, Stand
<1> HIDE DEF b, c
<1>9. Stand(e, b)
  BY <1>1, <1>8, LikeStands
<1>10. Utters(b, c.ran)
  <2>1. \A i \in 1 .. Len(q) : i + 1 \in 1 .. Len(a.out) /\ q[i] = a.out[i + 1]
    BY <1>3
  <2>2. \A i \in 1 .. Len(q) : Says1(a, call[e].ran, q[i])
    BY <1>1, <2>1 DEF Utters
  <2> HIDE DEF q
  <2> QED
    BY <1>7, <1>8, <2>2, LikeSays DEF Utters
<1>11. Told(e, b, c)
  <2>1. call[e].end = "none"
    BY <1>1, <1>2 DEF Told
  <2>2. c.end = "exit" => exit
    BY <1>7, <2>1
  <2>3. exit => a.st = "done" /\ a.status \in {e, "evicted"} /\ a.proc = "ended" /\ a.piece # "cut"
    BY <1>1, <1>4 DEF Says1, Stand
  <2>4. c.end = "exit" => c.of \in {e, "evicted"} /\ c.whole
    BY <1>7, <2>2, <2>3
  <2>5. c.end \in Refusals \cup {"conflict"} => ~c.ran /\ b.st = "done"
    <3>1. m # "conflict"
      BY <1>3 DEF Messages
    <3>2. c.end \in Refusals \cup {"conflict"} => m \in Refusals
      BY <1>7, <2>1, <3>1 DEF Refusals
    <3> QED
      BY <1>4, <1>7, <1>8, <3>2 DEF Says1, Like
  <2>6. b.proc # "none" \/ c.started => c.ran
    BY <1>1, <1>4, <1>7, <1>8 DEF Told, Says1, Like
  <2>7. b.st \in {"opened", "reserved"} => ~c.ran
    BY <1>1, <1>7, <1>8 DEF Told, Like
  <2>8. c.st # "over" => c.end = "none"
    BY <1>7, <2>1
  <2>9. c.st \notin {"idle", "parked"}
    BY <1>7
  <2> QED
    BY <2>4, <2>5, <2>6, <2>7, <2>8, <2>9 DEF Told
<1>12. Honest'
  BY <1>2, <1>6, <1>7, <1>8, <1>9, <1>10, <1>11, OneMoves DEF Like
<1> QED
  BY <1>6, <1>8, <1>12, SlotsStay DEF Like

\* Every stream of the connection ends.
Cut(e) ==
  IF e \in Streaming THEN [call[e] EXCEPT !.st = "over", !.end = IF call[e].st = "open" THEN "no_answer" ELSE "lost"] ELSE call[e]

LEMMA CutIs ==
  ASSUME Honest, NEW e \in Execs
  PROVE  /\ Cut(e) \in CallType /\ Cut(e).ran = call[e].ran
         /\ \A a : Told(e, a, call[e]) => Told(e, a, Cut(e))
         /\ e \in Streaming => Cut(e).st = "over" /\ Cut(e).end \in {"no_answer", "lost"} /\ Cut(e).started = call[e].started
<1>1. call[e] \in CallType
  BY Shapes
<1>2. CASE e \in Streaming
  <2>1. PICK end \in {"no_answer", "lost"} : Cut(e) = Ended(call[e], end)
    BY <1>2 DEF Cut, Ended
  <2>2. \A a : Told(e, a, call[e]) => Told(e, a, Ended(call[e], end))
    BY <1>1, EndedTold
  <2>3. end \in Ends
    BY DEF Ends
  <2> QED
    BY <1>1, <2>1, <2>2, <2>3, EndedIs
<1>3. CASE e \notin Streaming
  BY <1>1, <1>3 DEF Cut
<1> QED
  BY <1>2, <1>3

LEMMA LinkLostHonest ==
  ASSUME Honest, LinkLost
  PROVE  Honest' /\ Slots' = Slots
<1> DEFINE cut(e) == [ex[e] EXCEPT !.bye = TRUE, !.out = <<>>]
<1>1. PICK lost \in SUBSET {e \in Streaming : ex[e].st = "opened"} :
        ex' = [e \in Execs |-> CASE e \in lost -> NoExec
                                 [] e \in Streaming \ lost -> cut(e)
                                 [] OTHER -> ex[e]]
  BY DEF LinkLost
<1>2. call' = [e \in Execs |-> Cut(e)] /\ UNCHANGED reaped
  BY DEF LinkLost, CutStreams, Cut
<1>3. ASSUME NEW e \in Execs
      PROVE  /\ ex'[e] \in ExecType /\ ex'[e].slot = ex[e].slot /\ ex'[e].pid = ex[e].pid /\ ex'[e].status = ex[e].status
             /\ Stand(e, ex'[e]) /\ Told(e, ex'[e], Cut(e)) /\ Utters(ex'[e], Cut(e).ran) /\ Marked(e, ex'[e], reaped)
  <2> DEFINE b == ex'[e]
  <2>1. /\ ex[e] \in ExecType /\ Stand(e, ex[e]) /\ Told(e, ex[e], call[e]) /\ Utters(ex[e], call[e].ran)
        /\ Marked(e, ex[e], reaped) /\ Told(e, ex[e], Cut(e)) /\ Cut(e).ran = call[e].ran
    BY <1>3, Shapes, CutIs
  <2>2. CASE e \in lost
    <3>1. e \in Streaming /\ ex[e].st = "opened" /\ b = NoExec
      BY <1>1, <1>3, <2>2
    <3>2. /\ b \in ExecType /\ b.st = "none" /\ b.proc = "none" /\ b.pid = 0 /\ ~b.slot /\ b.slot \in BOOLEAN
          /\ b.status = "none" /\ b.out = <<>> /\ b.piece = "none" /\ ~b.closing /\ ~b.outClosed /\ ~b.killing
      <4>1. <<>> \in Seq(Messages)
        OBVIOUS
      <4> QED
        BY <3>1, <4>1 DEF NoExec, ExecType, Stages, Outcomes
    <3> HIDE DEF b
    <3>3. ~ex[e].slot /\ ex[e].slot \in BOOLEAN /\ ex[e].pid = 0 /\ ex[e].status = "none"
      BY <2>1, <3>1 DEF Stand, Holding, Spawned, ExecType
    <3>4. Stand(e, b)
      BY <3>2 DEF Stand, Holding, Spawned
    <3>5. Told(e, b, Cut(e))
      BY <2>1, <3>1, <3>2, CutIs DEF Told, Refusals
    <3>6. Utters(b, Cut(e).ran) /\ Marked(e, b, reaped)
      BY <3>2 DEF Utters, Marked
    <3> QED
      BY <3>2, <3>3, <3>4, <3>5, <3>6 DEF b
  <2>3. CASE e \in Streaming \ lost
    <3>1. b = cut(e)
      BY <1>1, <1>3, <2>3
    <3>2. b \in ExecType /\ Like(b, ex[e]) /\ Shut(b, ex[e]) /\ b.out = <<>>
      <4>1. <<>> \in Seq(Messages)
        OBVIOUS
      <4> QED
        BY <2>1, <3>1, <4>1 DEF ExecType, Like, Shut, Stand
    <3> HIDE DEF b
    <3>3. Stand(e, b) /\ Told(e, b, Cut(e)) /\ Utters(b, Cut(e).ran)
      BY <2>1, <3>2, LikeStands, LikeTold DEF Utters
    <3>4. Marked(e, b, reaped)
      BY <2>1, <3>2 DEF Marked, Like
    <3> QED
      BY <3>2, <3>3, <3>4 DEF Like, b
  <2>4. CASE e \notin lost /\ e \notin Streaming
    <3>1. b = ex[e]
      BY <1>1, <1>3, <2>4
    <3> QED
      BY <2>1, <3>1
  <2> QED
    BY <2>2, <2>3, <2>4
<1>4. DOMAIN ex' = Execs /\ ex' = [e \in Execs |-> ex'[e]]
  BY <1>1
<1>5. \A e \in Execs : call'[e] = Cut(e) /\ Cut(e) \in CallType
  BY <1>2, CutIs
<1>6. ExTypes'
  BY <1>2, <1>3, <1>4, <1>5 DEF Honest, ExTypes
<1>7. Apart'
  BY <1>3 DEF Honest, Apart
<1>8. Honest'
  BY <1>2, <1>3, <1>5, <1>6, <1>7 DEF Honest
<1>9. Slots' = Slots
  BY <1>3 DEF Slots
<1> QED
  BY <1>8, <1>9

\* The sandbox is gone, and with it everything of its execs.
LEMMA GoneHonest ==
  ASSUME Honest, NEW b, SandboxGone(b)
  PROVE  Honest' /\ Slots' = {}
<1>1. ex' = [e \in Execs |-> NoExec] /\ call' = [e \in Execs |-> Cut(e)] /\ reaped' = EmptyTable
  BY DEF SandboxGone, Cut
<1>2. /\ NoExec \in ExecType /\ NoExec.st = "none" /\ NoExec.proc = "none" /\ NoExec.pid = 0 /\ ~NoExec.slot
      /\ NoExec.status = "none" /\ NoExec.out = <<>> /\ NoExec.piece = "none" /\ ~NoExec.closing
      /\ ~NoExec.outClosed /\ ~NoExec.killing
  <2>1. <<>> \in Seq(Messages)
    OBVIOUS
  <2> QED
    BY <2>1 DEF NoExec, ExecType, Stages, Outcomes
<1>3. EmptyTable \in Tables /\ Numbered(EmptyTable)
  <2>1. <<>> \in Seq(Codes) /\ <<>> \in Seq(Tombs) /\ Len(<<>>) = 0
    OBVIOUS
  <2> QED
    BY <2>1 DEF EmptyTable, Tables, Numbered
<1>4. ASSUME NEW e \in Execs
      PROVE  Stand(e, NoExec) /\ Told(e, NoExec, Cut(e)) /\ Utters(NoExec, Cut(e).ran) /\ Marked(e, NoExec, EmptyTable)
  <2>1. Stand(e, NoExec)
    BY <1>2 DEF Stand, Holding, Spawned
  <2>2. Told(e, NoExec, call[e])
    BY <1>2, <1>4, Shapes DEF Told
  <2>3. Utters(NoExec, Cut(e).ran) /\ Marked(e, NoExec, EmptyTable)
    BY <1>2 DEF Utters, Marked
  <2> QED
    BY <2>1, <2>2, <2>3, CutIs
<1>5. ExTypes'
  BY <1>1, <1>2, <1>3, CutIs DEF ExTypes
<1>6. Apart'
  BY <1>1, <1>2 DEF Apart
<1>7. Honest'
  BY <1>1, <1>3, <1>4, <1>5, <1>6 DEF Honest
<1> QED
  BY <1>1, <1>2, <1>7 DEF Slots

--------------------
\* What the runner knows of the execs, and the door that a suspend shuts.

Notes == [live : Nat, seq : Nat \ {0}]
Frames == [reg : Nat, boot : Nat, live : Nat, seq : Nat]
BoxType == [up : BOOLEAN, quiescing : BOOLEAN, seq : Nat, owed : SUBSET Notes, mail : SUBSET Notes,
            sweep : SUBSET Execs, suspending : BOOLEAN]
LinkType == [reg : Nat, boot : Nat, restated : BOOLEAN]
EntType == [state : {"running", "suspending", "suspended"}, boot : Nat, exited : Int, attachments : Nat, detachAt : Nat,
            live : Nat, seq : Nat, reg : Nat, stamped : Nat, endedAt : Nat]
OpType == [st : {"none", "noticed", "acked", "freeze", "frozen"}, clean : BOOLEAN]
WorldType == [now : Nat, row : {"running", "suspended_warm", "suspended_cold"}, frozen : BOOLEAN, regs : Nat,
              left : Nat, orphans : Nat]

RestTypes ==
  /\ setup \in Setups /\ box \in BoxType /\ link \in LinkType /\ wire \subseteq Frames /\ ent \in EntType
  /\ op \in OpType /\ world \in WorldType

\* While a suspend is in flight the sandbox is the one it was asked of;
\* once that sandbox has been heard its door is shut, and the word that
\* nothing runs is given of an empty live set.
Latch ==
  /\ op.st \in {"noticed", "acked", "freeze"} => ent.state = "running"
  /\ op.st = "frozen" => ent.state = "suspended"
  /\ op.st # "none" => box.up
  /\ op.st \in {"none", "noticed", "acked"} => ~op.clean
  /\ ~box.up => ent.state = "suspended"
  /\ op.st = "acked" => box.quiescing
  /\ op.clean => box.quiescing /\ Slots = {}

\* A report tells of the slots as they were at its number.
Fair(r) == r.seq <= box.seq /\ (r.seq = box.seq => r.live = Cardinality(Slots))

\* The last number the sandbox gave is with a report on its way, or with
\* the runner; nothing of an earlier connection or boot is taken for it.
Counted ==
  /\ (link.reg # 0 => link.reg = world.regs) /\ ent.reg <= world.regs
  /\ ~box.up => link.reg = 0
  /\ link.reg # 0 => link.boot = ent.boot
  /\ link.restated => link.reg # 0
  /\ \A r \in box.owed \cup box.mail : Fair(r)
  /\ \A q, r \in box.mail : q = r
  /\ \A f \in wire : /\ f.seq # 0 /\ f.reg # 0 /\ f.reg <= world.regs
                     /\ f.reg = link.reg => f.boot = link.boot /\ Fair(f)
  /\ ent.reg = link.reg /\ link.reg # 0 => ent.seq <= box.seq /\ (ent.seq = box.seq => ent.live = Cardinality(Slots))
  /\ link.restated => \/ \E r \in box.owed \cup box.mail : r.seq = box.seq
                      \/ \E f \in wire : f.reg = link.reg /\ f.seq = box.seq
                      \/ ent.reg = link.reg /\ ent.seq = box.seq

\* Where no observer is installed nothing is reported.
Silent == ~Can("counts") => box.owed = {} /\ box.mail = {} /\ wire = {} /\ ~link.restated /\ ent.reg = 0

Watched == RestTypes /\ Latch /\ Counted /\ Silent

\* A step of which the runner hears nothing.
Aside ==
  /\ UNCHANGED <<setup, box, link, wire, op>> /\ Slots' = Slots
  /\ ent' \in EntType /\ ent'.state = ent.state /\ ent'.boot = ent.boot /\ ent'.live = ent.live /\ ent'.seq = ent.seq
  /\ ent'.reg = ent.reg /\ ent'.stamped = ent.stamped /\ ent'.endedAt = ent.endedAt /\ ent'.exited = ent.exited
  /\ world' \in WorldType /\ world'.regs = world.regs /\ world.now <= world'.now

LEMMA AsideWatched ==
  ASSUME Watched, Aside
  PROVE  Watched'
<1>1. RestTypes'
  BY DEF Watched, RestTypes, Aside
<1>2. Latch'
  BY DEF Watched, Latch, Aside
<1>3. Counted'
  BY DEF Watched, Counted, Fair, Aside
<1>4. Silent'
  BY DEF Watched, Silent, Can, Aside
<1> QED
  BY <1>1, <1>2, <1>3, <1>4 DEF Watched

LEMMA StreamsCounted == Cardinality(Streaming) \in Nat /\ IsFiniteSet(Slots) /\ Cardinality(Slots) \in Nat
<1>1. IsFiniteSet(Execs) /\ Streaming \subseteq Execs /\ Slots \subseteq Execs
  BY ExecAssumption DEF Streaming, Slots
<1> QED
  BY <1>1, FS_Subset, FS_CardinalityType

\* The count of the attachments, and the clock it moves.
LEMMA AttachEndedIs ==
  ASSUME RestTypes, NEW n \in Nat
  PROVE  /\ AttachEnded(n) \in EntType /\ AttachEnded(n).state = ent.state /\ AttachEnded(n).boot = ent.boot
         /\ AttachEnded(n).live = ent.live /\ AttachEnded(n).seq = ent.seq /\ AttachEnded(n).reg = ent.reg
         /\ AttachEnded(n).stamped = ent.stamped /\ AttachEnded(n).endedAt = ent.endedAt
         /\ AttachEnded(n).exited = ent.exited
<1> DEFINE k == IF ent.attachments > n THEN ent.attachments - n ELSE 0
           d == IF n > 0 THEN world.now ELSE ent.detachAt
<1>1. k \in Nat /\ d \in Nat /\ ent \in EntType
  BY DEF RestTypes, EntType, WorldType
<1>2. AttachEnded(n) = [ent EXCEPT !.attachments = k, !.detachAt = d]
  BY DEF AttachEnded
<1> HIDE DEF k, d
<1> QED
  BY <1>1, <1>2 DEF EntType

LEMMA EntKept ==
  ASSUME RestTypes, UNCHANGED <<setup, box, link, wire, op, world>>, Slots' = Slots,
         ent' = ent \/ (\E n \in Nat : ent' = AttachEnded(n)) \/ ent' = [ent EXCEPT !.attachments = @ + 1]
  PROVE  Aside
<1>1. ent \in EntType /\ world \in WorldType /\ world.now \in Nat
  BY DEF RestTypes, WorldType
<1>2. CASE ent' = ent
  BY <1>1, <1>2 DEF Aside
<1>3. ASSUME NEW n \in Nat, ent' = AttachEnded(n) PROVE Aside
  BY <1>1, <1>3, AttachEndedIs DEF Aside
<1>4. CASE ent' = [ent EXCEPT !.attachments = @ + 1]
  BY <1>1, <1>4 DEF Aside, EntType
<1> QED
  BY <1>2, <1>3, <1>4

\* The steps of callers, streams and processes that leave the slots.
LEMMA AsideSteps ==
  ASSUME Honest, RestTypes, NEW e \in Execs,
         \/ DialBack(e) \/ NoAnswer(e) \/ Deliver(e) \/ StreamEnds(e) \/ Start(e) \/ Arm(e) \/ Announce(e)
         \/ HandOver(e) \/ Killed(e) \/ Discard(e) \/ EmitExit(e) \/ CloseExec(e) \/ PumpStdin(e)
         \/ NoDialBack(e) \/ HangUp(e) \/ Write(e) \/ Exits(e) \/ OfferStdin(e)
  PROVE  Honest' /\ Aside
<1>1. CASE DialBack(e)
  <2>1. /\ UNCHANGED <<setup, box, link, wire, op, world>>
        /\ ent' = ent \/ ent' = [ent EXCEPT !.attachments = @ + 1]
    BY <1>1 DEF DialBack
  <2> QED
    BY <1>1, <2>1, DialBackHonest, EntKept
<1>2. CASE NoAnswer(e) \/ HangUp(e)
  <2>1. PICK end \in {"left", "no_answer"} : EndSplice(e, end)
    BY <1>2 DEF NoAnswer, HangUp
  <2>2. UNCHANGED <<setup, box, link, wire, op, world>> /\ ent' = AttachEnded(1)
    BY <2>1 DEF EndSplice
  <2> QED
    BY <2>1, <2>2, EndSpliceHonest, EntKept
<1>3. CASE Deliver(e)
  <2>1. UNCHANGED <<setup, box, link, wire, op, world>> /\ (ent' = ent \/ ent' = AttachEnded(1))
    BY <1>3 DEF Deliver
  <2> QED
    BY <1>3, <2>1, DeliverHonest, EntKept
<1>4. CASE StreamEnds(e) \/ NoDialBack(e)
  <2>1. UNCHANGED <<setup, box, link, wire, op, world>> /\ (ent' = ent \/ ent' = AttachEnded(1))
    BY <1>4 DEF StreamEnds, NoDialBack
  <2> QED
    BY <1>4, <2>1, EndsHonest, EntKept
<1>5. CASE Start(e)
  <2>1. UNCHANGED <<setup, box, link, wire, op, world, ent>>
    BY <1>5 DEF Start
  <2> QED
    BY <1>5, <2>1, StartHonest, EntKept
<1>6. CASE Arm(e)
  <2>1. UNCHANGED <<setup, box, link, wire, op, world, ent>>
    BY <1>6 DEF Arm, Still
  <2> QED
    BY <1>6, <2>1, ArmHonest, EntKept
<1>7. CASE Announce(e)
  <2>1. UNCHANGED <<setup, box, link, wire, op, world, ent>>
    BY <1>7 DEF Announce, Still
  <2> QED
    BY <1>7, <2>1, AnnounceHonest, EntKept
<1>8. CASE HandOver(e)
  <2>1. UNCHANGED <<setup, box, link, wire, op, world, ent>>
    BY <1>8 DEF HandOver, Still
  <2> QED
    BY <1>8, <2>1, HandOverHonest, EntKept
<1>9. CASE Killed(e) \/ Exits(e)
  <2>1. Dies(e)
    BY <1>9 DEF Killed, Exits
  <2>2. UNCHANGED <<setup, box, link, wire, op, world, ent>>
    BY <2>1 DEF Dies, Still
  <2> QED
    BY <2>1, <2>2, DiesHonest, EntKept
<1>10. CASE Discard(e)
  <2>1. UNCHANGED <<setup, box, link, wire, op, world, ent>>
    BY <1>10 DEF Discard, Still
  <2> QED
    BY <1>10, <2>1, DiscardHonest, EntKept
<1>11. CASE EmitExit(e)
  <2>1. UNCHANGED <<setup, box, link, wire, op, world, ent>>
    BY <1>11 DEF EmitExit, Still
  <2> QED
    BY <1>11, <2>1, EmitExitHonest, EntKept
<1>12. CASE CloseExec(e)
  <2>1. UNCHANGED <<setup, box, link, wire, op, world, ent>>
    BY <1>12 DEF CloseExec, Still
  <2> QED
    BY <1>12, <2>1, CloseExecHonest, EntKept
<1>13. CASE PumpStdin(e)
  <2>1. UNCHANGED <<setup, box, link, wire, op, world, ent>>
    BY <1>13 DEF PumpStdin, Still
  <2> QED
    BY <1>13, <2>1, PumpStdinHonest, EntKept
<1>14. CASE Write(e)
  <2>1. UNCHANGED <<setup, box, link, wire, op, world, ent>>
    BY <1>14 DEF Write, Still
  <2> QED
    BY <1>14, <2>1, WriteHonest, EntKept
<1>15. CASE OfferStdin(e)
  <2>1. UNCHANGED <<setup, box, link, wire, op, ent>> /\ world' = [world EXCEPT !.left = @ - 1] /\ world.left > 0
    BY <1>15 DEF OfferStdin
  <2>2. world \in WorldType /\ ent \in EntType
    BY DEF RestTypes
  <2>3. world' \in WorldType /\ world'.regs = world.regs /\ world'.now = world.now /\ world.now \in Nat
    BY <2>1, <2>2 DEF WorldType
  <2> QED
    BY <1>15, <2>1, <2>2, <2>3, OfferStdinHonest DEF Aside
<1> QED
  BY <1>1, <1>2, <1>3, <1>4, <1>5, <1>6, <1>7, <1>8, <1>9, <1>10, <1>11, <1>12, <1>13, <1>14, <1>15

LEMMA OtherAsides ==
  ASSUME Honest, RestTypes,
         \/ Tick
         \/ \E p \in Pids : OrphanEnds(p)
         \/ \E d \in setup.kinds : NextAsked # {} /\ Ask(CHOOSE e \in NextAsked : TRUE, d)
  PROVE  Honest' /\ Aside
<1>1. world \in WorldType /\ ent \in EntType /\ setup \in Setups
  BY DEF RestTypes
<1>2. CASE Tick
  <2>1. UNCHANGED <<setup, call, ex, box, reaped, link, wire, ent, op>> /\ world' = [world EXCEPT !.now = @ + 1]
    BY <1>2 DEF Tick
  <2>2. world' \in WorldType /\ world'.regs = world.regs /\ world'.now = world.now + 1 /\ world.now \in Nat
    BY <1>1, <2>1 DEF WorldType
  <2> QED
    BY <1>1, <2>1, <2>2 DEF Aside, Honest, ExTypes, Apart, Slots
<1>3. ASSUME NEW p \in Pids, OrphanEnds(p) PROVE Honest' /\ Aside
  <2>1. /\ UNCHANGED <<setup, box, link, wire, ent, op>>
        /\ world' = [world EXCEPT !.orphans = @ - 1] /\ world.orphans > 0
    BY <1>3 DEF OrphanEnds
  <2>2. world' \in WorldType /\ world'.regs = world.regs /\ world'.now = world.now /\ world.now \in Nat
    BY <1>1, <2>1 DEF WorldType
  <2> QED
    BY <1>1, <1>3, <2>1, <2>2, OrphanHonest DEF Aside
<1>4. ASSUME NEW d \in setup.kinds, NextAsked # {}, Ask(CHOOSE e \in NextAsked : TRUE, d) PROVE Honest' /\ Aside
  <2> DEFINE e == CHOOSE x \in NextAsked : TRUE
  <2>1. e \in NextAsked
    BY <1>4
  <2>2. e \in Execs /\ d \in BOOLEAN
    BY <1>1, <1>4, <2>1, ExecAssumption DEF NextAsked
  <2>3. Ask(e, d)
    BY <1>4
  <2> HIDE DEF e
  <2>4. UNCHANGED <<setup, box, link, wire, op, world, ent>>
    BY <2>3 DEF Ask
  <2> QED
    BY <2>2, <2>3, <2>4, AskHonest, EntKept
<1> QED
  BY <1>2, <1>3, <1>4

\* The report of a change: numbered, and of the slots as they are.
LEMMA NotedWatched ==
  ASSUME Watched, NEW S \in SUBSET Execs, Slots' = S, box' = Noted(Cardinality(S)), ~op.clean,
         UNCHANGED <<setup, link, wire, ent, op, world>>
  PROVE  Watched'
<1> DEFINE n == Cardinality(S)
<1>1. n \in Nat
  BY ExecAssumption, FS_Subset, FS_CardinalityType
<1>2. RestTypes /\ box \in BoxType /\ box.seq \in Nat /\ box.owed \subseteq Notes /\ box.mail \subseteq Notes
  BY DEF Watched, RestTypes, BoxType
<1>3. CASE ~Can("counts")
  <2>1. box' = box /\ Can("counts")' = Can("counts")
    BY <1>3 DEF Noted, Can
  <2>2. box.owed = {} /\ box.mail = {} /\ wire = {} /\ ~link.restated /\ ent.reg = 0
    BY <1>3 DEF Watched, Silent
  <2>3. RestTypes'
    BY <1>2, <2>1 DEF RestTypes
  <2>4. Latch'
    BY <2>1 DEF Watched, Latch
  <2>5. Counted'
    BY <2>1, <2>2 DEF Watched, Counted
  <2>6. Silent'
    BY <2>1, <2>2 DEF Silent
  <2> QED
    BY <2>3, <2>4, <2>5, <2>6 DEF Watched
<1>4. CASE Can("counts")
  <2>0. PICK r : r = [live |-> n, seq |-> box.seq + 1]
    OBVIOUS
  <2>1. box' = [box EXCEPT !.seq = @ + 1, !.owed = @ \cup {r}] /\ Can("counts")'
    BY <1>4, <2>0 DEF Noted, Can
  <2>2. r \in Notes /\ r.live = n /\ r.seq = box.seq + 1
    BY <1>1, <1>2, <2>0 DEF Notes
  <2> HIDE DEF n
  <2>3. /\ box' \in BoxType /\ box'.seq = box.seq + 1 /\ box'.owed = box.owed \cup {r} /\ box'.mail = box.mail
        /\ box'.up = box.up /\ box'.quiescing = box.quiescing
    <3>1. PICK o : o = box.owed \cup {r}
      OBVIOUS
    <3>2. o \in SUBSET Notes /\ box.seq + 1 \in Nat
      BY <1>2, <2>2, <3>1
    <3>3. box' = [box EXCEPT !.seq = box.seq + 1, !.owed = o]
      BY <2>1, <3>1
    <3> QED
      BY <1>2, <3>1, <3>2, <3>3 DEF BoxType
  <2>4. RestTypes'
    BY <1>2, <2>3 DEF RestTypes
  <2>5. Latch'
    BY <2>3 DEF Watched, Latch
  <2>6. (\A q \in Notes : q.seq \in Nat) /\ (\A q \in Frames : q.seq \in Nat)
    BY DEF Notes, Frames
  <2>7. Counted'
    <3>1. \A q \in box'.owed \cup box'.mail : Fair(q)'
      <4>1. Fair(r)'
        <5>1. r.live = Cardinality(Slots') /\ r.seq = box'.seq /\ r.seq \in Nat
          BY <1>2, <2>2, <2>3 DEF n
        <5> QED
          BY <5>1 DEF Fair
      <4>2. \A q \in box.owed \cup box.mail : Fair(q)'
        BY <1>2, <2>3, <2>6 DEF Fair, Watched, Counted
      <4> QED
        BY <2>3, <4>1, <4>2
    <3>2. \A f \in wire : f.reg = link.reg => Fair(f)'
      BY <1>2, <2>3, <2>6 DEF Fair, Watched, Counted, RestTypes
    <3>3. ent.reg = link.reg /\ link.reg # 0 => ent.seq < box'.seq
      BY <1>2, <2>3 DEF Watched, Counted, RestTypes, EntType
    <3>4. \E q \in box'.owed \cup box'.mail : q.seq = box'.seq
      BY <2>2, <2>3
    <3>5. ent.seq \in Nat /\ box'.seq \in Nat
      BY <1>2, <2>3 DEF RestTypes, EntType
    <3> QED
      BY <2>3, <3>1, <3>2, <3>3, <3>4, <3>5 DEF Watched, Counted
  <2>8. Silent'
    BY <2>1 DEF Silent
  <2> QED
    BY <2>4, <2>5, <2>7, <2>8 DEF Watched
<1> QED
  BY <1>3, <1>4

LEMMA ReserveWatched ==
  ASSUME Honest, Watched, NEW e \in Execs, Reserve(e)
  PROVE  Honest' /\ Watched'
<1>1. CASE RefusalOf(e) = "none"
  <2>1. ~box.quiescing
    BY <1>1 DEF RefusalOf
  <2>2. Honest' /\ e \notin Slots /\ Slots' = Slots \cup {e}
    BY <1>1, ReserveHonest
  <2>3. Cardinality(Slots \cup {e}) = Cardinality(Slots) + 1 /\ Slots \cup {e} \in SUBSET Execs
    BY <2>2, StreamsCounted, FS_AddElement DEF Slots
  <2>4. box' = Noted(Cardinality(Slots \cup {e})) /\ UNCHANGED <<setup, link, wire, ent, op, world>>
    BY <1>1, <2>3 DEF Reserve, Still
  <2>5. ~op.clean
    BY <2>1, <2>4 DEF Watched, Latch, RestTypes
  <2> QED
    BY <2>2, <2>3, <2>4, <2>5, NotedWatched
<1>2. CASE RefusalOf(e) # "none"
  <2>1. Honest' /\ Slots' = Slots
    BY <1>2, ReserveHonest
  <2>2. UNCHANGED <<setup, box, link, wire, ent, op, world>>
    BY <1>2 DEF Reserve, Still
  <2> QED
    BY <2>1, <2>2, EntKept, AsideWatched DEF Watched
<1> QED
  BY <1>1, <1>2

LEMMA ReleaseWatched ==
  ASSUME Honest, Watched, NEW e \in Execs,
         BadRequest(e) \/ NotFound(e) \/ SpawnFails(e) \/ WaitReturns(e)
  PROVE  Honest' /\ Watched'
<1>1. Honest' /\ e \in Slots /\ Slots' = Slots \ {e}
  BY NotStartedHonest, WaitHonest DEF BadRequest, NotFound, SpawnFails
<1>2. /\ box' = Noted(Cardinality(Slots) - 1)
      /\ UNCHANGED <<setup, link, wire, ent, op, world>>
  BY DEF BadRequest, NotFound, SpawnFails, WaitReturns, NotStarted, Release, Still
<1>3. Cardinality(Slots \ {e}) = Cardinality(Slots) - 1 /\ Slots \ {e} \in SUBSET Execs
  BY <1>1, StreamsCounted, FS_RemoveElement DEF Slots
<1>4. ~op.clean
  BY <1>1 DEF Watched, Latch
<1> QED
  BY <1>1, <1>2, <1>3, <1>4, NotedWatched

\* The attachments, the callers and the table stay.
LEMMA HonestStays ==
  ASSUME Honest, UNCHANGED <<ex, call, reaped>>
  PROVE  Honest' /\ Slots' = Slots
  BY DEF Honest, ExTypes, Apart, Slots

\* Nothing that is counted moves.
LEMMA CountsStay ==
  ASSUME Watched, UNCHANGED <<setup, link, wire>>, Slots' = Slots,
         box'.seq = box.seq, box'.owed = box.owed, box'.mail = box.mail, box'.up = box.up,
         ent'.boot = ent.boot, ent'.live = ent.live, ent'.seq = ent.seq, ent'.reg = ent.reg, world'.regs = world.regs
  PROVE  Counted' /\ Silent'
  BY DEF Watched, Counted, Silent, Can, Fair

\* The suspend, step by step.
LEMMA DoorWatched ==
  ASSUME Honest, Watched,
         \/ Suspend \/ HearNotice \/ AnswerReady \/ GiveUpWaiting \/ Freeze \/ Thaw \/ ClaimIdle
         \/ \E e \in Execs : KillOne(e)
  PROVE  Honest' /\ Watched'
<1>a. /\ setup \in Setups /\ box \in BoxType /\ link \in LinkType /\ wire \subseteq Frames /\ ent \in EntType
      /\ op \in OpType /\ world \in WorldType
  BY DEF Watched, RestTypes
<1>b. Slots \in SUBSET Execs /\ (Slots = {}) \in BOOLEAN
  BY DEF Slots
<1>1. CASE Suspend
  <2>1. /\ UNCHANGED <<setup, call, ex, box, reaped, link, wire, ent>> /\ ent.state = "running" /\ op = NoOp
        /\ op' = [st |-> IF link.reg = 0 THEN "freeze" ELSE "noticed", clean |-> FALSE]
        /\ world' = [world EXCEPT !.left = @ - 1] /\ world.left > 0
    BY <1>1 DEF Suspend, Spend
  <2>2. op' \in OpType /\ op'.st \in {"freeze", "noticed"} /\ ~op'.clean
    BY <2>1 DEF OpType
  <2>3. world' \in WorldType /\ world'.regs = world.regs
    BY <1>a, <2>1 DEF WorldType
  <2>4. box.up
    BY <2>1 DEF Watched, Latch
  <2>5. Latch'
    BY <2>1, <2>2, <2>4 DEF Latch
  <2> QED
    BY <1>a, <2>1, <2>2, <2>3, <2>5, HonestStays, CountsStay DEF Watched, RestTypes
<1>2. CASE HearNotice
  <2>1. /\ UNCHANGED <<setup, call, ex, reaped, link, wire, ent, world>> /\ op.st = "noticed"
        /\ op' = [op EXCEPT !.st = "acked"]
        /\ box' = [box EXCEPT !.suspending = TRUE, !.quiescing = TRUE, !.sweep = Slots]
    BY <1>2 DEF HearNotice
  <2>2. op' \in OpType /\ op'.st = "acked" /\ op'.clean = op.clean
    BY <1>a, <2>1 DEF OpType
  <2>3. /\ box' \in BoxType /\ box'.seq = box.seq /\ box'.owed = box.owed /\ box'.mail = box.mail /\ box'.up = box.up
        /\ box'.quiescing
    BY <1>a, <1>b, <2>1 DEF BoxType
  <2>4. Latch'
    BY <2>1, <2>2, <2>3 DEF Watched, Latch
  <2> QED
    BY <1>a, <2>1, <2>2, <2>3, <2>4, HonestStays, CountsStay DEF Watched, RestTypes
<1>3. CASE AnswerReady
  <2>1. /\ UNCHANGED <<setup, call, ex, reaped, link, wire, ent, world>>
        /\ box' = [box EXCEPT !.suspending = FALSE]
        /\ op' = IF op.st = "acked" THEN [st |-> "freeze", clean |-> Slots = {}] ELSE op
    BY <1>3 DEF AnswerReady
  <2>2. /\ box' \in BoxType /\ box'.seq = box.seq /\ box'.owed = box.owed /\ box'.mail = box.mail /\ box'.up = box.up
        /\ box'.quiescing = box.quiescing
    BY <1>a, <2>1 DEF BoxType
  <2>3. Slots' = Slots
    BY <2>1, HonestStays
  <2>4. CASE op.st = "acked"
    <3>1. op' \in OpType /\ op'.st = "freeze" /\ (op'.clean <=> Slots = {})
      BY <1>b, <2>1, <2>4 DEF OpType
    <3>2. Latch'
      BY <2>1, <2>2, <2>3, <2>4, <3>1 DEF Watched, Latch
    <3> QED
      BY <1>a, <2>1, <2>2, <3>1, <3>2, HonestStays, CountsStay DEF Watched, RestTypes
  <2>5. CASE op.st # "acked"
    <3>1. op' = op
      BY <2>1, <2>5
    <3>2. Latch'
      BY <2>1, <2>2, <2>3, <3>1 DEF Watched, Latch
    <3> QED
      BY <1>a, <2>1, <2>2, <3>1, <3>2, HonestStays, CountsStay DEF Watched, RestTypes
  <2> QED
    BY <2>4, <2>5
<1>4. CASE GiveUpWaiting
  <2>1. /\ UNCHANGED <<setup, call, ex, box, reaped, link, wire, ent, world>> /\ op.st \in {"noticed", "acked"}
        /\ op' = [st |-> "freeze", clean |-> FALSE]
    BY <1>4 DEF GiveUpWaiting
  <2>2. op' \in OpType /\ op'.st = "freeze" /\ ~op'.clean
    BY <2>1 DEF OpType
  <2>3. Latch'
    BY <2>1, <2>2 DEF Watched, Latch
  <2> QED
    BY <1>a, <2>1, <2>2, <2>3, HonestStays, CountsStay DEF Watched, RestTypes
<1>5. CASE Freeze
  <2>1. /\ UNCHANGED <<setup, call, ex, box, reaped, link, wire>> /\ op.st = "freeze"
        /\ op' = [op EXCEPT !.st = "frozen"] /\ ent' = [ent EXCEPT !.state = "suspended"]
        /\ world' = [world EXCEPT !.frozen = TRUE, !.row = "suspended_warm"]
    BY <1>5 DEF Freeze
  <2>2. op' \in OpType /\ op'.st = "frozen" /\ op'.clean = op.clean
    BY <1>a, <2>1 DEF OpType
  <2>3. /\ ent' \in EntType /\ ent'.state = "suspended" /\ ent'.boot = ent.boot /\ ent'.live = ent.live
        /\ ent'.seq = ent.seq /\ ent'.reg = ent.reg
    BY <1>a, <2>1 DEF EntType
  <2>4. world' \in WorldType /\ world'.regs = world.regs
    BY <1>a, <2>1 DEF WorldType
  <2>5. Slots' = Slots
    BY <2>1, HonestStays
  <2>6. Latch'
    BY <2>1, <2>2, <2>3, <2>5 DEF Watched, Latch
  <2> QED
    BY <1>a, <2>1, <2>2, <2>3, <2>4, <2>6, HonestStays, CountsStay DEF Watched, RestTypes
<1>6. CASE Thaw
  <2>1. /\ UNCHANGED <<setup, call, ex, box, reaped, link, wire>> /\ op.st = "frozen"
        /\ op' = NoOp /\ ent' = [ent EXCEPT !.state = "running"]
        /\ world' = [world EXCEPT !.frozen = FALSE, !.row = "running"]
    BY <1>6 DEF Thaw
  <2>2. op' \in OpType /\ op'.st = "none" /\ ~op'.clean
    BY <2>1 DEF OpType, NoOp
  <2>3. /\ ent' \in EntType /\ ent'.state = "running" /\ ent'.boot = ent.boot /\ ent'.live = ent.live
        /\ ent'.seq = ent.seq /\ ent'.reg = ent.reg
    BY <1>a, <2>1 DEF EntType
  <2>4. world' \in WorldType /\ world'.regs = world.regs
    BY <1>a, <2>1 DEF WorldType
  <2>5. Latch'
    BY <2>1, <2>2, <2>3 DEF Watched, Latch
  <2> QED
    BY <1>a, <2>1, <2>2, <2>3, <2>4, <2>5, HonestStays, CountsStay DEF Watched, RestTypes
<1>7. CASE ClaimIdle
  <2>1. /\ UNCHANGED <<setup, call, ex, box, reaped, link, wire, op, world>> /\ op = NoOp
        /\ ent' = [ent EXCEPT !.state = "suspending"] /\ IdleFor >= IdleStop
    BY <1>7 DEF ClaimIdle
  <2>2. /\ ent' \in EntType /\ ent'.state = "suspending" /\ ent'.boot = ent.boot /\ ent'.live = ent.live
        /\ ent'.seq = ent.seq /\ ent'.reg = ent.reg
    BY <1>a, <2>1 DEF EntType
  <2>3. op.st = "none" /\ ~op.clean
    BY <2>1 DEF NoOp
  <2>4. ent.state = "running"
    <3>1. IdleStop \in Nat
      BY ExecAssumption
    <3>2. ~(-1 >= IdleStop)
      BY <3>1
    <3> QED
      BY <2>1, <3>2 DEF IdleFor
  <2>5. Latch'
    BY <2>1, <2>2, <2>3, <2>4 DEF Watched, Latch
  <2> QED
    BY <1>a, <2>1, <2>2, <2>5, HonestStays, CountsStay DEF Watched, RestTypes
<1>8. ASSUME NEW e \in Execs, KillOne(e) PROVE Honest' /\ Watched'
  <2>1. UNCHANGED <<setup, link, wire, ent, op, world>> /\ box' = [box EXCEPT !.sweep = @ \ {e}]
    BY <1>8 DEF KillOne, Still
  <2>2. /\ box' \in BoxType /\ box'.seq = box.seq /\ box'.owed = box.owed /\ box'.mail = box.mail /\ box'.up = box.up
        /\ box'.quiescing = box.quiescing
    <3>1. PICK s : s = box.sweep \ {e}
      OBVIOUS
    <3>2. s \in SUBSET Execs /\ box' = [box EXCEPT !.sweep = s]
      BY <1>a, <2>1, <3>1 DEF BoxType
    <3> QED
      BY <1>a, <3>2 DEF BoxType
  <2>3. Honest' /\ Slots' = Slots
    BY <1>8, KillOneHonest
  <2>4. Latch'
    BY <2>1, <2>2, <2>3 DEF Watched, Latch
  <2> QED
    BY <1>a, <2>1, <2>2, <2>3, <2>4, CountsStay DEF Watched, RestTypes
<1> QED
  BY <1>1, <1>2, <1>3, <1>4, <1>5, <1>6, <1>7, <1>8

\* A connection is lost, made again, or ends with its sandbox.
LEMMA LinkWatched ==
  ASSUME Honest, Watched, LinkLost \/ Redial \/ StopContainer \/ ColdResume \/ Replaced
  PROVE  Honest' /\ Watched'
<1>a. /\ setup \in Setups /\ box \in BoxType /\ link \in LinkType /\ wire \subseteq Frames /\ ent \in EntType
      /\ op \in OpType /\ world \in WorldType
  BY DEF Watched, RestTypes
<1>b. RestTypes /\ Latch /\ Counted /\ Silent
  BY DEF Watched
<1>n. NoLink \in LinkType /\ NoLink.reg = 0 /\ ~NoLink.restated
  BY DEF NoLink, LinkType
<1>s. PICK n \in Nat : n = Cardinality(Streaming)
  BY StreamsCounted
<1>e. PICK d : d = AttachEnded(n)
  OBVIOUS
<1>f. /\ d \in EntType /\ d.state = ent.state /\ d.boot = ent.boot /\ d.live = ent.live /\ d.seq = ent.seq
      /\ d.reg = ent.reg
  BY <1>b, <1>e, AttachEndedIs
<1>g. ASSUME link' = NoLink, wire' = wire, world'.regs = world.regs, ent'.reg = ent.reg, setup' = setup,
             \A r \in box'.owed \cup box'.mail : Fair(r)', \A q, r \in box'.mail : q = r,
             ~Can("counts") => box'.owed = {} /\ box'.mail = {}
      PROVE  Counted' /\ Silent'
  <2>0. world.regs \in Nat /\ (\A f \in wire : f.reg # 0)
    BY <1>a, <1>b DEF WorldType, Counted
  <2>1. Counted'
    BY <1>b, <1>n, <1>g, <2>0 DEF Counted
  <2>2. Silent'
    BY <1>b, <1>n, <1>g DEF Silent, Can
  <2> QED
    BY <2>1, <2>2
<1>1. CASE LinkLost
  <2>1. /\ UNCHANGED <<setup, box, reaped, wire, op>> /\ link' = NoLink /\ ent' = d
        /\ world' = [world EXCEPT !.left = @ - 1] /\ world.left > 0
    BY <1>1, <1>s, <1>e DEF LinkLost, CutStreams, Spend
  <2>2. world' \in WorldType /\ world'.regs = world.regs
    BY <1>a, <2>1 DEF WorldType
  <2>3. Honest' /\ Slots' = Slots
    BY <1>1, LinkLostHonest
  <2>4. Latch'
    BY <1>b, <1>f, <2>1, <2>3 DEF Latch
  <2>5. \A r \in box'.owed \cup box'.mail : Fair(r)'
    BY <1>b, <2>1, <2>3 DEF Counted, Fair
  <2>6. (\A q, r \in box'.mail : q = r) /\ (~Can("counts") => box'.owed = {} /\ box'.mail = {})
    BY <1>b, <2>1 DEF Counted, Silent
  <2>7. Counted' /\ Silent'
    BY <1>f, <1>g, <2>1, <2>2, <2>5, <2>6
  <2>8. RestTypes'
    BY <1>a, <1>f, <1>n, <2>1, <2>2 DEF RestTypes
  <2> QED
    BY <2>3, <2>4, <2>7, <2>8 DEF Watched
<1>2. CASE Redial
  <2>1. /\ UNCHANGED <<setup, call, ex, box, reaped, wire, ent, op>> /\ Awake /\ link.reg = 0
        /\ link' = [reg |-> world.regs + 1, boot |-> ent.boot, restated |-> FALSE]
        /\ world' = [world EXCEPT !.regs = @ + 1]
    BY <1>2 DEF Redial
  <2>2. world' \in WorldType /\ world'.regs = world.regs + 1 /\ world.regs \in Nat
    BY <1>a, <2>1 DEF WorldType
  <2>3. /\ link' \in LinkType /\ link'.reg = world.regs + 1 /\ link'.boot = ent.boot /\ ~link'.restated
        /\ link'.restated = FALSE
    BY <1>a, <2>1, <2>2 DEF LinkType, EntType
  <2>4. Honest' /\ Slots' = Slots
    BY <2>1, HonestStays
  <2>5. Latch'
    BY <1>b, <2>1, <2>4 DEF Latch
  <2>6. /\ ent.reg \in Nat /\ ent.reg <= world.regs /\ (\A f \in wire : f.reg \in Nat /\ f.reg <= world.regs) /\ box.up
    BY <1>a, <1>b, <2>1 DEF Counted, EntType, Frames, Awake
  <2>7. ent.reg # link'.reg /\ (\A f \in wire : f.reg # link'.reg /\ f.reg <= world'.regs) /\ ent.reg <= world'.regs
    BY <2>2, <2>3, <2>6
  <2>8. Counted'
    BY <1>b, <2>1, <2>2, <2>3, <2>4, <2>6, <2>7 DEF Counted, Fair
  <2>9. Silent'
    BY <1>b, <2>1, <2>3 DEF Silent, Can
  <2>10. RestTypes'
    BY <1>a, <2>1, <2>2, <2>3 DEF RestTypes
  <2> QED
    BY <2>4, <2>5, <2>8, <2>9, <2>10 DEF Watched
<1>3. ASSUME NEW b, SandboxGone(b), b \in BoxType, b.owed = {}, b.mail = {}, UNCHANGED <<setup, wire, op>>,
             ent' \in EntType, ent'.reg = ent.reg, world' \in WorldType, world'.regs = world.regs,
             op.st = "none", b.up \/ ent'.state = "suspended"
      PROVE  Honest' /\ Watched'
  <2>1. box' = b /\ link' = NoLink
    BY <1>3 DEF SandboxGone
  <2>3. Honest'
    BY <1>3, GoneHonest
  <2>4. Latch'
    BY <1>b, <1>3, <2>1 DEF Latch
  <2>5. Counted' /\ Silent'
    BY <1>3, <1>g, <2>1
  <2>6. RestTypes'
    BY <1>a, <1>n, <1>3, <2>1 DEF RestTypes
  <2> QED
    BY <2>3, <2>4, <2>5, <2>6 DEF Watched
<1>4. NewBox \in BoxType /\ NewBox.owed = {} /\ NewBox.mail = {} /\ NewBox.up
  BY DEF NewBox, BoxType
<1>5. CASE StopContainer
  <2>1. PICK b : b = [NewBox EXCEPT !.up = FALSE]
    OBVIOUS
  <2>2. b \in BoxType /\ b.owed = {} /\ b.mail = {}
    BY <1>4, <2>1 DEF BoxType
  <2>3. /\ SandboxGone(b) /\ UNCHANGED <<setup, wire, op>> /\ ent.state = "suspending"
        /\ ent' = [d EXCEPT !.state = "suspended"] /\ world' = [world EXCEPT !.row = "suspended_cold"]
    BY <1>5, <1>s, <1>e, <2>1 DEF StopContainer
  <2>4. ent' \in EntType /\ ent'.reg = ent.reg /\ ent'.state = "suspended"
    BY <1>f, <2>3 DEF EntType
  <2>5. world' \in WorldType /\ world'.regs = world.regs
    BY <1>a, <2>3 DEF WorldType
  <2>6. op.st = "none"
    BY <1>a, <1>b, <2>3 DEF Latch, OpType
  <2> QED
    BY <1>3, <2>2, <2>3, <2>4, <2>5, <2>6
<1>6. CASE Replaced
  <2>1. /\ SandboxGone(NewBox) /\ UNCHANGED <<setup, wire, op>> /\ op = NoOp /\ ent' = d
        /\ world' = [world EXCEPT !.left = @ - 1] /\ world.left > 0
    BY <1>6, <1>s, <1>e DEF Replaced, Spend
  <2>2. world' \in WorldType /\ world'.regs = world.regs
    BY <1>a, <2>1 DEF WorldType
  <2>3. op.st = "none"
    BY <2>1 DEF NoOp
  <2> QED
    BY <1>3, <1>4, <1>f, <2>1, <2>2, <2>3
<1>7. CASE ColdResume
  <2>1. /\ UNCHANGED <<setup, call, ex, reaped, link, wire, op>> /\ ~box.up /\ box' = NewBox
        /\ ent' = [NewEntry EXCEPT !.boot = ent.boot + 1, !.exited = -1, !.attachments = ent.attachments]
        /\ world' = [world EXCEPT !.row = "running"]
    BY <1>7 DEF ColdResume
  <2>2. world' \in WorldType /\ world'.regs = world.regs /\ world.regs \in Nat
    BY <1>a, <2>1 DEF WorldType
  <2>3. ent' \in EntType /\ ent'.reg = 0 /\ ent'.state = "running"
    <3>1. PICK x \in Int, b \in Nat, a \in Nat : x = -1 /\ b = ent.boot + 1 /\ a = ent.attachments
      BY <1>a DEF EntType
    <3>2. NewEntry \in EntType /\ NewEntry.reg = 0 /\ NewEntry.state = "running"
      BY DEF EntType, NewEntry
    <3>3. ent' = [NewEntry EXCEPT !.boot = b, !.exited = x, !.attachments = a]
      BY <2>1, <3>1
    <3> QED
      BY <3>2, <3>3 DEF EntType
  <2>4. op.st = "none" /\ link.reg = 0 /\ ~link.restated
    BY <1>b, <2>1 DEF Latch, Counted
  <2>5. Honest'
    BY <2>1, HonestStays
  <2>6. Latch'
    BY <1>b, <1>4, <2>1, <2>3, <2>4 DEF Latch
  <2>7. Counted'
    BY <1>b, <1>4, <2>1, <2>2, <2>3, <2>4 DEF Counted
  <2>8. Silent'
    BY <1>b, <1>4, <2>1, <2>3 DEF Silent, Can
  <2>9. RestTypes'
    BY <1>a, <1>4, <2>1, <2>2, <2>3 DEF RestTypes
  <2> QED
    BY <2>5, <2>6, <2>7, <2>8, <2>9 DEF Watched
<1> QED
  BY <1>1, <1>2, <1>5, <1>6, <1>7

\* A report goes from its owner to the mailbox, and from there to the wire.
LEMMA ReportWatched ==
  ASSUME Honest, Watched, (\E r \in box.owed : Offer(r)) \/ Restate \/ SendCount
  PROVE  Honest' /\ Watched'
<1>a. /\ setup \in Setups /\ box \in BoxType /\ link \in LinkType /\ wire \subseteq Frames /\ ent \in EntType
      /\ op \in OpType /\ world \in WorldType
  BY DEF Watched, RestTypes
<1>b. RestTypes /\ Latch /\ Counted /\ Silent
  BY DEF Watched
<1>c. /\ box.seq \in Nat /\ box.owed \subseteq Notes /\ box.mail \subseteq Notes /\ link.reg \in Nat /\ link.boot \in Nat
      /\ link.restated \in BOOLEAN /\ ent.seq \in Nat
  BY <1>a DEF BoxType, LinkType, EntType
<1>d. (\A q \in Notes : q.seq \in Nat /\ q.seq # 0) /\ (\A q \in Frames : q.seq \in Nat)
  BY DEF Notes, Frames
<1>1. ASSUME NEW r \in box.owed, Offer(r) PROVE Honest' /\ Watched'
  <2>0. PICK o, m : /\ o = box.owed \ {r}
                    /\ m = IF \E held \in box.mail : held.seq > r.seq THEN box.mail ELSE {r}
    OBVIOUS
  <2>1. box' = [box EXCEPT !.owed = o, !.mail = m] /\ UNCHANGED <<setup, call, link, wire, ent, op, world, ex, reaped>>
    BY <1>1, <2>0 DEF Offer, Still
  <2>2. o \in SUBSET Notes /\ m \in SUBSET Notes
    BY <1>c, <2>0
  <2>3. /\ box' \in BoxType /\ box'.owed = o /\ box'.mail = m /\ box'.seq = box.seq /\ box'.up = box.up
        /\ box'.quiescing = box.quiescing
    BY <1>a, <2>1, <2>2 DEF BoxType
  <2>4. Honest' /\ Slots' = Slots
    BY <2>1, HonestStays
  <2>5. Latch'
    BY <1>b, <2>1, <2>3, <2>4 DEF Latch
  <2>6. o \cup m \subseteq box.owed \cup box.mail
    BY <2>0
  <2>7. (\A q \in o \cup m : Fair(q)) /\ (\A p, q \in m : p = q)
    BY <1>b, <2>0, <2>6 DEF Counted
  <2>8. (\E q \in box.owed \cup box.mail : q.seq = box.seq) => (\E q \in o \cup m : q.seq = box.seq)
    <3>1. SUFFICES ASSUME NEW q \in box.owed \cup box.mail, q.seq = box.seq PROVE \E x \in o \cup m : x.seq = box.seq
      OBVIOUS
    <3>2. \A x \in box.owed \cup box.mail : x.seq \in Nat /\ x.seq <= box.seq
      BY <1>b, <1>c, <1>d DEF Counted, Fair
    <3>3. CASE q \in box.owed /\ q # r
      BY <2>0, <3>1, <3>3
    <3>4. CASE r.seq = box.seq
      BY <1>c, <2>0, <3>2, <3>4
    <3>5. CASE q \in box.mail /\ r.seq # box.seq
      <4>1. q.seq > r.seq
        BY <1>c, <3>1, <3>2, <3>5
      <4> QED
        BY <2>0, <3>1, <3>5, <4>1
    <3> QED
      BY <3>1, <3>3, <3>4, <3>5
  <2>9. Counted'
    BY <1>b, <2>1, <2>3, <2>4, <2>7, <2>8 DEF Counted, Fair
  <2>10. Silent'
    BY <1>b, <2>1, <2>3, <2>6 DEF Silent, Can
  <2>11. RestTypes'
    BY <1>a, <2>1, <2>3 DEF RestTypes
  <2> QED
    BY <2>4, <2>5, <2>9, <2>10, <2>11 DEF Watched
<1>2. CASE Restate
  <2>0. PICK f : f = Frame([live |-> Cardinality(Slots), seq |-> box.seq + 1])
    OBVIOUS
  <2>1. /\ wire' = wire \cup {f} /\ box' = [box EXCEPT !.seq = @ + 1] /\ link' = [link EXCEPT !.restated = TRUE]
        /\ UNCHANGED <<setup, call, ex, reaped, ent, op, world>> /\ Can("counts") /\ link.reg # 0
    BY <1>2, <2>0 DEF Restate
  <2>2. /\ f \in Frames /\ f.reg = link.reg /\ f.boot = link.boot /\ f.live = Cardinality(Slots) /\ f.seq = box.seq + 1
    <3>1. Cardinality(Slots) \in Nat /\ Slots \in SUBSET Execs
      BY StreamsCounted DEF Slots
    <3> QED
      BY <1>c, <2>0, <3>1 DEF Frame, Frames
  <2>3. /\ box' \in BoxType /\ box'.owed = box.owed /\ box'.mail = box.mail /\ box'.seq = box.seq + 1 /\ box'.up = box.up
        /\ box'.quiescing = box.quiescing
    BY <1>a, <2>1 DEF BoxType
  <2>4. link' \in LinkType /\ link'.reg = link.reg /\ link'.boot = link.boot
    BY <1>a, <2>1 DEF LinkType
  <2>5. Honest' /\ Slots' = Slots
    BY <2>1, HonestStays
  <2>6. Latch'
    BY <1>b, <2>1, <2>3, <2>5 DEF Latch
  <2>7. \A q \in box.owed \cup box.mail : Fair(q)'
    BY <1>b, <1>c, <1>d, <2>3, <2>5 DEF Fair, Counted
  <2>8. Fair(f)'
    BY <1>c, <2>2, <2>3, <2>5 DEF Fair
  <2>9. \A g \in wire : g.reg = link.reg => Fair(g)'
    BY <1>a, <1>b, <1>c, <1>d, <2>3, <2>5 DEF Fair, Counted
  <2>10. /\ f.seq # 0 /\ f.reg <= world.regs /\ f.seq = box'.seq /\ f \in wire'
         /\ (ent.reg = link.reg => ent.seq <= box'.seq /\ ent.seq # box'.seq)
    BY <1>b, <1>c, <2>1, <2>2, <2>3 DEF Counted
  <2>11. Counted'
    BY <1>b, <2>1, <2>2, <2>3, <2>4, <2>7, <2>8, <2>9, <2>10 DEF Counted
  <2>12. Silent'
    BY <2>1 DEF Silent, Can
  <2>13. RestTypes'
    BY <1>a, <2>1, <2>2, <2>3, <2>4 DEF RestTypes
  <2> QED
    BY <2>5, <2>6, <2>11, <2>12, <2>13 DEF Watched
<1>3. CASE SendCount
  <2>r. PICK r \in box.mail : wire' = wire \cup {Frame(r)}
    BY <1>3 DEF SendCount
  <2>f. PICK f : f = Frame(r)
    OBVIOUS
  <2>0. wire' = wire \cup {f} /\ f = Frame(r)
    BY <2>r, <2>f
  <2>1. /\ box' = [box EXCEPT !.mail = {}] /\ UNCHANGED <<setup, call, ex, reaped, link, ent, op, world>>
        /\ link.restated
    BY <1>3 DEF SendCount
  <2>2. /\ f \in Frames /\ f.reg = link.reg /\ f.boot = link.boot /\ f.live = r.live /\ f.seq = r.seq /\ f.seq # 0
    <3>1. r \in Notes
      BY <1>c
    <3> QED
      BY <1>c, <2>0, <3>1 DEF Frame, Frames, Notes
  <2>3. /\ box' \in BoxType /\ box'.owed = box.owed /\ box'.mail = {} /\ box'.seq = box.seq /\ box'.up = box.up
        /\ box'.quiescing = box.quiescing
    BY <1>a, <2>1 DEF BoxType
  <2>4. Honest' /\ Slots' = Slots
    BY <2>1, HonestStays
  <2>5. Latch'
    BY <1>b, <2>1, <2>3, <2>4 DEF Latch
  <2>6. Fair(f)' /\ (\A q \in box.mail : q = r)
    BY <1>b, <2>2, <2>3, <2>4 DEF Counted, Fair
  <2>7. f.reg # 0 /\ f.reg <= world.regs /\ f \in wire'
    BY <1>b, <1>c, <2>0, <2>1, <2>2 DEF Counted
  <2>8. (\E q \in box.owed \cup box.mail : q.seq = box.seq) =>
          (\E q \in box.owed : q.seq = box.seq) \/ (f.reg = link.reg /\ f.seq = box.seq)
    BY <2>2, <2>6
  <2>9. Counted'
    BY <1>b, <2>0, <2>1, <2>2, <2>3, <2>4, <2>6, <2>7, <2>8 DEF Counted, Fair
  <2>10. Silent'
    BY <1>b, <2>1 DEF Silent, Can
  <2>11. RestTypes'
    BY <1>a, <2>0, <2>1, <2>2, <2>3 DEF RestTypes
  <2> QED
    BY <2>4, <2>5, <2>9, <2>10, <2>11 DEF Watched
<1> QED
  BY <1>1, <1>2, <1>3

\* What the entry makes of a frame.
LEMMA AppliedIs ==
  ASSUME RestTypes, NEW f \in Frames, NEW a, a = Applied(f), f.seq # 0
  PROVE  /\ a \in EntType /\ a.state = ent.state /\ a.boot = ent.boot
         /\ f.boot # ent.boot \/ f.reg < ent.reg => a.live = ent.live /\ a.seq = ent.seq /\ a.reg = ent.reg
         /\ f.boot = ent.boot /\ f.reg > ent.reg => a.live = f.live /\ a.seq = f.seq /\ a.reg = f.reg
         /\ f.boot = ent.boot /\ f.reg = ent.reg /\ f.seq > ent.seq => a.live = f.live /\ a.seq = f.seq /\ a.reg = ent.reg
         /\ f.boot = ent.boot /\ f.reg = ent.reg /\ f.seq <= ent.seq => a.live = ent.live /\ a.seq = ent.seq /\ a.reg = ent.reg
<1>1. ent \in EntType /\ world.now \in Nat /\ f.reg \in Nat /\ f.boot \in Nat /\ f.live \in Nat /\ f.seq \in Nat
  BY DEF RestTypes, WorldType, Frames
<1>2. ent.reg \in Nat /\ ent.boot \in Nat /\ ent.seq \in Nat /\ ent.live \in Nat /\ ent.endedAt \in Nat
  BY <1>1 DEF EntType
<1>3. PICK e : e = IF f.reg > ent.reg THEN [ent EXCEPT !.reg = f.reg, !.seq = 0, !.stamped = 0] ELSE ent
  OBVIOUS
<1>4. /\ e \in EntType /\ e.state = ent.state /\ e.boot = ent.boot /\ e.live = ent.live /\ e.endedAt = ent.endedAt
      /\ f.reg > ent.reg => e.reg = f.reg /\ e.seq = 0
      /\ ~(f.reg > ent.reg) => e = ent
  BY <1>1, <1>3 DEF EntType
<1>5. CASE f.boot # ent.boot \/ f.reg < ent.reg
  <2>1. Applied(f) = ent
    BY <1>1, <1>2, <1>5 DEF Applied
  <2> QED
    BY <1>1, <1>2, <1>5, <2>1
<1>6. CASE f.boot = ent.boot /\ f.reg >= ent.reg /\ f.seq <= e.seq
  <2>1. a = IF f.live > 0 /\ e.live = 0 /\ e.stamped # e.seq THEN [e EXCEPT !.stamped = e.seq, !.endedAt = world.now] ELSE e
    <3>1. ~(f.boot # ent.boot \/ f.reg < ent.reg)
      BY <1>1, <1>2, <1>6
    <3> QED
      BY <1>3, <1>6, <3>1 DEF Applied
  <2>2. a \in EntType /\ a.state = e.state /\ a.boot = e.boot /\ a.live = e.live /\ a.seq = e.seq /\ a.reg = e.reg
    BY <1>1, <1>4, <2>1 DEF EntType
  <2>3. f.reg = ent.reg /\ e = ent
    BY <1>1, <1>2, <1>4, <1>6
  <2> QED
    BY <1>1, <1>2, <1>6, <2>2, <2>3
<1>7. CASE f.boot = ent.boot /\ f.reg >= ent.reg /\ ~(f.seq <= e.seq)
  <2>1. PICK t : t = IF e.live > 0 /\ f.live = 0 THEN world.now ELSE e.endedAt
    OBVIOUS
  <2>2. t \in Nat
    BY <1>1, <1>2, <1>4, <2>1
  <2>3. a = [e EXCEPT !.seq = f.seq, !.live = f.live, !.endedAt = t]
    <3>1. ~(f.boot # ent.boot \/ f.reg < ent.reg)
      BY <1>1, <1>2, <1>7
    <3> QED
      BY <1>3, <1>7, <2>1, <3>1 DEF Applied
  <2>4. a \in EntType /\ a.state = e.state /\ a.boot = e.boot /\ a.live = f.live /\ a.seq = f.seq /\ a.reg = e.reg
    BY <1>1, <1>4, <2>2, <2>3 DEF EntType
  <2> QED
    BY <1>1, <1>2, <1>4, <1>7, <2>4
<1> QED
  BY <1>1, <1>2, <1>5, <1>6, <1>7

\* A frame is applied, or dropped.
LEMMA CountWatched ==
  ASSUME Honest, Watched, NEW f \in wire, ExecCount(f)
  PROVE  Honest' /\ Watched'
<1>a. /\ setup \in Setups /\ box \in BoxType /\ link \in LinkType /\ wire \subseteq Frames /\ ent \in EntType
      /\ op \in OpType /\ world \in WorldType
  BY DEF Watched, RestTypes
<1>b. RestTypes /\ Latch /\ Counted /\ Silent
  BY DEF Watched
<1>1. /\ wire' = wire \ {f} /\ ent' = Applied(f) /\ UNCHANGED <<setup, call, ex, box, reaped, link, op, world>>
  BY DEF ExecCount
<1>3. /\ f \in Frames /\ f.seq # 0 /\ f.reg # 0 /\ f.reg <= world.regs
      /\ f.reg = link.reg => f.boot = link.boot /\ Fair(f)
  BY <1>a, <1>b DEF Counted
<1>4. PICK a : a = Applied(f)
  OBVIOUS
<1>5. /\ ent' = a /\ a \in EntType /\ a.state = ent.state /\ a.boot = ent.boot
      /\ f.boot # ent.boot \/ f.reg < ent.reg => a.live = ent.live /\ a.seq = ent.seq /\ a.reg = ent.reg
      /\ f.boot = ent.boot /\ f.reg > ent.reg => a.live = f.live /\ a.seq = f.seq /\ a.reg = f.reg
      /\ f.boot = ent.boot /\ f.reg = ent.reg /\ f.seq > ent.seq => a.live = f.live /\ a.seq = f.seq /\ a.reg = ent.reg
      /\ f.boot = ent.boot /\ f.reg = ent.reg /\ f.seq <= ent.seq => a.live = ent.live /\ a.seq = ent.seq /\ a.reg = ent.reg
  BY <1>b, <1>1, <1>3, <1>4, AppliedIs
<1>6. /\ f.reg \in Nat /\ f.seq \in Nat /\ ent.reg \in Nat /\ ent.seq \in Nat /\ box.seq \in Nat /\ link.reg \in Nat
      /\ world.regs \in Nat /\ a.seq \in Nat /\ a.reg \in Nat
  BY <1>a, <1>3, <1>5 DEF Frames, EntType, BoxType, LinkType, WorldType
<1>7. Honest' /\ Slots' = Slots
  BY <1>1, HonestStays
<1>8. Latch'
  BY <1>b, <1>1, <1>5, <1>7 DEF Latch
<1>9. a.reg <= world.regs
  BY <1>b, <1>3, <1>5, <1>6 DEF Counted
<1>10. a.reg = link.reg /\ link.reg # 0 => a.seq <= box.seq /\ (a.seq = box.seq => a.live = Cardinality(Slots))
  <2>1. CASE f.boot = ent.boot /\ f.reg = link.reg /\ a.live = f.live /\ a.seq = f.seq
    BY <1>3, <2>1 DEF Fair
  <2>2. CASE a.live = ent.live /\ a.seq = ent.seq /\ a.reg = ent.reg
    BY <1>b, <2>2 DEF Counted
  <2> QED
    BY <1>5, <1>6, <2>1, <2>2
<1>11. f.reg = link.reg /\ link.reg # 0 /\ f.seq = box.seq => a.reg = link.reg /\ a.seq = box.seq
  <2>1. SUFFICES ASSUME f.reg = link.reg, link.reg # 0, f.seq = box.seq PROVE a.reg = link.reg /\ a.seq = box.seq
    OBVIOUS
  <2>2. f.boot = ent.boot
    BY <1>b, <1>3, <2>1 DEF Counted
  <2>3. f.reg < ent.reg => FALSE
    BY <1>b, <1>6, <2>1 DEF Counted
  <2> QED
    BY <1>b, <1>5, <1>6, <2>1, <2>2, <2>3 DEF Counted
<1>12. Counted'
  <2>1. /\ \A r \in box'.owed \cup box'.mail : Fair(r)'
        /\ \A g \in wire' : g \in wire /\ (g.reg = link.reg => Fair(g)')
    BY <1>b, <1>1, <1>7 DEF Counted, Fair
  <2>2. link.restated => \/ \E r \in box.owed \cup box.mail : r.seq = box.seq
                         \/ \E g \in wire \ {f} : g.reg = link.reg /\ g.seq = box.seq
                         \/ a.reg = link.reg /\ a.seq = box.seq
    <3>1. CASE \E g \in wire : g.reg = link.reg /\ g.seq = box.seq
      BY <1>b, <1>11, <3>1 DEF Counted
    <3>2. CASE ent.reg = link.reg /\ ent.seq = box.seq /\ link.reg # 0
      <4>1. f.boot = ent.boot /\ f.reg = ent.reg => f.seq <= ent.seq
        BY <1>3, <3>2 DEF Fair
      <4>2. f.boot = ent.boot => f.reg <= ent.reg
        BY <1>b, <1>3, <3>2 DEF Counted
      <4> QED
        BY <1>5, <1>6, <3>2, <4>1, <4>2
    <3> QED
      BY <1>b, <3>1, <3>2 DEF Counted
  <2> QED
    BY <1>b, <1>1, <1>5, <1>7, <1>9, <1>10, <2>1, <2>2 DEF Counted
<1>13. Silent'
  BY <1>b, <1>1 DEF Silent, Can
<1>14. RestTypes'
  BY <1>a, <1>1, <1>5 DEF RestTypes
<1> QED
  BY <1>7, <1>8, <1>12, <1>13, <1>14 DEF Watched

--------------------
\* Every step.

LEMMA InitHolds ==
  ASSUME Init
  PROVE  Honest /\ Watched
<1>1. /\ setup \in Setups /\ call = [e \in Execs |-> NoCall] /\ ex = [e \in Execs |-> NoExec] /\ box = NewBox
      /\ reaped = EmptyTable /\ link = [reg |-> 1, boot |-> 1, restated |-> FALSE] /\ wire = {} /\ ent = NewEntry
      /\ op = NoOp
      /\ world = [now |-> 0, row |-> "running", frozen |-> FALSE, regs |-> 1, left |-> setup.left, orphans |-> setup.orphans]
  BY DEF Init
<1>2. /\ NoExec \in ExecType /\ NoExec.st = "none" /\ NoExec.proc = "none" /\ NoExec.pid = 0 /\ ~NoExec.slot
      /\ NoExec.status = "none" /\ NoExec.out = <<>> /\ NoExec.piece = "none" /\ ~NoExec.closing
      /\ ~NoExec.outClosed /\ ~NoExec.killing
  <2>1. <<>> \in Seq(Messages)
    OBVIOUS
  <2> QED
    BY <2>1 DEF NoExec, ExecType, Stages, Outcomes
<1>3. NoCall \in CallType /\ NoCall.st = "idle" /\ ~NoCall.ran /\ ~NoCall.started /\ NoCall.end = "none"
  BY DEF NoCall, CallType, Ends, Outcomes
<1>4. EmptyTable \in Tables /\ Numbered(EmptyTable)
  <2>1. <<>> \in Seq(Codes) /\ <<>> \in Seq(Tombs) /\ Len(<<>>) = 0
    OBVIOUS
  <2> QED
    BY <2>1 DEF EmptyTable, Tables, Numbered
<1>5. ASSUME NEW e \in Execs
      PROVE  Stand(e, NoExec) /\ Told(e, NoExec, NoCall) /\ Utters(NoExec, NoCall.ran) /\ Marked(e, NoExec, EmptyTable)
  <2>1. Stand(e, NoExec)
    BY <1>2 DEF Stand, Holding, Spawned
  <2>2. Told(e, NoExec, NoCall)
    BY <1>2, <1>3 DEF Told, Refusals
  <2>3. Utters(NoExec, NoCall.ran) /\ Marked(e, NoExec, EmptyTable)
    BY <1>2 DEF Utters, Marked
  <2> QED
    BY <2>1, <2>2, <2>3
<1>6. Honest
  <2>1. ExTypes
    BY <1>1, <1>2, <1>3, <1>4 DEF ExTypes
  <2>2. Apart
    BY <1>1, <1>2 DEF Apart
  <2> QED
    BY <1>1, <1>4, <1>5, <2>1, <2>2 DEF Honest
<1>7. Slots = {}
  BY <1>1, <1>2 DEF Slots
<1>8. NewBox \in BoxType /\ NewBox.owed = {} /\ NewBox.mail = {} /\ NewBox.up /\ NewBox.seq = 0
  BY DEF NewBox, BoxType
<1>9. NewEntry \in EntType /\ NewEntry.reg = 0 /\ NewEntry.state = "running" /\ NewEntry.boot = 1
  BY DEF NewEntry, EntType
<1>10. NoOp \in OpType /\ NoOp.st = "none" /\ ~NoOp.clean
  BY DEF NoOp, OpType
<1>11. link \in LinkType /\ link.reg = 1 /\ link.boot = 1 /\ ~link.restated
  BY <1>1 DEF LinkType
<1>12. world \in WorldType /\ world.regs = 1
  BY <1>1, ExecAssumption DEF WorldType
<1>13. RestTypes
  BY <1>1, <1>8, <1>9, <1>10, <1>11, <1>12 DEF RestTypes
<1>14. Latch
  BY <1>1, <1>8, <1>9, <1>10 DEF Latch
<1>15. Counted
  BY <1>1, <1>8, <1>9, <1>11, <1>12 DEF Counted
<1>16. Silent
  BY <1>1, <1>8, <1>9, <1>11 DEF Silent
<1> QED
  BY <1>6, <1>13, <1>14, <1>15, <1>16 DEF Watched

LEMMA StepHolds ==
  ASSUME Honest, Watched, [Next]_vars
  PROVE  Honest' /\ Watched'
<1>a. RestTypes
  BY DEF Watched
<1>1. CASE UNCHANGED vars
  <2>1. UNCHANGED <<setup, call, ex, box, reaped, link, wire, ent, op, world>>
    BY <1>1 DEF vars
  <2> QED
    BY <1>a, <2>1, HonestStays, EntKept, AsideWatched
<1>2. CASE Progress
  <2>1. ASSUME NEW e \in Execs,
               \/ DialBack(e) \/ NoAnswer(e) \/ Deliver(e) \/ StreamEnds(e) \/ Start(e) \/ Arm(e) \/ Announce(e)
               \/ HandOver(e) \/ Killed(e) \/ Discard(e) \/ EmitExit(e) \/ CloseExec(e) \/ PumpStdin(e)
        PROVE  Honest' /\ Watched'
    BY <1>a, <2>1, AsideSteps, AsideWatched
  <2>2. ASSUME NEW e \in Execs, Reserve(e) \/ WaitReturns(e) \/ KillOne(e) PROVE Honest' /\ Watched'
    BY <2>2, ReserveWatched, ReleaseWatched, DoorWatched
  <2>3. CASE \/ \E r \in box.owed : Offer(r)
             \/ \E f \in wire : ExecCount(f)
             \/ Restate \/ SendCount \/ Redial
             \/ HearNotice \/ AnswerReady \/ GiveUpWaiting \/ Freeze
             \/ StopContainer \/ ColdResume
    BY <2>3, ReportWatched, CountWatched, LinkWatched, DoorWatched
  <2> QED
    BY <1>2, <2>1, <2>2, <2>3 DEF Progress
<1>3. CASE Environment
  <2>1. ASSUME NEW e \in Execs, NoDialBack(e) \/ HangUp(e) \/ Write(e) \/ Exits(e) \/ OfferStdin(e)
        PROVE  Honest' /\ Watched'
    BY <1>a, <2>1, AsideSteps, AsideWatched
  <2>2. ASSUME NEW e \in Execs, BadRequest(e) \/ NotFound(e) \/ SpawnFails(e) PROVE Honest' /\ Watched'
    BY <2>2, ReleaseWatched
  <2>3. CASE \/ Tick
             \/ \E p \in Pids : OrphanEnds(p)
             \/ \E d \in setup.kinds : NextAsked # {} /\ Ask(CHOOSE e \in NextAsked : TRUE, d)
    BY <1>a, <2>3, OtherAsides, AsideWatched
  <2>4. CASE LinkLost \/ Suspend \/ Thaw \/ ClaimIdle \/ Replaced
    BY <2>4, LinkWatched, DoorWatched
  <2> QED
    BY <1>3, <2>1, <2>2, <2>3, <2>4 DEF Environment
<1> QED
  BY <1>1, <1>2, <1>3 DEF Next

LEMMA Invariant == Spec => [](Honest /\ Watched)
<1>1. Init => Honest /\ Watched
  BY InitHolds
<1>2. (Honest /\ Watched) /\ [Next]_vars => (Honest /\ Watched)'
  BY StepHolds
<1> QED
  BY <1>1, <1>2, PTL DEF Spec

--------------------
\* The word a suspend freezes on is true: after KillAll answered ready no
\* exec has a slot or a live process, and none gets one while the runner
\* pauses the sandbox, for the door reserve looks at was latched under the
\* lock that read the live set (internal/sessiond/exec: KillAll, reserve,
\* arm; runnerd: quiesceExecs).
THEOREM ReadyGone == Spec => []ReadyMeansGone
<1>1. Honest /\ Watched => ReadyMeansGone
  <2>1. SUFFICES ASSUME Honest, Watched, op.clean, NEW e \in Execs PROVE ~ex[e].slot /\ ex[e].proc # "live"
    BY DEF ReadyMeansGone
  <2>2. Stand(e, ex[e]) /\ ex[e] \in ExecType
    BY <2>1, Shapes
  <2>3. ~ex[e].slot
    BY <2>1 DEF Watched, Latch, Slots
  <2> QED
    BY <2>2, <2>3 DEF Stand, ExecType, Stages, Holding, Spawned
<1> QED
  BY <1>1, Invariant, PTL

\* What a caller is told is so: the status is its own command's, all it
\* wrote came before it, a refused command never ran and an exit code of
\* zero means that it did, whatever pid was given out again, whatever
\* outcome was evicted from the reaper's table, and however the stream was
\* cut (run, arm, emit, AwaitStatus, remember, ExitCodeFor).
THEOREM AnswersHonest == Spec => []AnswerHonest
<1>1. Honest => AnswerHonest
  <2>1. SUFFICES ASSUME Honest, NEW e \in Execs
                 PROVE  /\ call[e].end = "exit" => call[e].of \in {e, "evicted"} /\ call[e].whole
                        /\ call[e].end \in Refusals \cup {"conflict"} => ~call[e].ran
                        /\ ExitCode(call[e]) = 0 => call[e].ran
    BY DEF AnswerHonest, Refusals
  <2>2. PICK c : c = call[e]
    OBVIOUS
  <2>3. Told(e, ex[e], c) /\ c \in CallType
    BY <2>1, <2>2, Shapes
  <2>4. c.end \in Ends /\ c.started \in BOOLEAN
    BY <2>3 DEF CallType
  <2>5. ~c.started => ExitCode(c) \in {1, 126, 127}
    <3>1. CASE c.end = "refused"
      BY <3>1 DEF ExitCode
    <3>2. CASE c.end = "not_found"
      BY <3>2 DEF ExitCode
    <3>3. CASE c.end \in {"session_ending", "too_many_execs", "too_many_detached", "no_answer", "stdin_overrun", "conflict"}
      BY <3>3 DEF ExitCode
    <3>4. ASSUME c.end \in {"none", "exit", "left", "lost"}, ~c.started PROVE ExitCode(c) \in {1, 126, 127}
      BY <3>4 DEF ExitCode
    <3> QED
      BY <2>4, <3>1, <3>2, <3>3, <3>4 DEF Ends, Messages
  <2>6. c.started => c.ran
    BY <2>3 DEF Told
  <2>7. ExitCode(c) = 0 => c.ran
    BY <2>4, <2>5, <2>6
  <2> QED
    BY <2>2, <2>3, <2>7 DEF Told
<1> QED
  BY <1>1, Invariant, PTL

\* With no report on its way the runner's count of the live execs is the
\* sandbox's, however many commands, reconnects and boots there were and
\* in whatever order their reports were applied: a later registration
\* restates the count before it sends any, the mailbox keeps the newest
\* number, and nothing of an older registration or boot is taken for one
\* of this (offer, serveConn, execCount).
THEOREM ViewExact == Spec => []QuietViewExact
<1>1. Watched => QuietViewExact
  <2>1. SUFFICES ASSUME Watched, Quiet PROVE ent.live = Cardinality(Slots)
    BY DEF QuietViewExact
  <2>2. RestTypes /\ Counted
    BY <2>1 DEF Watched
  <2>3. \A f \in wire : f.reg # link.reg
    <3>1. link.reg \in Nat /\ \A f \in wire : f.reg \in Nat
      BY <2>2 DEF RestTypes, LinkType, Frames
    <3> QED
      BY <2>1, <3>1 DEF Quiet
  <2>4. link.restated /\ box.owed = {} /\ box.mail = {}
    BY <2>1 DEF Quiet
  <2>5. ent.reg = link.reg /\ ent.seq = box.seq /\ link.reg # 0
    BY <2>2, <2>3, <2>4 DEF Counted
  <2> QED
    BY <2>2, <2>5 DEF Counted
<1> QED
  BY <1>1, Invariant, PTL

\* Only the sweep's claim takes a running entry to suspending.
LEMMA OnlyClaims ==
  ASSUME Honest, Watched, [Next]_vars, ent.state = "running", ent'.state = "suspending"
  PROVE  ClaimIdle
<1>a. RestTypes /\ ent'.state # ent.state
  BY DEF Watched
<1>b. Aside => FALSE
  BY <1>a DEF Aside
<1>c. ent' = ent => FALSE
  BY <1>a
<1>d. (\E n \in Nat : ent' = AttachEnded(n)) => FALSE
  BY <1>a, AttachEndedIs
<1>1. CASE UNCHANGED vars
  BY <1>1, <1>c DEF vars
<1>2. CASE Progress
  <2>1. ASSUME NEW e \in Execs,
               \/ DialBack(e) \/ NoAnswer(e) \/ Deliver(e) \/ StreamEnds(e) \/ Start(e) \/ Arm(e) \/ Announce(e)
               \/ HandOver(e) \/ Killed(e) \/ Discard(e) \/ EmitExit(e) \/ CloseExec(e) \/ PumpStdin(e)
        PROVE  FALSE
    BY <1>a, <1>b, <2>1, AsideSteps
  <2>2. ASSUME NEW e \in Execs, Reserve(e) \/ WaitReturns(e) \/ KillOne(e) PROVE FALSE
    BY <1>c, <2>2 DEF Reserve, WaitReturns, KillOne, Still
  <2>3. ASSUME (\E r \in box.owed : Offer(r)) \/ Restate \/ SendCount \/ Redial \/ HearNotice \/ AnswerReady \/ GiveUpWaiting
        PROVE  FALSE
    BY <1>c, <2>3 DEF Offer, Still, Restate, SendCount, Redial, HearNotice, AnswerReady, GiveUpWaiting
  <2>4. ASSUME NEW f \in wire, ExecCount(f) PROVE FALSE
    <3>1. f \in Frames /\ f.seq # 0 /\ ent' = Applied(f)
      BY <2>4 DEF Watched, RestTypes, Counted, ExecCount
    <3> QED
      BY <1>a, <3>1, AppliedIs
  <2>5. ASSUME Freeze \/ StopContainer \/ ColdResume PROVE FALSE
    <3>1. ent \in EntType
      BY <1>a DEF RestTypes
    <3>2. CASE Freeze
      BY <3>1, <3>2 DEF Freeze, EntType
    <3>3. CASE StopContainer
      BY <3>3 DEF StopContainer
    <3>4. CASE ColdResume
      BY <3>4 DEF ColdResume, NewEntry
    <3> QED
      BY <2>5, <3>2, <3>3, <3>4
  <2> QED
    BY <1>2, <2>1, <2>2, <2>3, <2>4, <2>5 DEF Progress
<1>3. CASE Environment
  <2>1. ASSUME NEW e \in Execs, NoDialBack(e) \/ HangUp(e) \/ Write(e) \/ Exits(e) \/ OfferStdin(e)
        PROVE  FALSE
    BY <1>a, <1>b, <2>1, AsideSteps
  <2>2. ASSUME NEW e \in Execs, BadRequest(e) \/ NotFound(e) \/ SpawnFails(e) PROVE FALSE
    BY <1>c, <2>2 DEF BadRequest, NotFound, SpawnFails, NotStarted, Still
  <2>3. ASSUME \/ Tick
               \/ \E p \in Pids : OrphanEnds(p)
               \/ \E d \in setup.kinds : NextAsked # {} /\ Ask(CHOOSE e \in NextAsked : TRUE, d)
        PROVE  FALSE
    BY <1>a, <1>b, <2>3, OtherAsides
  <2>4. ASSUME LinkLost \/ Replaced PROVE FALSE
    <3>1. ent' = AttachEnded(Cardinality(Streaming))
      BY <2>4 DEF LinkLost, CutStreams, Replaced
    <3> QED
      BY <1>d, <3>1, StreamsCounted
  <2>5. ASSUME Suspend PROVE FALSE
    BY <1>c, <2>5 DEF Suspend
  <2>6. ASSUME Thaw PROVE FALSE
    <3>1. ent \in EntType /\ ent' = [ent EXCEPT !.state = "running"]
      BY <1>a, <2>6 DEF RestTypes, Thaw
    <3> QED
      BY <3>1 DEF EntType
  <2> QED
    BY <1>3, <2>1, <2>2, <2>3, <2>4, <2>5, <2>6 DEF Environment
<1> QED
  BY <1>1, <1>2, <1>3 DEF Next

\* No session is claimed by the idle sweep over a command that runs, once
\* its reports have arrived: only claimIdle takes a running entry to
\* suspending, idleFor asks for a count of zero, and the count is exact.
THEOREM ClaimsAtRest == Spec => ClaimedAtRest
<1>1. Honest /\ Watched /\ QuietViewExact /\ [Next]_vars =>
        [ent.state = "running" /\ ent'.state = "suspending" /\ Quiet => Slots = {}]_vars
  <2>1. SUFFICES ASSUME Honest, Watched, QuietViewExact, [Next]_vars,
                        ent.state = "running", ent'.state = "suspending", Quiet
                 PROVE  Slots = {}
    OBVIOUS
  <2>2. IdleStop \in Nat /\ IdleFor >= IdleStop
    BY <2>1, OnlyClaims, ExecAssumption DEF ClaimIdle
  <2>3. ~(-1 >= IdleStop)
    BY <2>2
  <2>4. ent.live = 0
    BY <2>2, <2>3 DEF IdleFor
  <2>5. Cardinality(Slots) = 0 /\ IsFiniteSet(Slots)
    BY <2>1, <2>4, StreamsCounted DEF QuietViewExact
  <2> QED
    BY <2>5, FS_EmptySet
<1> QED
  BY <1>1, Invariant, ViewExact, PTL DEF Spec, ClaimedAtRest
=============================================================================
