------------------------- MODULE AgentCustodyProofs -------------------------
\* Theorems about AgentCustody for any sandboxes, logins, attempts and
\* setups: the types, and that neither a logout nor a withdrawal is undone
\* by what was on its way when it happened.
\*
\* The invariant is about a version: the tombstone of the last logout.
\* Whoever works from that version or a later one - the row itself, a put
\* that custody may still take, an answer on its way down, a home - holds
\* no login made before the logout, or is not about to put it.
EXTENDS AgentCustody, TLAPS

--------------------
\* The invariant.  L is the version of the last logout's tombstone.

\* The content c is no login among the first n.
After(c, n) == c \in Logins => c > n

\* What a home holds and has not put yet.
HomeFine(L, r, pa, h) ==
  /\ h.version <= r.version
  /\ (~pa.slip /\ ~h.cleanup /\ ~(h.retry /\ h.tombstone) /\ h.version >= L /\ (h.disk # h.digest \/ ~h.dir))
       => After(h.disk, pa.out)

\* A put on its way, its caller waiting or not.
PutFine(L, r, pa, p) ==
  /\ p.version <= r.version
  /\ p.files # Huge
  /\ p.at \in {"read", "sealed"} => p.files # Partial
  /\ p.at = "sealed" => /\ p.files # Nothing /\ p.seen.version <= r.version
                        /\ p.seen.version = r.version => p.version >= r.lastRevoked
  /\ (~pa.slip /\ p.version >= L) => After(p.files, pa.out)

\* A put that starts from the last logout or later, or was taken since.
Reaches(L, p) == \/ Putting(p) /\ p.version >= L
                 \/ p.at = "answered" /\ p.ok /\ p.answer >= L

\* A call of sandbox b, whose set is h.
WorkFine(L, r, pa, h, p, b) ==
  /\ p.generation <= h.generation
  /\ Putting(p) => PutFine(L, r, pa, p)
  /\ p.at \in {"fetch", "reading", "fetched"} => h.dir
  /\ (p.ok /\ p.at \in {"fetched", "answered"}) => p.answer <= r.version
  /\ (p.ok /\ p.at = "answered") => p.answer > 0
  /\ (~pa.slip /\ p.at = "fetched" /\ p.ok) =>
       /\ p.answer >= L => After(p.files, pa.out)
       /\ p.generation = h.generation => After(p.files, pa.gone[b])
  /\ (p.at = "fetched" /\ p.ok) => p.files \in Logins \cup {Nothing}
  /\ (p.generation = h.generation /\ (p.at = "reading" \/ (p.at = "fetched" /\ p.ok))) => pa.barred[b] = 0
  /\ (~pa.slip /\ Reaches(L, p) /\ p.generation = h.generation) => After(h.disk, pa.out)

\* An answer about to be applied beside a put of the same home.
PairFine(L, h, p, q) ==
  (/\ p.at = "fetched" /\ p.ok /\ p.generation = h.generation
   /\ Reaches(L, q) /\ q.generation = h.generation)
     => p.answer >= L \/ h.version >= L

\* What a sandbox was told to forget.
GoneFine(pa, member, h, ps, b) ==
  /\ pa.gone[b] <= pa.out /\ pa.barred[b] <= pa.born
  /\ pa.barred[b] # 0 => ~member
  /\ (~pa.slip /\ ~h.cleanup) => After(h.disk, pa.gone[b]) /\ After(h.disk, pa.barred[b])
  /\ h.phase = "off" => /\ \A w \in Workers : ps[w] = Idle
                        /\ h.cleanup => pa.gone[b] = 0 /\ pa.barred[b] = 0

RevokeFine(r, pa, m) == /\ m.version <= r.version /\ m.born <= pa.born
                        /\ m.version > 0 => m.born <= pa.out

RowFine(L, r, pa, u) ==
  /\ r.revoked => r.files = Nothing
  /\ L <= r.lastRevoked /\ r.lastRevoked <= r.version
  /\ L = 0 => pa.out = 0
  /\ pa.out <= pa.born
  /\ u.version <= r.version
  /\ ~pa.slip => After(r.files, pa.out)

UserType == [member : BOOLEAN, sweep : {"none", "logout", "withdraw"}, version : Nat, left : [Spendings -> Nat]]
PastType == [born : Nat, out : Nat, saved : SUBSET Logins, gone : [Boxes -> Nat], barred : [Boxes -> Nat],
             local : [Boxes -> Contents], met : [Boxes -> BOOLEAN], slip : BOOLEAN]

Types ==
  /\ row \in RowType
  /\ home \in [Boxes -> SetType]
  /\ pass \in [Boxes -> [Workers -> CallType]]
  /\ orphans \subseteq CallType
  /\ revokes \subseteq RevokeType
  /\ user \in UserType
  /\ past \in PastType

BoxFine(L, r, pa, member, h, ps, b) ==
  /\ HomeFine(L, r, pa, h)
  /\ \A w \in Workers : WorkFine(L, r, pa, h, ps[w], b)
  /\ \A v, w \in Workers : v # w => PairFine(L, h, ps[v], ps[w])
  /\ GoneFine(pa, member, h, ps, b)

Custody(L) ==
  /\ RowFine(L, row, past, user)
  /\ \A b \in Boxes : BoxFine(L, row, past, user.member, home[b], pass[b], b)
  /\ \A p \in orphans : Putting(p) /\ PutFine(L, row, past, p)
  /\ \A m \in revokes : RevokeFine(row, past, m)

IInv == Types /\ \E L \in Nat : Custody(L)

--------------------
\* What the helpers make of a set.

\* Constants, and the records a process starts from.
LEMMA Fresh ==
  /\ MaxLogins \in Nat /\ Attempts \in Nat
  /\ Logins \subseteq Nat /\ \A c \in Logins : c > 0
  /\ Nothing \notin Logins /\ Partial \notin Logins /\ Huge \notin Logins /\ Unset \notin Contents
  /\ Nothing # Partial /\ Nothing # Huge /\ Partial # Huge
  /\ {Nothing, Partial, Huge} \subseteq Contents /\ Logins \subseteq Contents
  /\ NoRow \in RowType
  /\ Idle \in CallType
  /\ \A d \in Contents : FreshSet(d) \in SetType
  BY CustodyAssumption DEF CustodyAssumption, Logins, Nothing, Partial, Huge, Unset, Contents, NoRow, RowType,
     Idle, CallType, FreshSet, SetType

\* What is after a later point is after an earlier one.
LEMMA AfterLess ==
  ASSUME NEW c, NEW n \in Nat, NEW m \in Nat, n <= m, After(c, m)
  PROVE  After(c, n)
<1>1. Logins \subseteq Nat
  BY Fresh
<1> QED
  BY <1>1 DEF After

\* Two sets of which one process's knowledge is the same.
SameLife(h, k) == /\ k.phase = h.phase /\ k.generation = h.generation /\ k.cleanup = h.cleanup
                  /\ h.dir => k.dir

\* Recording the stamps changes nothing else.
LEMMA StampedFields ==
  ASSUME NEW h \in SetType
  PROVE  /\ Stamped(h) \in SetType /\ SameLife(h, Stamped(h))
         /\ Stamped(h).disk = h.disk /\ Stamped(h).version = h.version /\ Stamped(h).digest = h.digest
         /\ Stamped(h).retry = h.retry /\ Stamped(h).tombstone = h.tombstone /\ Stamped(h).dir = h.dir
  BY DEF SetType, Stamped, SameLife

\* An unanswered fetch leaves nothing to put.
LEMMA RebaseFields ==
  ASSUME NEW h \in SetType, h.dir
  PROVE  LET k == RebaseOnDisk(h) IN
         /\ k \in SetType /\ SameLife(h, k)
         /\ k.disk = h.disk /\ k.version = h.version
         /\ h.disk # Huge => k.digest = h.disk
<1> DEFINE s == [Stamped(h) EXCEPT !.dirty = FALSE]
<1>a. Stamped(h) \in SetType /\ SameLife(h, Stamped(h)) /\ Stamped(h).disk = h.disk /\ Stamped(h).version = h.version
  BY StampedFields
<1>1. /\ s \in SetType /\ SameLife(h, s) /\ s.disk = h.disk /\ s.version = h.version
  BY <1>a DEF SetType, SameLife
<1>2. Read(h) = h.disk /\ h.disk \in Contents
  BY DEF Read, SetType
<1>3. RebaseOnDisk(h) = IF h.disk # Huge THEN [s EXCEPT !.digest = h.disk] ELSE s
  BY <1>2 DEF RebaseOnDisk, Readable
<1> HIDE DEF s
<1> QED
  BY <1>1, <1>2, <1>3 DEF SetType, SameLife

\* A fetch that landed: the disk is what custody holds, if it holds
\* anything or a tombstone.
LEMMA RestoredFields ==
  ASSUME NEW h \in SetType, NEW v \in Nat, NEW held \in Contents
  PROVE  LET k == Restored(h, v, held) IN
         /\ k \in SetType /\ SameLife(h, k)
         /\ v > 0 => k.disk = held
         /\ v = 0 => k.disk = h.disk
         /\ k.version = v /\ k.digest = held
<1>1. Stamped(h) \in SetType /\ SameLife(h, Stamped(h)) /\ Stamped(h).disk = h.disk
  BY StampedFields
<1>2. LET k == Restored(h, v, held) IN
      /\ k \in SetType /\ SameLife(h, k)
      /\ k.disk = IF v > 0 THEN held ELSE h.disk
      /\ k.version = v /\ k.digest = held
  BY <1>1 DEF Restored, SetType, SameLife
<1> QED
  BY <1>2

\* A set that could not be written whole leaves nothing to put.
LEMMA RestoreFailedFields ==
  ASSUME NEW h \in SetType, NEW v \in Nat, h.dir
  PROVE  LET k == RestoreFailed(h, v) IN
         /\ k \in SetType /\ SameLife(h, k)
         /\ k.disk = h.disk /\ k.version = v
         /\ h.disk # Huge => k.digest = h.disk
<1> DEFINE s == [Stamped(h) EXCEPT !.version = v, !.dirty = FALSE, !.retry = TRUE, !.tombstone = FALSE]
<1>a. Stamped(h) \in SetType /\ SameLife(h, Stamped(h)) /\ Stamped(h).disk = h.disk
  BY StampedFields
<1>1. /\ s \in SetType /\ SameLife(h, s) /\ s.disk = h.disk /\ s.version = v
  BY <1>a DEF SetType, SameLife
<1>2. Read(h) = h.disk /\ h.disk \in Contents
  BY DEF Read, SetType
<1>3. RestoreFailed(h, v) = IF h.disk # Huge THEN [s EXCEPT !.digest = h.disk] ELSE s
  BY <1>2 DEF RestoreFailed, Readable
<1> HIDE DEF s
<1> QED
  BY <1>1, <1>2, <1>3 DEF SetType, SameLife

\* A tombstone that could not be applied is remembered as one.
LEMMA RemovalFailedFields ==
  ASSUME NEW h \in SetType, NEW v \in Nat
  PROVE  LET k == RemovalFailed(h, v) IN
         /\ k \in SetType /\ SameLife(h, k)
         /\ k.disk = h.disk /\ k.version = v /\ k.retry /\ k.tombstone
<1>a. Stamped(h) \in SetType /\ SameLife(h, Stamped(h)) /\ Stamped(h).disk = h.disk
  BY StampedFields
<1>b. Nothing \in Contents
  BY Fresh
<1> QED
  BY <1>a, <1>b DEF RemovalFailed, SetType, SameLife

\* A cleanup leaves no file.
LEMMA CleanedUpFields ==
  ASSUME NEW h \in SetType
  PROVE  LET k == CleanedUp(h) IN
         /\ k \in SetType /\ k.phase = h.phase /\ k.generation = h.generation
         /\ k.disk = Nothing /\ k.version = h.version /\ k.dir
<1>a. Stamped(h) \in SetType /\ SameLife(h, Stamped(h)) /\ Stamped(h).version = h.version
  BY StampedFields
<1>b. Nothing \in Contents
  BY Fresh
<1> QED
  BY <1>a, <1>b DEF CleanedUp, SetType, SameLife

--------------------
\* What a step leaves alone stays as it should be.

\* The row and the history move on, and no logout is made.
Onward(r, pa, r2, pa2) ==
  /\ r \in RowType /\ r2 \in RowType /\ pa \in PastType /\ pa2 \in PastType
  /\ r.version <= r2.version
  /\ r2.version = r.version => r2.lastRevoked = r.lastRevoked
  /\ pa2.out = pa.out /\ pa.born <= pa2.born /\ (pa.slip => pa2.slip)

\* A home stays fine.
LEMMA HomeKept ==
  ASSUME NEW L \in Nat, NEW r, NEW pa, NEW r2, NEW pa2, Onward(r, pa, r2, pa2),
         NEW h \in SetType, HomeFine(L, r, pa, h)
  PROVE  HomeFine(L, r2, pa2, h)
<1>1. r.version \in Nat /\ r2.version \in Nat /\ r.version <= r2.version /\ h.version \in Nat
  BY DEF Onward, RowType, SetType
<1>2. pa2.out = pa.out /\ (~pa2.slip => ~pa.slip)
  BY DEF Onward
<1> QED
  BY <1>1, <1>2 DEF HomeFine

\* So does a put,
LEMMA PutKept ==
  ASSUME NEW L \in Nat, NEW r, NEW pa, NEW r2, NEW pa2, Onward(r, pa, r2, pa2),
         NEW p \in CallType, PutFine(L, r, pa, p)
  PROVE  PutFine(L, r2, pa2, p)
<1>1. /\ r.version \in Nat /\ r2.version \in Nat /\ r.version <= r2.version
      /\ p.version \in Nat /\ p.seen.version \in Nat
  BY DEF Onward, RowType, CallType
<1>2. pa2.out = pa.out /\ (~pa2.slip => ~pa.slip)
  BY DEF Onward
<1>3. (p.seen.version <= r.version /\ p.seen.version = r2.version) => r2.lastRevoked = r.lastRevoked /\ p.seen.version = r.version
  BY <1>1 DEF Onward
<1> QED
  BY <1>1, <1>2, <1>3 DEF PutFine

\* a call, when the home it is for changes only by what the call allows,
LEMMA WorkKept ==
  ASSUME NEW L \in Nat, NEW r, NEW pa, NEW r2, NEW pa2, Onward(r, pa, r2, pa2), NEW b \in Boxes,
         pa2.gone[b] <= pa.gone[b], pa2.barred[b] \in {0, pa.barred[b]},
         NEW h \in SetType, NEW k \in SetType, k.generation = h.generation, h.dir => k.dir,
         NEW p \in CallType, WorkFine(L, r, pa, h, p, b),
         (~pa2.slip /\ Reaches(L, p) /\ p.generation = h.generation /\ After(h.disk, pa.out)) => After(k.disk, pa.out)
  PROVE  WorkFine(L, r2, pa2, k, p, b)
<1>1. /\ r.version \in Nat /\ r2.version \in Nat /\ r.version <= r2.version
      /\ p.version \in Nat /\ p.answer \in Nat
  BY DEF Onward, RowType, CallType
<1>2. pa2.out = pa.out /\ (~pa2.slip => ~pa.slip)
  BY DEF Onward
<1>3. pa2.gone[b] \in Nat /\ pa.gone[b] \in Nat /\ pa2.gone[b] <= pa.gone[b]
  BY DEF Onward, PastType
<1>4. After(p.files, pa.gone[b]) => After(p.files, pa2.gone[b])
  BY <1>3, AfterLess
<1>5. Putting(p) => PutFine(L, r2, pa2, p)
  BY PutKept DEF WorkFine
<1> QED
  BY <1>1, <1>2, <1>4, <1>5 DEF WorkFine

\* and a sandbox that nothing happens to.
LEMMA BoxKept ==
  ASSUME NEW L \in Nat, NEW r, NEW pa, NEW r2, NEW pa2, Onward(r, pa, r2, pa2), NEW b \in Boxes,
         pa2.gone[b] = pa.gone[b], pa2.barred[b] \in {0, pa.barred[b]},
         NEW m, NEW m2, pa2.barred[b] # 0 => (~m => ~m2),
         NEW h \in SetType, NEW ps \in [Workers -> CallType], BoxFine(L, r, pa, m, h, ps, b)
  PROVE  BoxFine(L, r2, pa2, m2, h, ps, b)
<1>1. HomeFine(L, r2, pa2, h)
  BY HomeKept DEF BoxFine
<1>2. /\ pa.gone \in [Boxes -> Nat] /\ pa2.gone \in [Boxes -> Nat] /\ pa2.gone[b] <= pa.gone[b]
      /\ pa.barred[b] \in Nat /\ pa.born \in Nat /\ pa2.born \in Nat
  BY DEF Onward, PastType
<1>3. \A w \in Workers : WorkFine(L, r2, pa2, h, ps[w], b)
  BY <1>2, WorkKept DEF BoxFine
<1>4. GoneFine(pa2, m2, h, ps, b)
  <2>1. GoneFine(pa, m, h, ps, b)
    BY DEF BoxFine
  <2>2. After(h.disk, pa.barred[b]) => After(h.disk, pa2.barred[b])
    BY <1>2, AfterLess
  <2>3. pa2.barred[b] <= pa2.born
    BY <1>2, <2>1 DEF GoneFine, Onward
  <2>4. pa2.out = pa.out /\ (~pa2.slip => ~pa.slip)
    BY DEF Onward
  <2> QED
    BY <2>1, <2>2, <2>3, <2>4 DEF GoneFine
<1> QED
  BY <1>1, <1>3, <1>4 DEF BoxFine

\* A worker of the sandbox goes on from p to q, and its set from h to k.
LEMMA WorkerMoves ==
  ASSUME NEW L \in Nat, NEW r, NEW pa, NEW r2, NEW pa2, Onward(r, pa, r2, pa2), NEW b \in Boxes,
         pa2.gone[b] = pa.gone[b], pa2.barred[b] = pa.barred[b], NEW m,
         NEW h \in SetType, NEW ps \in [Workers -> CallType], BoxFine(L, r, pa, m, h, ps, b),
         NEW w \in Workers, NEW k \in SetType, NEW q \in CallType,
         k.generation = h.generation, h.dir => k.dir, k.phase # "off",
         HomeFine(L, r2, pa2, k), WorkFine(L, r2, pa2, k, q, b),
         (~pa2.slip /\ ~k.cleanup) => After(k.disk, pa.gone[b]) /\ After(k.disk, pa.barred[b]),
         \A v \in Workers \ {w} :
            /\ (~pa2.slip /\ Reaches(L, ps[v]) /\ ps[v].generation = h.generation /\ After(h.disk, pa.out))
                  => After(k.disk, pa.out)
            /\ PairFine(L, k, q, ps[v]) /\ PairFine(L, k, ps[v], q)
  PROVE  BoxFine(L, r2, pa2, m, k, [ps EXCEPT ![w] = q], b)
<1> DEFINE qs == [ps EXCEPT ![w] = q]
<1>1. qs \in [Workers -> CallType] /\ qs[w] = q /\ \A v \in Workers \ {w} : qs[v] = ps[v]
  OBVIOUS
<1> HIDE DEF qs
<1>2. \A v \in Workers : WorkFine(L, r2, pa2, k, qs[v], b)
  <2>1. pa.gone[b] \in Nat /\ pa2.gone[b] \in Nat /\ pa2.gone[b] <= pa.gone[b]
    BY DEF Onward, PastType
  <2>2. ASSUME NEW v \in Workers, v # w PROVE WorkFine(L, r2, pa2, k, qs[v], b)
    <3>1. WorkFine(L, r, pa, h, ps[v], b) /\ qs[v] = ps[v] /\ ps[v] \in CallType /\ v \in Workers \ {w}
      BY <1>1, <2>2 DEF BoxFine
    <3> QED
      BY <2>1, <3>1, WorkKept
  <2> QED
    BY <1>1, <2>2
<1>3. ASSUME NEW u \in Workers, NEW v \in Workers, u # v PROVE PairFine(L, k, qs[u], qs[v])
  <2>1. u = w \/ v = w
    BY <1>3 DEF Workers
  <2> QED
    BY <1>1, <1>3, <2>1
<1>4. GoneFine(pa2, m, k, qs, b)
  <2>1. GoneFine(pa, m, h, ps, b)
    BY DEF BoxFine
  <2>2. pa.barred[b] <= pa2.born
    <3>1. pa.barred[b] \in Nat /\ pa.born \in Nat /\ pa2.born \in Nat
      BY DEF Onward, PastType
    <3> QED
      BY <2>1, <3>1 DEF Onward, GoneFine
  <2>3. pa2.out = pa.out
    BY DEF Onward
  <2> QED
    BY <2>1, <2>2, <2>3 DEF GoneFine
<1> QED
  BY <1>2, <1>3, <1>4 DEF BoxFine, qs

\* A call that is none is fine, and so beside any other.
LEMMA IdleFine ==
  ASSUME NEW L \in Nat, NEW r, NEW pa, NEW h \in SetType, NEW b, NEW p
  PROVE  WorkFine(L, r, pa, h, Idle, b) /\ PairFine(L, h, Idle, p) /\ PairFine(L, h, p, Idle) /\ ~Reaches(L, Idle)
<1>1. Idle.at = "idle" /\ Idle.generation = 0 /\ h.generation \in Nat
  BY DEF Idle, SetType
<1> QED
  BY <1>1 DEF WorkFine, PairFine, Reaches, Putting

\* A worker is done.
LEMMA WorkerDone ==
  ASSUME NEW L \in Nat, NEW r, NEW pa, NEW r2, NEW pa2, Onward(r, pa, r2, pa2), NEW b \in Boxes,
         pa2.gone[b] = pa.gone[b], pa2.barred[b] = pa.barred[b], NEW m,
         NEW h \in SetType, NEW ps \in [Workers -> CallType], BoxFine(L, r, pa, m, h, ps, b),
         NEW w \in Workers, NEW k \in SetType,
         k.generation = h.generation, h.dir => k.dir, k.phase # "off",
         HomeFine(L, r2, pa2, k),
         (~pa2.slip /\ ~k.cleanup) => After(k.disk, pa.gone[b]) /\ After(k.disk, pa.barred[b]),
         \A v \in Workers \ {w} :
            (~pa2.slip /\ Reaches(L, ps[v]) /\ ps[v].generation = h.generation /\ After(h.disk, pa.out))
                  => After(k.disk, pa.out)
  PROVE  BoxFine(L, r2, pa2, m, k, [ps EXCEPT ![w] = Idle], b)
<1>1. Idle \in CallType /\ WorkFine(L, r2, pa2, k, Idle, b)
  BY Fresh, IdleFine
<1>2. \A v \in Workers \ {w} : PairFine(L, k, Idle, ps[v]) /\ PairFine(L, k, ps[v], Idle)
  BY IdleFine
<1> QED
  BY <1>1, <1>2, WorkerMoves

\* Finishing a pass over a set that is as it should be.
LEMMA FinishFine ==
  ASSUME NEW L \in Nat, Types, Custody(L), NEW b \in Boxes, NEW w \in Workers, NEW k \in SetType,
         Onward(row, past, row', past'), past'.gone = past.gone, past'.barred = past.barred,
         user'.member = user.member,
         k.generation = home[b].generation, home[b].dir => k.dir, k.phase # "off",
         HomeFine(L, row', past', k), Finish(b, w, k),
         (~past'.slip /\ ~k.cleanup) => After(k.disk, past.gone[b]) /\ After(k.disk, past.barred[b]),
         \A v \in Workers \ {w} :
            (/\ ~past'.slip /\ Reaches(L, pass[b][v]) /\ pass[b][v].generation = home[b].generation
             /\ After(home[b].disk, past.out))
                  => After(k.disk, past.out)
  PROVE  /\ \A c \in Boxes : BoxFine(L, row', past', user'.member, home'[c], pass'[c], c)
         /\ home' \in [Boxes -> SetType] /\ pass' \in [Boxes -> [Workers -> CallType]]
<1> DEFINE j == IF w = "loop" /\ k.phase = "boot" THEN [k EXCEPT !.phase = "running"] ELSE k
<1>1. /\ j \in SetType /\ j.generation = k.generation /\ j.dir = k.dir /\ j.cleanup = k.cleanup
      /\ j.disk = k.disk /\ j.version = k.version /\ j.digest = k.digest
      /\ j.retry = k.retry /\ j.tombstone = k.tombstone
  BY DEF SetType
<1>2. j.phase # "off"
  BY DEF SetType
<1>3. home' = [home EXCEPT ![b] = j] /\ pass' = [pass EXCEPT ![b] = [pass[b] EXCEPT ![w] = Idle]]
  BY DEF Finish, Types
<1> HIDE DEF j
<1>4. HomeFine(L, row', past', j)
  BY <1>1 DEF HomeFine
<1>5. /\ home \in [Boxes -> SetType] /\ pass \in [Boxes -> [Workers -> CallType]]
      /\ \A c \in Boxes : BoxFine(L, row, past, user.member, home[c], pass[c], c)
  BY DEF Types, Custody
<1>6. BoxFine(L, row', past', user.member, j, [pass[b] EXCEPT ![w] = Idle], b)
  <2>1. /\ home[b] \in SetType /\ pass[b] \in [Workers -> CallType]
        /\ past'.gone[b] = past.gone[b] /\ past'.barred[b] = past.barred[b]
        /\ BoxFine(L, row, past, user.member, home[b], pass[b], b)
    BY <1>5
  <2> QED
    BY <1>1, <1>2, <1>4, <2>1, WorkerDone
<1>7. ASSUME NEW c \in Boxes, c # b PROVE BoxFine(L, row', past', user'.member, home[c], pass[c], c)
  <2>1. /\ past'.gone[c] = past.gone[c] /\ past'.barred[c] \in {0, past.barred[c]}
        /\ home[c] \in SetType /\ pass[c] \in [Workers -> CallType]
        /\ BoxFine(L, row, past, user.member, home[c], pass[c], c)
    BY <1>5
  <2> QED
    BY <2>1, BoxKept
<1>8. home' \in [Boxes -> SetType] /\ home'[b] = j /\ \A c \in Boxes \ {b} : home'[c] = home[c]
  BY <1>1, <1>3, <1>5
<1>9. /\ pass' \in [Boxes -> [Workers -> CallType]] /\ pass'[b] = [pass[b] EXCEPT ![w] = Idle]
      /\ \A c \in Boxes \ {b} : pass'[c] = pass[c]
  BY <1>3, <1>5, Fresh
<1> QED
  BY <1>6, <1>7, <1>8, <1>9

\* A worker's call goes on.
LEMMA CallFine ==
  ASSUME NEW L \in Nat, Types, Custody(L), NEW b \in Boxes, NEW w \in Workers, NEW k \in SetType, NEW q \in CallType,
         Onward(row, past, row', past'), past'.gone = past.gone, past'.barred = past.barred,
         user'.member = user.member,
         home' = [home EXCEPT ![b] = k], pass' = [pass EXCEPT ![b][w] = q],
         k.generation = home[b].generation, home[b].dir => k.dir, k.phase # "off",
         HomeFine(L, row', past', k), WorkFine(L, row', past', k, q, b),
         k.disk = home[b].disk, k.cleanup = home[b].cleanup,
         \A v \in Workers \ {w} : PairFine(L, k, q, pass[b][v]) /\ PairFine(L, k, pass[b][v], q)
  PROVE  /\ \A c \in Boxes : BoxFine(L, row', past', user'.member, home'[c], pass'[c], c)
         /\ home' \in [Boxes -> SetType] /\ pass' \in [Boxes -> [Workers -> CallType]]
<1>3. pass' = [pass EXCEPT ![b] = [pass[b] EXCEPT ![w] = q]]
  BY DEF Types
<1>5. /\ home \in [Boxes -> SetType] /\ pass \in [Boxes -> [Workers -> CallType]]
      /\ \A c \in Boxes : BoxFine(L, row, past, user.member, home[c], pass[c], c)
  BY DEF Types, Custody
<1>6. BoxFine(L, row', past', user.member, k, [pass[b] EXCEPT ![w] = q], b)
  <2>1. /\ home[b] \in SetType /\ pass[b] \in [Workers -> CallType]
        /\ past'.gone[b] = past.gone[b] /\ past'.barred[b] = past.barred[b]
        /\ BoxFine(L, row, past, user.member, home[b], pass[b], b)
    BY <1>5
  <2>2. (~past'.slip /\ ~k.cleanup) => After(k.disk, past.gone[b]) /\ After(k.disk, past.barred[b])
    BY <1>5 DEF BoxFine, GoneFine, Onward
  <2> QED
    BY <2>1, <2>2, WorkerMoves
<1>7. ASSUME NEW c \in Boxes, c # b PROVE BoxFine(L, row', past', user'.member, home[c], pass[c], c)
  <2>1. /\ past'.gone[c] = past.gone[c] /\ past'.barred[c] \in {0, past.barred[c]}
        /\ home[c] \in SetType /\ pass[c] \in [Workers -> CallType]
        /\ BoxFine(L, row, past, user.member, home[c], pass[c], c)
    BY <1>5
  <2> QED
    BY <2>1, BoxKept
<1>8. home' \in [Boxes -> SetType] /\ home'[b] = k /\ \A c \in Boxes \ {b} : home'[c] = home[c]
  BY <1>5
<1>9. /\ pass' \in [Boxes -> [Workers -> CallType]] /\ pass'[b] = [pass[b] EXCEPT ![w] = q]
      /\ \A c \in Boxes \ {b} : pass'[c] = pass[c]
  BY <1>3, <1>5
<1> QED
  BY <1>6, <1>7, <1>8, <1>9


--------------------
\* What serving makes of a call and of the row.

\* An answer to a call.
LEMMA AnswerFields ==
  ASSUME NEW p \in CallType, NEW ok \in BOOLEAN, NEW v \in Nat
  PROVE  LET q == Answer(p, ok, v) IN
         /\ q \in CallType /\ q.generation = p.generation /\ q.version = p.version /\ q.files = p.files
         /\ q.ok = ok /\ q.answer = v
         /\ q.at = IF p.at = "reading" THEN "fetched" ELSE "answered"
  BY DEF Answer, CallType

\* A refusal.
LEMMA RefusalFields ==
  ASSUME NEW p \in CallType
  PROVE  /\ Answer(p, FALSE, 0) \in CallType /\ Answer(p, FALSE, 0).generation = p.generation
         /\ Answer(p, FALSE, 0).ok = FALSE
         /\ Answer(p, FALSE, 0).at = IF p.at = "reading" THEN "fetched" ELSE "answered"
<1>1. FALSE \in BOOLEAN /\ 0 \in Nat
  OBVIOUS
<1> QED
  BY <1>1, AnswerFields

\* A yes.
LEMMA AcceptFields ==
  ASSUME NEW p \in CallType, NEW v \in Nat
  PROVE  /\ Answer(p, TRUE, v) \in CallType /\ Answer(p, TRUE, v).generation = p.generation
         /\ Answer(p, TRUE, v).ok = TRUE /\ Answer(p, TRUE, v).answer = v
         /\ Answer(p, TRUE, v).at = IF p.at = "reading" THEN "fetched" ELSE "answered"
<1>1. TRUE \in BOOLEAN
  OBVIOUS
<1> QED
  BY <1>1, AnswerFields

\* The row a put leaves.
LEMMA StoredFields ==
  ASSUME NEW r \in RowType, NEW v \in Nat, NEW f \in Logins
  PROVE  LET k == [r EXCEPT !.version = v, !.revoked = FALSE, !.files = f] IN
         /\ k \in RowType /\ k.version = v /\ k.lastRevoked = r.lastRevoked /\ k.files = f /\ ~k.revoked
  BY DEF RowType

\* How q stands after p was served, the row having become k.
ServedWell(L, r, pa, u, p, q, k) ==
  /\ q \in CallType /\ k \in RowType
  /\ q.generation = p.generation
  /\ r.version <= k.version /\ (k.version = r.version => k = r)
  /\ RowFine(L, k, pa, u)
  /\ Putting(q) => Putting(p) /\ PutFine(L, k, pa, q)
  /\ q.at \in {"fetch", "reading", "fetched"} => p.at \in {"fetch", "reading"}
  /\ q.at = "reading" => u.member
  /\ (q.ok /\ q.at \in {"fetched", "answered"}) => q.answer <= k.version
  /\ (q.ok /\ q.at = "answered") => q.answer > 0
  /\ (q.at = "fetched" /\ q.ok) => p.at = "reading" /\ q.files = r.files /\ q.answer = r.version
  /\ Reaches(L, q) => Reaches(L, p)

\* A call that is only answered, with nothing new.
LEMMA RefusedWell ==
  ASSUME NEW L \in Nat, NEW r \in RowType, NEW pa, NEW u, NEW p \in CallType, RowFine(L, r, pa, u),
         NEW q \in CallType, q.generation = p.generation, q.at \in {"fetched", "answered"}, ~q.ok,
         q.at = "fetched" => p.at \in {"fetch", "reading"}
  PROVE  ServedWell(L, r, pa, u, p, q, r)
<1>1. r.version \in Nat
  BY DEF RowType
<1> QED
  BY <1>1 DEF ServedWell, Reaches, Putting

\* Authorising a call.
LEMMA AuthorizeWell ==
  ASSUME NEW L \in Nat, NEW pa, NEW p \in CallType, row \in RowType, user \in UserType,
         RowFine(L, row, pa, user), Putting(p) => PutFine(L, row, pa, p), p.at \in {"fetch", "put"}
  PROVE  ServedWell(L, row, pa, user, p, Authorize(p), row)
<1> SUFFICES ASSUME NEW q, q = Authorize(p) PROVE ServedWell(L, row, pa, user, p, q, row)
  OBVIOUS
<1>1. CASE ~user.member
  <2>1. /\ Answer(p, FALSE, 0) \in CallType /\ Answer(p, FALSE, 0).generation = p.generation
        /\ ~Answer(p, FALSE, 0).ok
    BY AnswerFields
  <2>2. q = [Answer(p, FALSE, 0) EXCEPT !.at = IF p.at = "fetch" THEN "fetched" ELSE "answered"]
    BY <1>1 DEF Authorize
  <2>3. /\ q \in CallType /\ q.generation = p.generation /\ ~q.ok
        /\ q.at = IF p.at = "fetch" THEN "fetched" ELSE "answered"
    BY <2>1, <2>2 DEF CallType
  <2> QED
    BY <2>3, RefusedWell
<1>2. CASE user.member /\ p.at = "fetch"
  <2>1. q = [p EXCEPT !.at = "reading"]
    BY <1>2 DEF Authorize
  <2>2. q \in CallType /\ q.generation = p.generation /\ q.at = "reading"
    BY <2>1 DEF CallType
  <2>3. row.version \in Nat
    BY DEF RowType
  <2> QED
    BY <1>2, <2>2, <2>3 DEF ServedWell, Reaches, Putting
<1>3. CASE user.member /\ p.at = "put" /\ p.files = Partial
  <2>1. q = Answer(p, FALSE, 0)
    BY <1>3 DEF Authorize
  <2>2. q \in CallType /\ q.generation = p.generation /\ ~q.ok /\ q.at = "answered"
    BY <1>3, <2>1, RefusalFields
  <2> QED
    BY <2>2, RefusedWell
<1>4. CASE user.member /\ p.at = "put" /\ p.files # Partial
  <2>1. q = [p EXCEPT !.at = "read"]
    BY <1>4 DEF Authorize
  <2>2. /\ q \in CallType /\ q.generation = p.generation /\ q.at = "read" /\ q.version = p.version /\ q.files = p.files
    BY <2>1 DEF CallType
  <2>3. row.version \in Nat
    BY DEF RowType
  <2>4. PutFine(L, row, pa, q)
    BY <1>4, <2>2 DEF PutFine, Putting
  <2> QED
    BY <1>4, <2>2, <2>3, <2>4 DEF ServedWell, Reaches, Putting
<1> QED
  BY <1>1, <1>2, <1>3, <1>4 DEF UserType

\* Reading a put's row: a tombstone, a seal, or a refusal.
LEMMA ReadWell ==
  ASSUME NEW L \in Nat, NEW pa, NEW p \in CallType, row \in RowType, user \in UserType,
         pa.out \in Nat, user.version \in Nat,
         RowFine(L, row, pa, user), PutFine(L, row, pa, p), p.at = "read"
  PROVE  ServedWell(L, row, pa, user, p, Served(p), Kept(p))
<1> SUFFICES ASSUME NEW q, q = Served(p), NEW k, k = Kept(p) PROVE ServedWell(L, row, pa, user, p, q, k)
  OBVIOUS
<1>0. row.version \in Nat /\ row.lastRevoked \in Nat /\ p.version \in Nat /\ Nothing \notin Logins
  BY Fresh DEF RowType, CallType
<1>1. CASE p.files = Nothing
  <2>1. q = Answer(p, MayRevoke(p.version), row.version + 1) /\ k = IF MayRevoke(p.version) THEN Tombstone ELSE row
    BY <1>1 DEF Served, Kept
  <2>2. MayRevoke(p.version) \in BOOLEAN
    BY DEF MayRevoke
  <2>3. /\ q \in CallType /\ q.generation = p.generation /\ q.at = "answered" /\ q.ok = MayRevoke(p.version)
        /\ q.answer = row.version + 1
    <3>1. row.version + 1 \in Nat
      BY <1>0
    <3>2. LET a == Answer(p, MayRevoke(p.version), row.version + 1) IN
          /\ a \in CallType /\ a.generation = p.generation /\ a.ok = MayRevoke(p.version)
          /\ a.answer = row.version + 1 /\ a.at = IF p.at = "reading" THEN "fetched" ELSE "answered"
      BY <2>2, <3>1, AnswerFields
    <3> QED
      BY <2>1, <3>2
  <2>4. CASE MayRevoke(p.version)
    <3>1. /\ k \in RowType /\ k.version = row.version + 1 /\ k.lastRevoked = row.version + 1 /\ k.files = Nothing
      BY <1>0, <2>1, <2>4, Fresh DEF Tombstone, RowType
    <3>2. p.version >= L
      BY <1>0, <2>4 DEF MayRevoke, RowFine
    <3>3. RowFine(L, k, pa, user)
      BY <1>0, <3>1 DEF RowFine, After
    <3> QED
      BY <1>0, <2>3, <3>1, <3>2, <3>3 DEF ServedWell, Reaches, Putting
  <2>5. CASE ~MayRevoke(p.version)
    <3>1. k = row
      BY <2>1, <2>5
    <3> QED
      BY <2>3, <2>5, <3>1, RefusedWell
  <2> QED
    BY <2>4, <2>5
<1>2. CASE p.files # Nothing
  <2>1. /\ k = row
        /\ q = IF Admits(p.version, row) THEN [p EXCEPT !.at = "sealed", !.seen = row] ELSE Answer(p, FALSE, 0)
    BY <1>2 DEF Served, Kept
  <2>2. CASE Admits(p.version, row)
    <3>1. /\ q \in CallType /\ q.generation = p.generation /\ q.at = "sealed" /\ q.version = p.version
          /\ q.files = p.files /\ q.seen = row
      BY <2>1, <2>2 DEF CallType
    <3>2. p.version >= row.lastRevoked
      BY <2>2 DEF Admits
    <3>3. PutFine(L, row, pa, q)
      BY <1>0, <1>2, <3>1, <3>2 DEF PutFine
    <3>4. k = row
      BY <2>1
    <3>5. Putting(p) /\ (Reaches(L, q) => Reaches(L, p))
      BY <3>1 DEF Reaches, Putting
    <3> QED
      BY <1>0, <3>1, <3>3, <3>4, <3>5 DEF ServedWell
  <2>3. CASE ~Admits(p.version, row)
    <3>1. q \in CallType /\ q.generation = p.generation /\ q.at = "answered" /\ ~q.ok
      BY <2>1, <2>3, RefusalFields
    <3> QED
      BY <2>1, <3>1, RefusedWell
  <2> QED
    BY <2>2, <2>3
<1> QED
  BY <1>1, <1>2

\* The statement of a put: stored, tried again, or given up.
LEMMA SealedWell ==
  ASSUME NEW L \in Nat, NEW pa, NEW p \in CallType, row \in RowType, user \in UserType,
         pa.out \in Nat, user.version \in Nat,
         RowFine(L, row, pa, user), PutFine(L, row, pa, p), p.at = "sealed"
  PROVE  ServedWell(L, row, pa, user, p, Served(p), Kept(p))
<1> SUFFICES ASSUME NEW q, q = Served(p), NEW k, k = Kept(p) PROVE ServedWell(L, row, pa, user, p, q, k)
  OBVIOUS
<1>0. row.version \in Nat /\ row.lastRevoked \in Nat /\ p.version \in Nat /\ p.tries \in Nat
  BY DEF RowType, CallType
<1>1. CASE Stores(p.seen)
  <2>1. /\ q = Answer(p, TRUE, p.seen.version + 1)
        /\ k = [row EXCEPT !.version = p.seen.version + 1, !.revoked = FALSE, !.files = p.files]
    BY <1>1 DEF Served, Kept
  <2>2. p.seen.version = row.version /\ p.version >= row.lastRevoked
    BY <1>1 DEF Stores, PutFine
  <2>3. p.files \in Logins
    BY DEF PutFine, CallType, Contents
  <2>4. /\ q \in CallType /\ q.generation = p.generation /\ q.at = "answered" /\ q.answer = row.version + 1
    <3>1. PICK v \in Nat : v = row.version + 1
      BY <1>0
    <3>2. q = Answer(p, TRUE, v) /\ p.at # "reading"
      BY <2>1, <2>2, <3>1
    <3>a. /\ Answer(p, TRUE, v) \in CallType /\ Answer(p, TRUE, v).generation = p.generation
          /\ Answer(p, TRUE, v).answer = v
          /\ Answer(p, TRUE, v).at = IF p.at = "reading" THEN "fetched" ELSE "answered"
      BY DEF Answer, CallType
    <3>3. q \in CallType /\ q.generation = p.generation /\ q.at = "answered" /\ q.answer = v
      BY <3>2, <3>a
    <3> QED
      BY <3>1, <3>3
  <2>5. /\ k \in RowType /\ k.version = row.version + 1 /\ k.lastRevoked = row.lastRevoked /\ k.files = p.files /\ ~k.revoked
    <3>1. PICK v \in Nat : v = row.version + 1
      BY <1>0
    <3>2. k = [row EXCEPT !.version = v, !.revoked = FALSE, !.files = p.files]
      BY <2>1, <2>2, <3>1
    <3>a. LET j == [row EXCEPT !.version = v, !.revoked = FALSE, !.files = p.files] IN
          /\ j \in RowType /\ j.version = v /\ j.lastRevoked = row.lastRevoked /\ j.files = p.files /\ ~j.revoked
      BY <2>3, StoredFields
    <3>3. k \in RowType /\ k.version = v /\ k.lastRevoked = row.lastRevoked /\ k.files = p.files /\ ~k.revoked
      BY <3>2, <3>a
    <3> QED
      BY <3>1, <3>3
  <2>6. p.version >= L
    BY <1>0, <2>2 DEF RowFine
  <2>7. RowFine(L, k, pa, user)
    BY <1>0, <2>5, <2>6 DEF RowFine, PutFine
  <2> QED
    BY <1>0, <2>4, <2>5, <2>6, <2>7 DEF ServedWell, Reaches, Putting
<1>2. CASE ~Stores(p.seen) /\ p.tries + 1 < Attempts
  <2>1. k = row /\ q = [p EXCEPT !.at = "read", !.tries = p.tries + 1]
    BY <1>2 DEF Served, Kept
  <2>a. k = row /\ q = [p EXCEPT !.at = "read", !.tries = p.tries + 1] /\ p.tries + 1 \in Nat
    BY <1>0, <2>1
  <2>2. /\ q \in CallType /\ q.generation = p.generation /\ q.at = "read" /\ q.version = p.version /\ q.files = p.files
    BY <2>a DEF CallType
  <2>3. PutFine(L, row, pa, q)
    BY <2>2 DEF PutFine
  <2> QED
    BY <1>0, <2>1, <2>2, <2>3 DEF ServedWell, Reaches, Putting
<1>3. CASE ~Stores(p.seen) /\ ~(p.tries + 1 < Attempts)
  <2>1. k = row /\ q = Answer(p, FALSE, 0)
    BY <1>3 DEF Served, Kept
  <2>2. q \in CallType /\ q.generation = p.generation /\ q.at = "answered" /\ ~q.ok
    BY <2>1, RefusalFields
  <2> QED
    BY <2>1, <2>2, RefusedWell
<1> QED
  BY <1>1, <1>2, <1>3

\* Serving a call in whatever state it is.
LEMMA ServingWell ==
  ASSUME NEW L \in Nat, NEW pa, NEW p \in CallType, row \in RowType, user \in UserType,
         pa.out \in Nat, RowFine(L, row, pa, user), Putting(p) => PutFine(L, row, pa, p),
         p.at \in {"fetch", "reading"} \/ Putting(p)
  PROVE  ServedWell(L, row, pa, user, p, Served(p), Kept(p))
<1>0. row.version \in Nat /\ user.version \in Nat /\ row.files \in Contents
  BY Fresh DEF RowType, UserType
<1>1. CASE p.at \in {"fetch", "put"}
  <2>1. Served(p) = Authorize(p) /\ Kept(p) = row
    BY <1>1 DEF Served, Kept
  <2> QED
    BY <1>1, <2>1, AuthorizeWell
<1>2. CASE p.at = "reading"
  <2> SUFFICES ASSUME NEW q, q = Served(p) PROVE ServedWell(L, row, pa, user, p, q, Kept(p))
    OBVIOUS
  <2>1. Kept(p) = row /\ q = [Answer(p, TRUE, row.version) EXCEPT !.files = row.files]
    BY <1>2 DEF Served, Kept, Fetched
  <2>2. /\ Answer(p, TRUE, row.version) \in CallType
        /\ Answer(p, TRUE, row.version).generation = p.generation /\ Answer(p, TRUE, row.version).ok
        /\ Answer(p, TRUE, row.version).answer = row.version /\ Answer(p, TRUE, row.version).at = "fetched"
    BY <1>0, <1>2, AcceptFields
  <2>3. /\ q \in CallType /\ q.generation = p.generation /\ q.at = "fetched" /\ q.ok /\ q.answer = row.version
        /\ q.files = row.files
    BY <1>0, <2>1, <2>2 DEF CallType
  <2>4. ~Putting(q) /\ ~Reaches(L, q)
    BY <2>3 DEF Reaches, Putting
  <2>5. Kept(p) = row
    BY <2>1
  <2> QED
    BY <1>0, <1>2, <2>3, <2>4, <2>5 DEF ServedWell
<1>3. CASE p.at = "read"
  BY <1>0, <1>3, ReadWell DEF Putting
<1>4. CASE p.at = "sealed"
  BY <1>0, <1>4, SealedWell DEF Putting
<1> QED
  BY <1>1, <1>2, <1>3, <1>4 DEF Putting


--------------------
\* Steps that leave the row, the logout and the membership alone.

\* The row stays, the history says the same of logouts and revokes.
Quiet ==
  /\ row' = row /\ revokes' \subseteq revokes
  /\ past' \in PastType /\ past'.born = past.born /\ past'.out = past.out
  /\ past'.gone = past.gone /\ past'.barred = past.barred /\ (past.slip => past'.slip)
  /\ user' \in UserType /\ user'.member = user.member /\ user'.version = user.version

\* Spending something changes no more than what is left.
LEMMA SpentFields ==
  ASSUME user \in UserType, NEW o \in Spendings, Can(o)
  PROVE  /\ Spent(o) \in UserType /\ Spent(o).member = user.member
         /\ Spent(o).version = user.version /\ Spent(o).sweep = user.sweep
<1>1. user.left \in [Spendings -> Nat] /\ user.left[o] > 0
  BY DEF UserType, Can
<1>2. user.left[o] \in Nat
  BY <1>1
<1>3. user.left[o] - 1 \in Nat
  BY <1>1, <1>2
<1>4. [user.left EXCEPT ![o] = @ - 1] \in [Spendings -> Nat]
  BY <1>1, <1>3
<1>5. Spent(o) = [user EXCEPT !.left = [user.left EXCEPT ![o] = @ - 1]]
  BY DEF Spent, UserType
<1> QED
  BY <1>4, <1>5 DEF UserType

\* So a step that may spend is quiet.
LEMMA SpendQuiet ==
  ASSUME Types, NEW o \in Spendings, Spend(o), UNCHANGED <<row, past, revokes>>
  PROVE  Quiet
<1>1. user' = Spent(o) /\ Can(o) /\ user \in UserType /\ past \in PastType
  BY DEF Spend, Types
<1>2. /\ Spent(o) \in UserType /\ Spent(o).member = user.member /\ Spent(o).version = user.version
  BY <1>1, SpentFields
<1> QED
  BY <1>1, <1>2 DEF Quiet

\* And so is one that changes none of it.
LEMMA StayQuiet ==
  ASSUME Types, UNCHANGED <<row, past, user, revokes>>
  PROVE  Quiet
  BY DEF Quiet, Types

\* What a quiet step keeps.
LEMMA QuietFine ==
  ASSUME NEW L \in Nat, Types, Custody(L), Quiet
  PROVE  /\ Onward(row, past, row', past') /\ RowFine(L, row', past', user')
         /\ \A p \in orphans : Putting(p) /\ PutFine(L, row', past', p)
         /\ \A m \in revokes' : RevokeFine(row', past', m)
         /\ row' \in RowType /\ past' \in PastType /\ user' \in UserType /\ revokes' \subseteq RevokeType
<1>1. row \in RowType /\ past \in PastType /\ orphans \subseteq CallType /\ revokes \subseteq RevokeType
  BY DEF Types
<1>2. row.version \in Nat /\ past.born \in Nat
  BY <1>1 DEF RowType, PastType
<1>3. Onward(row, past, row', past')
  BY <1>1, <1>2 DEF Quiet, Onward
<1>4. RowFine(L, row', past', user')
  BY DEF Quiet, RowFine, Custody
<1>5. ASSUME NEW p \in orphans PROVE Putting(p) /\ PutFine(L, row', past', p)
  <2>1. Putting(p) /\ PutFine(L, row, past, p) /\ p \in CallType
    BY <1>1, <1>5 DEF Custody
  <2> QED
    BY <1>3, <2>1, PutKept
<1>6. \A m \in revokes' : RevokeFine(row', past', m)
  BY DEF Quiet, Custody, RevokeFine
<1> QED
  BY <1>1, <1>3, <1>4, <1>5, <1>6 DEF Quiet

\* A quiet step that finishes a pass.
LEMMA FinishStep ==
  ASSUME NEW L \in Nat, Types, Custody(L), NEW b \in Boxes, NEW w \in Workers, NEW k \in SetType,
         Quiet, k.generation = home[b].generation, home[b].dir => k.dir, k.phase # "off",
         HomeFine(L, row, past', k), Finish(b, w, k),
         (~past'.slip /\ ~k.cleanup) => After(k.disk, past.gone[b]) /\ After(k.disk, past.barred[b]),
         \A v \in Workers \ {w} :
            (/\ ~past'.slip /\ Reaches(L, pass[b][v]) /\ pass[b][v].generation = home[b].generation
             /\ After(home[b].disk, past.out))
                  => After(k.disk, past.out),
         orphans' \subseteq CallType, \A p \in orphans' : Putting(p) /\ PutFine(L, row, past, p)
  PROVE  Types' /\ Custody(L)'
<1>1. /\ Onward(row, past, row', past') /\ RowFine(L, row', past', user')
      /\ \A m \in revokes' : RevokeFine(row', past', m)
      /\ row' \in RowType /\ past' \in PastType /\ user' \in UserType /\ revokes' \subseteq RevokeType
  BY QuietFine
<1>2. /\ past'.gone = past.gone /\ past'.barred = past.barred /\ user'.member = user.member /\ row' = row
  BY DEF Quiet
<1>3. /\ \A c \in Boxes : BoxFine(L, row', past', user'.member, home'[c], pass'[c], c)
      /\ home' \in [Boxes -> SetType] /\ pass' \in [Boxes -> [Workers -> CallType]]
  BY <1>1, <1>2, FinishFine
<1>4. ASSUME NEW p \in orphans' PROVE Putting(p) /\ PutFine(L, row', past', p)
  <2>1. Putting(p) /\ PutFine(L, row, past, p) /\ p \in CallType
    BY <1>4
  <2> QED
    BY <1>1, <2>1, PutKept
<1>5. Types'
  BY <1>1, <1>3 DEF Types
<1> QED
  BY <1>1, <1>3, <1>4, <1>5 DEF Custody

\* A quiet step with which a call goes on, or is made.
LEMMA CallStep ==
  ASSUME NEW L \in Nat, Types, Custody(L), NEW b \in Boxes, NEW w \in Workers, NEW k \in SetType, NEW q \in CallType,
         Quiet, orphans' = orphans, k.generation = home[b].generation, home[b].dir => k.dir, k.phase # "off",
         home' = [home EXCEPT ![b] = k], pass' = [pass EXCEPT ![b][w] = q],
         HomeFine(L, row, past', k), WorkFine(L, row, past', k, q, b),
         k.disk = home[b].disk, k.cleanup = home[b].cleanup,
         \A v \in Workers \ {w} : PairFine(L, k, q, pass[b][v]) /\ PairFine(L, k, pass[b][v], q)
  PROVE  Types' /\ Custody(L)'
<1>1. /\ Onward(row, past, row', past') /\ RowFine(L, row', past', user')
      /\ \A p \in orphans : Putting(p) /\ PutFine(L, row', past', p)
      /\ \A m \in revokes' : RevokeFine(row', past', m)
      /\ row' \in RowType /\ past' \in PastType /\ user' \in UserType /\ revokes' \subseteq RevokeType
  BY QuietFine
<1>2. /\ past'.gone = past.gone /\ past'.barred = past.barred /\ user'.member = user.member /\ row' = row
  BY DEF Quiet
<1>3. /\ \A c \in Boxes : BoxFine(L, row', past', user'.member, home'[c], pass'[c], c)
      /\ home' \in [Boxes -> SetType] /\ pass' \in [Boxes -> [Workers -> CallType]]
  BY <1>1, <1>2, CallFine
<1>4. Types'
  BY <1>1, <1>3 DEF Types
<1> QED
  BY <1>1, <1>3, <1>4 DEF Custody

\* What a sandbox is known to be before any step.
LEMMA BoxFacts ==
  ASSUME NEW L, Types, Custody(L), NEW b \in Boxes
  PROVE  /\ home[b] \in SetType /\ pass[b] \in [Workers -> CallType]
         /\ row \in RowType /\ past \in PastType /\ user \in UserType
         /\ past.gone[b] \in Nat /\ past.barred[b] \in Nat /\ past.out \in Nat
         /\ HomeFine(L, row, past, home[b]) /\ GoneFine(past, user.member, home[b], pass[b], b)
         /\ \A w \in Workers : pass[b][w] \in CallType /\ WorkFine(L, row, past, home[b], pass[b][w], b)
         /\ \A v, w \in Workers : v # w => PairFine(L, home[b], pass[b][v], pass[b][w])
         /\ RowFine(L, row, past, user)
<1>1. /\ home \in [Boxes -> SetType] /\ pass \in [Boxes -> [Workers -> CallType]] /\ past \in PastType
      /\ row \in RowType /\ user \in UserType
  BY DEF Types
<1>2. /\ past.gone[b] \in Nat /\ past.barred[b] \in Nat /\ past.out \in Nat
  BY <1>1 DEF PastType
<1> QED
  BY <1>1, <1>2 DEF Custody, BoxFine

\* Finishing over a set whose disk is the one it had, or holds no login.
LEMMA FinishQuietly ==
  ASSUME NEW L \in Nat, Types, Custody(L), NEW b \in Boxes, NEW w \in Workers, NEW k \in SetType,
         Quiet, past' = past, orphans' = orphans, k.generation = home[b].generation, home[b].dir => k.dir,
         k.phase # "off", HomeFine(L, row, past, k), Finish(b, w, k),
         k.disk = home[b].disk \/ k.disk \notin Logins, k.cleanup = home[b].cleanup \/ k.disk \notin Logins
  PROVE  Types' /\ Custody(L)'
<1>1. (~past'.slip /\ ~k.cleanup) => After(k.disk, past.gone[b]) /\ After(k.disk, past.barred[b])
  BY BoxFacts DEF GoneFine, After
<1>2. After(home[b].disk, past.out) => After(k.disk, past.out)
  BY DEF After
<1>3. orphans' \subseteq CallType /\ \A p \in orphans' : Putting(p) /\ PutFine(L, row, past, p)
  BY DEF Types, Custody
<1>4. HomeFine(L, row, past', k)
  OBVIOUS
<1> QED
  BY <1>1, <1>2, <1>3, <1>4, FinishStep


--------------------
\* The steps of a worker.

\* A pass that cleans up after a revoke.
LEMMA SyncCleanupStep ==
  ASSUME NEW L \in Nat, Types, Custody(L), NEW b \in Boxes, NEW w \in Workers, SyncCleanup(b, w)
  PROVE  Types' /\ Custody(L)'
<1> DEFINE k == CleanedUp(home[b])
<1>1. home[b] \in SetType /\ HomeFine(L, row, past, home[b])
  BY BoxFacts
<1>2. /\ k \in SetType /\ k.phase = home[b].phase /\ k.generation = home[b].generation
      /\ k.disk = Nothing /\ k.version = home[b].version /\ k.dir
  BY <1>1, CleanedUpFields
<1>3. Up(b) /\ Finish(b, w, k) /\ UNCHANGED <<row, orphans, revokes, user, past>>
  BY DEF SyncCleanup, AtSync
<1> HIDE DEF k
<1>4. Quiet
  BY <1>3, StayQuiet
<1>5. k.disk \notin Logins /\ k.phase # "off"
  BY <1>2, <1>3, Fresh DEF Up
<1>6. HomeFine(L, row, past, k)
  BY <1>1, <1>2, <1>5 DEF HomeFine, After
<1> QED
  BY <1>2, <1>3, <1>4, <1>5, <1>6, FinishQuietly

\* A cleanup that fails again, and a boot that cannot open the home: the
\* set stays what it was.
LEMMA NothingDoneStep ==
  ASSUME NEW L \in Nat, Types, Custody(L), NEW b \in Boxes, NEW w \in Workers,
         \/ SyncCleanupFails(b, w)
         \/ w = "loop" /\ BootUnopened(b)
  PROVE  Types' /\ Custody(L)'
<1>1. home[b] \in SetType /\ HomeFine(L, row, past, home[b])
  BY BoxFacts
<1>2. /\ home[b].phase # "off" /\ Finish(b, w, home[b]) /\ UNCHANGED <<row, orphans, revokes, past>>
      /\ Spend("file") \/ Spend("open")
  BY DEF SyncCleanupFails, AtSync, Up, BootUnopened
<1>3. Quiet
  BY <1>2, SpendQuiet DEF Spendings
<1> QED
  BY <1>1, <1>2, <1>3, FinishQuietly

\* A set that differs in its stamps or its schedule only.
LEMMA SetKept ==
  ASSUME NEW L, NEW r, NEW pa, NEW pa2, NEW h \in SetType, NEW k \in SetType, HomeFine(L, r, pa, h),
         pa2.out = pa.out, pa.slip => pa2.slip,
         k.version = h.version, k.disk = h.disk, k.digest = h.digest, h.dir => k.dir, h.cleanup => k.cleanup,
         h.retry /\ h.tombstone => k.retry /\ k.tombstone
  PROVE  HomeFine(L, r, pa2, k)
  BY DEF HomeFine

\* A fetch is asked for.
LEMMA FetchOneStep ==
  ASSUME NEW L \in Nat, Types, Custody(L), NEW b \in Boxes, NEW w \in Workers, home[b].phase # "off",
         FetchOne(b, w), UNCHANGED <<row, orphans, revokes, user, past>>
  PROVE  Types' /\ Custody(L)'
<1> DEFINE h == home[b]
           k == [h EXCEPT !.dir = TRUE]
           q == [Idle EXCEPT !.at = "fetch", !.generation = h.generation]
<1>1. h \in SetType /\ HomeFine(L, row, past, h)
  BY BoxFacts
<1>2. /\ k \in SetType /\ k.generation = h.generation /\ k.dir /\ k.phase = h.phase
      /\ k.version = h.version /\ k.disk = h.disk /\ k.digest = h.digest /\ k.cleanup = h.cleanup
      /\ k.retry = h.retry /\ k.tombstone = h.tombstone
  BY <1>1 DEF SetType
<1>3. h.generation \in Nat
  BY <1>1 DEF SetType
<1>4. q \in CallType /\ q.at = "fetch" /\ q.generation = h.generation /\ ~q.ok
  BY <1>3, Fresh DEF CallType, Idle
<1>5. home' = [home EXCEPT ![b] = k] /\ pass' = [pass EXCEPT ![b][w] = q]
  BY DEF FetchOne
<1> HIDE DEF h, k, q
<1>6. Quiet
  BY StayQuiet
<1>7. HomeFine(L, row, past', k)
  BY <1>1, <1>2, SetKept
<1>8. WorkFine(L, row, past', k, q, b)
  BY <1>2, <1>3, <1>4 DEF WorkFine, Putting, Reaches
<1>9. \A v \in Workers \ {w} : PairFine(L, k, q, pass[b][v]) /\ PairFine(L, k, pass[b][v], q)
  BY <1>4 DEF PairFine, Putting, Reaches
<1> QED
  BY <1>2, <1>4, <1>5, <1>6, <1>7, <1>8, <1>9, CallStep DEF h

\* A pass beside the loop's is asked for.
LEMMA FlushStep ==
  ASSUME NEW L \in Nat, Types, Custody(L), NEW b \in Boxes, Flush(b)
  PROVE  Types' /\ Custody(L)'
<1> DEFINE h == home[b]
           p == pass[b]["side"]
           q == [p EXCEPT !.at = "start"]
<1>1. /\ h \in SetType /\ HomeFine(L, row, past, h) /\ "side" \in Workers
      /\ p \in CallType /\ WorkFine(L, row, past, h, p, b) /\ pass \in [Boxes -> [Workers -> CallType]]
      /\ home \in [Boxes -> SetType]
  BY BoxFacts DEF Workers, Types
<1>2. q \in CallType /\ q.at = "start" /\ q.generation = p.generation
  BY <1>1 DEF CallType
<1>3. home' = [home EXCEPT ![b] = h] /\ pass' = [pass EXCEPT ![b]["side"] = q]
  BY <1>1 DEF Flush
<1>4. h.phase # "off" /\ orphans' = orphans /\ past' = past
  BY DEF Flush
<1>5. Quiet
  BY SpendQuiet DEF Flush, Spendings
<1> HIDE DEF h, p, q
<1>6. WorkFine(L, row, past', h, q, b)
  BY <1>1, <1>2, <1>4 DEF WorkFine, Putting, Reaches
<1>7. \A v \in Workers \ {"side"} : PairFine(L, h, q, pass[b][v]) /\ PairFine(L, h, pass[b][v], q)
  BY <1>2 DEF PairFine, Putting, Reaches
<1>8. HomeFine(L, row, past', h)
  BY <1>1, <1>4
<1> QED
  BY <1>1, <1>2, <1>3, <1>4, <1>5, <1>6, <1>7, <1>8, CallStep DEF h

\* The stat of a pass: nothing to put, or a put that is due.
LEMMA SyncStatStep ==
  ASSUME NEW L \in Nat, Types, Custody(L), NEW b \in Boxes, NEW w \in Workers, SyncStat(b, w)
  PROVE  Types' /\ Custody(L)'
<1> DEFINE h == home[b]
           k == [Stamped(h) EXCEPT !.dirty = @ \/ h.moved, !.retry = FALSE]
           q == [Idle EXCEPT !.at = "due"]
<1>1. h \in SetType /\ HomeFine(L, row, past, h) /\ past \in PastType
  BY BoxFacts
<1>2. /\ Stamped(h) \in SetType /\ SameLife(h, Stamped(h)) /\ Stamped(h).disk = h.disk
      /\ Stamped(h).version = h.version /\ Stamped(h).digest = h.digest /\ Stamped(h).dir = h.dir
  BY <1>1, StampedFields
<1>3. h.moved \in BOOLEAN /\ Stamped(h).dirty \in BOOLEAN
  BY <1>1, <1>2 DEF SetType
<1>4. /\ k \in SetType /\ k.phase = h.phase /\ k.generation = h.generation /\ k.cleanup = h.cleanup
      /\ k.disk = h.disk /\ k.version = h.version /\ k.digest = h.digest /\ k.dir = h.dir
  BY <1>2, <1>3 DEF SetType, SameLife
<1>5. /\ h.phase # "off" /\ (h.retry => ~h.tombstone)
      /\ \/ pass' = [pass EXCEPT ![b][w] = q] /\ home' = [home EXCEPT ![b] = k]
         \/ Finish(b, w, k)
      /\ \E e : past' = [past EXCEPT !.met[b] = @ \/ e]
      /\ UNCHANGED <<row, orphans, revokes, user>>
  BY DEF SyncStat, AtSync, Up, LocalWins
<1>6. q \in CallType /\ q.at = "due" /\ q.generation = 0 /\ ~q.ok
  BY Fresh DEF CallType, Idle
<1> HIDE DEF h, k, q
<1>7. /\ past' \in PastType /\ past'.born = past.born /\ past'.out = past.out /\ past'.slip = past.slip
      /\ past'.gone = past.gone /\ past'.barred = past.barred
  <2>1. PICK e : past' = [past EXCEPT !.met[b] = @ \/ e]
    BY <1>5
  <2>2. [past.met EXCEPT ![b] = @ \/ e] \in [Boxes -> BOOLEAN]
    BY <1>1 DEF PastType
  <2>3. past' = [past EXCEPT !.met = [past.met EXCEPT ![b] = @ \/ e]]
    BY <1>1, <2>1 DEF PastType
  <2> QED
    BY <1>1, <2>2, <2>3 DEF PastType
<1>8. Quiet
  BY <1>5, <1>7 DEF Quiet, Types
<1>9. HomeFine(L, row, past', k)
  BY <1>1, <1>4, <1>5, <1>7, SetKept DEF HomeFine
<1>10. CASE pass' = [pass EXCEPT ![b][w] = q] /\ home' = [home EXCEPT ![b] = k]
  <2>1. k.generation \in Nat
    BY <1>4 DEF SetType
  <2>2. WorkFine(L, row, past', k, q, b)
    BY <1>6, <2>1 DEF WorkFine, Putting, Reaches
  <2>3. \A v \in Workers \ {w} : PairFine(L, k, q, pass[b][v]) /\ PairFine(L, k, pass[b][v], q)
    BY <1>6 DEF PairFine, Putting, Reaches
  <2> QED
    BY <1>4, <1>5, <1>6, <1>8, <1>9, <1>10, <2>2, <2>3, CallStep DEF h
<1>11. CASE Finish(b, w, k)
  <2>1. (~past'.slip /\ ~k.cleanup) => After(k.disk, past.gone[b]) /\ After(k.disk, past.barred[b])
    BY <1>4, <1>7, BoxFacts DEF GoneFine, h
  <2>2. orphans' \subseteq CallType /\ \A p \in orphans' : Putting(p) /\ PutFine(L, row, past, p)
    BY <1>5 DEF Types, Custody
  <2> QED
    BY <1>4, <1>5, <1>8, <1>9, <1>11, <2>1, <2>2, FinishStep DEF h
<1> QED
  BY <1>5, <1>10, <1>11


\* The slip a step may add to the history.
LEMMA SlipFields ==
  ASSUME past \in PastType, NEW e, past' = [past EXCEPT !.slip = @ \/ e]
  PROVE  /\ past' \in PastType /\ past'.born = past.born /\ past'.out = past.out
         /\ past'.gone = past.gone /\ past'.barred = past.barred
         /\ past.slip => past'.slip
         /\ ~past'.slip => ~past.slip /\ ~e
  BY DEF PastType

\* A put is made of what the home holds, or there is nothing to put.
LEMMA PutSetStep ==
  ASSUME NEW L \in Nat, Types, Custody(L), NEW b \in Boxes, NEW w \in Workers, PutSet(b, w)
  PROVE  Types' /\ Custody(L)'
<1> DEFINE h == home[b]
           k == [h EXCEPT !.dirty = FALSE]
           q == [Idle EXCEPT !.at = "put", !.generation = h.generation, !.version = h.version, !.files = Read(h)]
           e == h.cleanup \/ (h.retry /\ h.tombstone)
<1>1. /\ h \in SetType /\ HomeFine(L, row, past, h) /\ past \in PastType /\ row \in RowType
      /\ GoneFine(past, user.member, h, pass[b], b)
      /\ \A v \in Workers : WorkFine(L, row, past, h, pass[b][v], b) /\ pass[b][v] \in CallType
      /\ \A u, v \in Workers : u # v => PairFine(L, h, pass[b][u], pass[b][v])
      /\ home \in [Boxes -> SetType] /\ RowFine(L, row, past, user)
  BY BoxFacts DEF Types
<1>2. /\ k \in SetType /\ k.phase = h.phase /\ k.generation = h.generation /\ k.cleanup = h.cleanup
      /\ k.disk = h.disk /\ k.version = h.version /\ k.digest = h.digest /\ k.dir = h.dir
      /\ k.retry = h.retry /\ k.tombstone = h.tombstone
  BY <1>1 DEF SetType
<1>3. Read(h) \in Contents /\ h.version \in Nat /\ h.generation \in Nat /\ row.version \in Nat
  BY <1>1, Fresh DEF Read, SetType, RowType
<1>4. /\ q \in CallType /\ q.at = "put" /\ q.generation = h.generation /\ q.version = h.version /\ q.files = Read(h)
      /\ ~q.ok
  BY <1>3, Fresh DEF CallType, Idle
<1>5. /\ h.phase # "off" /\ UNCHANGED <<row, orphans, revokes, user>>
      /\ past' = [past EXCEPT !.slip = @ \/ e]
      /\ \/ Read(h) # Huge /\ Read(h) # h.digest /\ pass' = [pass EXCEPT ![b][w] = q] /\ home' = home
         \/ Finish(b, w, k)
  BY DEF PutSet, Up, Readable
<1>6. Read(h) = IF h.dir THEN h.disk ELSE Nothing
  BY DEF Read
<1> HIDE DEF h, k, q
<1>7. /\ past' \in PastType /\ past'.born = past.born /\ past'.out = past.out
      /\ past'.gone = past.gone /\ past'.barred = past.barred
      /\ past.slip => past'.slip
      /\ ~past'.slip => ~past.slip /\ ~e
  BY <1>1, <1>5, SlipFields
<1> HIDE DEF e
<1>8. Quiet
  BY <1>5, <1>7 DEF Quiet, Types
<1>9. CASE Read(h) # Huge /\ Read(h) # h.digest /\ pass' = [pass EXCEPT ![b][w] = q] /\ home' = home
  <2>1. home' = [home EXCEPT ![b] = h]
    BY <1>1, <1>9 DEF h
  <2>2. HomeFine(L, row, past', h)
    BY <1>1, <1>7, SetKept
  <2>3. (~past'.slip /\ h.version >= L) => After(h.disk, past.out)
    BY <1>1, <1>6, <1>7, <1>9 DEF HomeFine, e
  <2>4. (~past'.slip /\ h.version >= L) => After(Read(h), past.out)
    BY <1>6, <2>3, Fresh DEF After
  <2>5. PutFine(L, row, past', q)
    BY <1>1, <1>4, <1>7, <1>9, <2>4 DEF PutFine, HomeFine
  <2>6. WorkFine(L, row, past', h, q, b)
    BY <1>3, <1>4, <1>7, <2>3, <2>5 DEF WorkFine, Reaches, Putting
  <2>7. \A v \in Workers \ {w} : PairFine(L, h, q, pass[b][v]) /\ PairFine(L, h, pass[b][v], q)
    BY <1>3, <1>4 DEF PairFine, Reaches, Putting
  <2> QED
    BY <1>1, <1>4, <1>5, <1>8, <1>9, <2>1, <2>2, <2>6, <2>7, CallStep DEF h
<1>10. CASE Finish(b, w, k)
  <2>1. HomeFine(L, row, past', k)
    BY <1>1, <1>2, <1>7, SetKept
  <2>2. (~past'.slip /\ ~k.cleanup) => After(k.disk, past.gone[b]) /\ After(k.disk, past.barred[b])
    BY <1>1, <1>2, <1>7 DEF GoneFine
  <2>3. orphans' \subseteq CallType /\ \A p \in orphans' : Putting(p) /\ PutFine(L, row, past, p)
    BY <1>5 DEF Types, Custody
  <2> QED
    BY <1>2, <1>5, <1>8, <1>10, <2>1, <2>2, <2>3, FinishStep DEF h
<1> QED
  BY <1>5, <1>9, <1>10

\* A put is answered.
LEMMA PutAnsweredStep ==
  ASSUME NEW L \in Nat, Types, Custody(L), NEW b \in Boxes, NEW w \in Workers, PutAnswered(b, w)
  PROVE  Types' /\ Custody(L)'
<1> DEFINE h == home[b]
           p == pass[b][w]
           j == [h EXCEPT !.version = IF p.answer > 0 THEN p.answer ELSE @, !.digest = p.files, !.dirty = FALSE]
<1>1. /\ h \in SetType /\ HomeFine(L, row, past, h) /\ p \in CallType /\ WorkFine(L, row, past, h, p, b)
      /\ row \in RowType
  BY BoxFacts
<1>2. p.answer \in Nat /\ p.files \in Contents /\ row.version \in Nat
  BY <1>1 DEF CallType, RowType
<1>3. /\ h.phase # "off" /\ p.at = "answered" /\ UNCHANGED <<row, orphans, revokes, user, past>>
      /\ \/ h.generation = p.generation /\ p.ok /\ Finish(b, w, j)
         \/ Finish(b, w, h)
  BY DEF PutAnswered, Up
<1>4. p.ok => p.answer > 0 /\ p.answer <= row.version
  BY <1>1, <1>3 DEF WorkFine
<1>5. p.ok => /\ j \in SetType /\ j.phase = h.phase /\ j.generation = h.generation /\ j.dir = h.dir
              /\ j.cleanup = h.cleanup /\ j.disk = h.disk /\ j.version = p.answer
  <2>1. CASE p.ok
    <3>1. j = [h EXCEPT !.version = p.answer, !.digest = p.files, !.dirty = FALSE]
      BY <1>4, <2>1
    <3> QED
      BY <1>1, <1>2, <3>1 DEF SetType
  <2> QED
    BY <2>1
<1> HIDE DEF h, p, j
<1>6. Quiet
  BY <1>3, StayQuiet
<1>7. CASE h.generation = p.generation /\ p.ok /\ Finish(b, w, j)
  <2>1. (~past.slip /\ p.answer >= L) => After(h.disk, past.out)
    BY <1>1, <1>3, <1>7 DEF WorkFine, Reaches
  <2>2. HomeFine(L, row, past, j)
    BY <1>4, <1>5, <1>7, <2>1 DEF HomeFine
  <2> QED
    BY <1>3, <1>5, <1>6, <1>7, <2>2, FinishQuietly DEF h
<1>8. CASE Finish(b, w, h)
  BY <1>1, <1>3, <1>6, <1>8, FinishQuietly DEF h
<1> QED
  BY <1>3, <1>7, <1>8

\* A fetch is answered: not at all, too late, or it lands.
LEMMA FetchAnsweredStep ==
  ASSUME NEW L \in Nat, Types, Custody(L), NEW b \in Boxes, NEW w \in Workers, FetchAnswered(b, w)
  PROVE  Types' /\ Custody(L)'
<1> DEFINE h == home[b]
           p == pass[b][w]
           e == p.ok /\ p.answer < h.version
<1>1. /\ h \in SetType /\ HomeFine(L, row, past, h) /\ p \in CallType /\ WorkFine(L, row, past, h, p, b)
      /\ row \in RowType /\ past \in PastType /\ GoneFine(past, user.member, h, pass[b], b)
      /\ \A v \in Workers : pass[b][v] \in CallType /\ (v # w => PairFine(L, h, p, pass[b][v]))
      /\ RowFine(L, row, past, user)
      /\ past.gone[b] \in Nat /\ past.out \in Nat
  BY BoxFacts
<1>2. p.answer \in Nat /\ p.files \in Contents /\ row.version \in Nat /\ h.version \in Nat
  BY <1>1 DEF CallType, RowType, SetType
<1>3. /\ h.phase # "off" /\ p.at = "fetched" /\ UNCHANGED <<row, orphans, revokes, user>>
      /\ past' = [past EXCEPT !.slip = @ \/ e]
      /\ \/ ~p.ok /\ Finish(b, w, RebaseOnDisk(h))
         \/ p.ok /\ h.generation # p.generation /\ Finish(b, w, h)
         \/ p.ok /\ h.generation = p.generation /\ Finish(b, w, Restored(h, p.answer, p.files))
  BY DEF FetchAnswered, Up
<1> HIDE DEF h, p
<1>4. h.dir
  BY <1>1, <1>3 DEF WorkFine
<1>5. /\ RebaseOnDisk(h) \in SetType /\ SameLife(h, RebaseOnDisk(h)) /\ RebaseOnDisk(h).disk = h.disk
      /\ RebaseOnDisk(h).version = h.version /\ (h.disk # Huge => RebaseOnDisk(h).digest = h.disk)
  BY <1>1, <1>4, RebaseFields
<1>6. /\ Restored(h, p.answer, p.files) \in SetType /\ SameLife(h, Restored(h, p.answer, p.files))
      /\ p.answer > 0 => Restored(h, p.answer, p.files).disk = p.files
      /\ p.answer = 0 => Restored(h, p.answer, p.files).disk = h.disk
      /\ Restored(h, p.answer, p.files).version = p.answer /\ Restored(h, p.answer, p.files).digest = p.files
  <2>1. /\ Restored(h, p.answer, p.files) \in SetType /\ SameLife(h, Restored(h, p.answer, p.files))
    BY <1>1, <1>2, RestoredFields
  <2>2. /\ p.answer > 0 => Restored(h, p.answer, p.files).disk = p.files
        /\ p.answer = 0 => Restored(h, p.answer, p.files).disk = h.disk
    BY <1>1, <1>2, RestoredFields
  <2>3. Restored(h, p.answer, p.files).version = p.answer /\ Restored(h, p.answer, p.files).digest = p.files
    BY <1>1, <1>2, RestoredFields
  <2> QED
    BY <2>1, <2>2, <2>3
<1>7. /\ past' \in PastType /\ past'.born = past.born /\ past'.out = past.out
      /\ past'.gone = past.gone /\ past'.barred = past.barred
      /\ past.slip => past'.slip
      /\ ~past'.slip => ~past.slip /\ ~e
  BY <1>1, <1>3, SlipFields
<1>8. Quiet
  BY <1>3, <1>7 DEF Quiet, Types
<1>9. orphans' \subseteq CallType /\ \A o \in orphans' : Putting(o) /\ PutFine(L, row, past, o)
  BY <1>3 DEF Types, Custody
<1>10. CASE ~p.ok /\ Finish(b, w, RebaseOnDisk(h))
  <2> SUFFICES ASSUME NEW k, k = RebaseOnDisk(h) PROVE Types' /\ Custody(L)'
    OBVIOUS
  <2>1. HomeFine(L, row, past', k)
    BY <1>1, <1>4, <1>5, <1>7, Fresh DEF HomeFine, After, SameLife
  <2>2. (~past'.slip /\ ~k.cleanup) => After(k.disk, past.gone[b]) /\ After(k.disk, past.barred[b])
    BY <1>1, <1>5, <1>7 DEF GoneFine, SameLife
  <2> QED
    BY <1>3, <1>4, <1>5, <1>8, <1>9, <1>10, <2>1, <2>2, FinishStep DEF h, SameLife
<1>11. CASE p.ok /\ h.generation # p.generation /\ Finish(b, w, h)
  <2>1. HomeFine(L, row, past', h)
    BY <1>1, <1>7, SetKept
  <2>2. (~past'.slip /\ ~h.cleanup) => After(h.disk, past.gone[b]) /\ After(h.disk, past.barred[b])
    BY <1>1, <1>7 DEF GoneFine
  <2> QED
    BY <1>1, <1>3, <1>8, <1>9, <1>11, <2>1, <2>2, FinishStep DEF h
<1>12. CASE p.ok /\ h.generation = p.generation /\ Finish(b, w, Restored(h, p.answer, p.files))
  <2> SUFFICES ASSUME NEW k, k = Restored(h, p.answer, p.files) PROVE Types' /\ Custody(L)'
    OBVIOUS
  <2>a. p.answer > 0 \/ p.answer = 0
    BY <1>2
  <2>0. /\ k \in SetType /\ k.phase = h.phase /\ k.generation = h.generation /\ k.cleanup = h.cleanup /\ (h.dir => k.dir)
        /\ k.disk = (IF p.answer > 0 THEN p.files ELSE h.disk) /\ k.version = p.answer /\ k.digest = p.files
    <3>1. /\ k \in SetType /\ SameLife(h, k) /\ k.version = p.answer /\ k.digest = p.files
          /\ p.answer > 0 => k.disk = p.files
          /\ p.answer = 0 => k.disk = h.disk
      BY <1>6
    <3>2. k.disk = (IF p.answer > 0 THEN p.files ELSE h.disk)
      BY <1>2, <2>a, <3>1
    <3> QED
      BY <3>1, <3>2 DEF SameLife
  <2>1. p.answer <= row.version
    BY <1>1, <1>3, <1>12 DEF WorkFine
  <2>2. HomeFine(L, row, past', k)
    <3>1. CASE p.answer > 0
      BY <1>4, <2>0, <2>1, <3>1 DEF HomeFine
    <3>2. CASE ~(p.answer > 0)
      <4>1. p.answer >= L => past.out = 0
        BY <1>1, <1>2, <3>2 DEF RowFine
      <4>2. past.out = 0 => After(k.disk, past'.out)
        BY <1>7, Fresh DEF After
      <4> QED
        BY <2>0, <2>1, <4>1, <4>2 DEF HomeFine
    <3> QED
      BY <3>1, <3>2
  <2>3. (~past'.slip /\ ~k.cleanup) => After(k.disk, past.gone[b]) /\ After(k.disk, past.barred[b])
    <3>1. SUFFICES ASSUME ~past'.slip, ~k.cleanup PROVE After(k.disk, past.gone[b]) /\ After(k.disk, past.barred[b])
      OBVIOUS
    <3>2. past.barred[b] = 0 /\ After(p.files, past.gone[b])
      BY <1>1, <1>3, <1>7, <1>12, <3>1 DEF WorkFine
    <3>3. After(h.disk, past.gone[b]) /\ After(k.disk, 0)
      BY <1>1, <1>7, <2>0, <3>1, Fresh DEF GoneFine, After
    <3> QED
      BY <2>0, <3>2, <3>3
  <2>4. ASSUME NEW v \in Workers \ {w}, ~past'.slip, Reaches(L, pass[b][v]), pass[b][v].generation = h.generation,
               After(h.disk, past.out)
        PROVE  After(k.disk, past.out)
    <3>1. p.answer >= L \/ h.version >= L
      BY <1>1, <1>3, <1>12, <2>4 DEF PairFine
    <3>2. p.answer >= L
      BY <1>2, <1>7, <1>12, <2>4, <3>1
    <3>3. After(p.files, past.out)
      BY <1>1, <1>3, <1>7, <1>12, <2>4, <3>2 DEF WorkFine
    <3> QED
      BY <2>0, <2>4, <3>3
  <2> QED
    BY <1>3, <1>8, <1>9, <1>12, <2>0, <2>2, <2>3, <2>4, FinishStep DEF h
<1> QED
  BY <1>3, <1>10, <1>11, <1>12


\* An answer lands on a disk that fails.
LEMMA FetchLandsBadlyStep ==
  ASSUME NEW L \in Nat, Types, Custody(L), NEW b \in Boxes, NEW w \in Workers, FetchLandsBadly(b, w)
  PROVE  Types' /\ Custody(L)'
<1> DEFINE h == home[b]
           p == pass[b][w]
<1>1. /\ h \in SetType /\ HomeFine(L, row, past, h) /\ p \in CallType /\ WorkFine(L, row, past, h, p, b)
  BY BoxFacts
<1>2. p.answer \in Nat /\ p.files \in Contents /\ h.disk \in Contents
  BY <1>1 DEF CallType, SetType
<1>3. /\ h.phase # "off" /\ p.at = "fetched" /\ p.ok /\ UNCHANGED <<row, orphans, revokes, past>> /\ Spend("file")
      /\ \/ Finish(b, w, RemovalFailed(h, p.answer))
         \/ \E d \in {h.disk, Partial} : Finish(b, w, RestoreFailed([h EXCEPT !.disk = d], p.answer))
  BY DEF FetchLandsBadly, Up
<1> HIDE DEF h, p
<1>4. h.dir /\ p.answer <= row.version
  BY <1>1, <1>3 DEF WorkFine
<1>5. Quiet
  BY <1>3, SpendQuiet DEF Spendings
<1>6. CASE Finish(b, w, RemovalFailed(h, p.answer))
  <2> SUFFICES ASSUME NEW k, k = RemovalFailed(h, p.answer) PROVE Types' /\ Custody(L)'
    OBVIOUS
  <2>1. /\ RemovalFailed(h, p.answer) \in SetType /\ SameLife(h, RemovalFailed(h, p.answer))
        /\ RemovalFailed(h, p.answer).disk = h.disk /\ RemovalFailed(h, p.answer).version = p.answer
        /\ RemovalFailed(h, p.answer).retry /\ RemovalFailed(h, p.answer).tombstone
    BY <1>1, <1>2, RemovalFailedFields
  <2>2. /\ k \in SetType /\ SameLife(h, k) /\ k.disk = h.disk /\ k.version = p.answer /\ k.retry /\ k.tombstone
    BY <2>1
  <2>3. HomeFine(L, row, past, k)
    BY <1>4, <2>2 DEF HomeFine
  <2> QED
    BY <1>3, <1>5, <1>6, <2>2, <2>3, FinishQuietly DEF h, SameLife
<1>7. ASSUME NEW d \in {h.disk, Partial}, Finish(b, w, RestoreFailed([h EXCEPT !.disk = d], p.answer))
      PROVE  Types' /\ Custody(L)'
  <2> SUFFICES ASSUME NEW j, j = [h EXCEPT !.disk = d], NEW k, k = RestoreFailed(j, p.answer) PROVE Types' /\ Custody(L)'
    OBVIOUS
  <2>1. d \in Contents /\ (d = h.disk \/ d \notin Logins)
    BY <1>2, <1>7, Fresh
  <2>2. j \in SetType /\ SameLife(h, j) /\ j.disk = d /\ j.dir
    BY <1>1, <1>4, <2>1 DEF SetType, SameLife
  <2>3. /\ RestoreFailed(j, p.answer) \in SetType /\ SameLife(j, RestoreFailed(j, p.answer))
        /\ RestoreFailed(j, p.answer).disk = j.disk /\ RestoreFailed(j, p.answer).version = p.answer
        /\ j.disk # Huge => RestoreFailed(j, p.answer).digest = j.disk
    BY <1>2, <2>2, RestoreFailedFields
  <2>4. /\ k \in SetType /\ k.phase = h.phase /\ k.generation = h.generation /\ k.cleanup = h.cleanup /\ k.dir
        /\ k.disk = d /\ k.version = p.answer /\ (d # Huge => k.digest = d)
    BY <2>2, <2>3 DEF SameLife
  <2>5. HomeFine(L, row, past, k)
    BY <1>4, <2>4, Fresh DEF HomeFine, After
  <2> QED
    BY <1>3, <1>5, <1>7, <2>1, <2>4, <2>5, FinishQuietly DEF h
<1> QED
  BY <1>3, <1>6, <1>7

\* A call is given up; what was sent may still be served.
LEMMA CallFailsStep ==
  ASSUME NEW L \in Nat, Types, Custody(L), NEW b \in Boxes, NEW w \in Workers, CallFails(b, w)
  PROVE  Types' /\ Custody(L)'
<1> DEFINE h == home[b]
           p == pass[b][w]
<1>1. /\ h \in SetType /\ HomeFine(L, row, past, h) /\ p \in CallType /\ WorkFine(L, row, past, h, p, b)
      /\ GoneFine(past, user.member, h, pass[b], b)
  BY BoxFacts
<1>2. /\ h.phase # "off" /\ UNCHANGED <<row, revokes, past>> /\ Spend("fault")
      /\ \/ orphans' = orphans
         \/ orphans' = orphans \cup {p} /\ Putting(p)
      /\ \/ p.at \in {"fetch", "reading", "fetched"} /\ Finish(b, w, RebaseOnDisk(h))
         \/ Finish(b, w, h)
  BY DEF CallFails, Up
<1> HIDE DEF h, p
<1>3. Quiet
  BY <1>2, SpendQuiet DEF Spendings
<1>4. orphans' \subseteq CallType /\ \A o \in orphans' : Putting(o) /\ PutFine(L, row, past, o)
  BY <1>1, <1>2 DEF Types, Custody, WorkFine
<1>5. (~past.slip /\ ~h.cleanup) => After(h.disk, past.gone[b]) /\ After(h.disk, past.barred[b])
  BY <1>1 DEF GoneFine
<1>6. CASE p.at \in {"fetch", "reading", "fetched"} /\ Finish(b, w, RebaseOnDisk(h))
  <2> SUFFICES ASSUME NEW k, k = RebaseOnDisk(h) PROVE Types' /\ Custody(L)'
    OBVIOUS
  <2>1. h.dir
    BY <1>1, <1>6 DEF WorkFine
  <2>2. /\ RebaseOnDisk(h) \in SetType /\ SameLife(h, RebaseOnDisk(h)) /\ RebaseOnDisk(h).disk = h.disk
        /\ RebaseOnDisk(h).version = h.version /\ (h.disk # Huge => RebaseOnDisk(h).digest = h.disk)
    BY <1>1, <2>1, RebaseFields
  <2>3. /\ k \in SetType /\ k.phase = h.phase /\ k.generation = h.generation /\ k.cleanup = h.cleanup /\ k.dir
        /\ k.disk = h.disk /\ k.version = h.version /\ (h.disk # Huge => k.digest = h.disk)
    BY <2>1, <2>2 DEF SameLife
  <2>4. HomeFine(L, row, past', k)
    BY <1>1, <1>2, <2>3, Fresh DEF HomeFine, After
  <2>5. (~past'.slip /\ ~k.cleanup) => After(k.disk, past.gone[b]) /\ After(k.disk, past.barred[b])
    BY <1>2, <1>5, <2>3
  <2> QED
    BY <1>2, <1>3, <1>4, <1>6, <2>3, <2>4, <2>5, FinishStep DEF h
<1>7. CASE Finish(b, w, h)
  <2>1. HomeFine(L, row, past', h)
    BY <1>1, <1>2
  <2>2. (~past'.slip /\ ~h.cleanup) => After(h.disk, past.gone[b]) /\ After(h.disk, past.barred[b])
    BY <1>2, <1>5
  <2> QED
    BY <1>1, <1>2, <1>3, <1>4, <1>7, <2>1, <2>2, FinishStep DEF h
<1> QED
  BY <1>2, <1>6, <1>7

--------------------
\* The steps of custody.

\* What a served call leaves of the row, and what it says of the history.
LEMMA SavesOnward ==
  ASSUME NEW L, NEW p, Types, ServedWell(L, row, past, user, p, Served(p), Kept(p)), row' = Kept(p), Saves(p)
  PROVE  /\ Onward(row, past, row', past')
         /\ row' \in RowType /\ past' \in PastType /\ past'.born = past.born /\ past'.out = past.out
         /\ past'.gone = past.gone /\ past'.barred = past.barred /\ past'.slip = past.slip
         /\ RowFine(L, row', past', user) /\ row.version <= row'.version
<1>1. row' \in RowType /\ row \in RowType /\ past \in PastType /\ row.version <= row'.version
  BY DEF ServedWell, Types
<1>2. row'.files \in Logins \cup {Nothing}
  BY <1>1 DEF RowType
<1>3. past' = [past EXCEPT !.saved = @ \cup ({row'.files} \ {Nothing})]
  BY DEF Saves
<1>4. /\ past' \in PastType /\ past'.born = past.born /\ past'.out = past.out
      /\ past'.gone = past.gone /\ past'.barred = past.barred /\ past'.slip = past.slip
  BY <1>1, <1>2, <1>3 DEF PastType
<1>5. row'.version = row.version => row'.lastRevoked = row.lastRevoked
  BY DEF ServedWell
<1>6. past.born <= past'.born
  BY <1>1, <1>4 DEF PastType
<1>7. RowFine(L, row', past', user)
  BY <1>4 DEF ServedWell, RowFine
<1> QED
  BY <1>1, <1>4, <1>5, <1>6, <1>7 DEF Onward

\* Under a history that says the same, the row's and the puts' parts stay.
LEMMA SameOut ==
  ASSUME NEW L, NEW r, NEW pa, NEW pa2, NEW p, pa2.out = pa.out, pa2.slip = pa.slip, PutFine(L, r, pa, p)
  PROVE  PutFine(L, r, pa2, p)
  BY DEF PutFine

\* A sandbox's call is served.
LEMMA ServeStep ==
  ASSUME NEW L \in Nat, Types, Custody(L), NEW b \in Boxes, NEW w \in Workers, Serve(b, w)
  PROVE  Types' /\ Custody(L)'
<1> DEFINE h == home[b]
           p == pass[b][w]
           q == Served(p)
           k == Kept(p)
<1>1. /\ h \in SetType /\ HomeFine(L, row, past, h) /\ p \in CallType /\ WorkFine(L, row, past, h, p, b)
      /\ GoneFine(past, user.member, h, pass[b], b) /\ RowFine(L, row, past, user)
      /\ row \in RowType /\ user \in UserType /\ past \in PastType /\ past.out \in Nat
      /\ past.gone[b] \in Nat /\ past.barred[b] \in Nat /\ pass[b] \in [Workers -> CallType]
      /\ \A u, v \in Workers : u # v => PairFine(L, h, pass[b][u], pass[b][v])
      /\ home \in [Boxes -> SetType] /\ pass \in [Boxes -> [Workers -> CallType]]
  BY BoxFacts DEF Types
<1>2. /\ p.at \in {"fetch", "reading"} \/ Putting(p)
      /\ pass' = [pass EXCEPT ![b][w] = q] /\ row' = k /\ Saves(p)
      /\ UNCHANGED <<home, orphans, revokes, user>>
  BY DEF Serve
<1>3. ServedWell(L, row, past, user, p, q, k)
  BY <1>1, <1>2, ServingWell DEF WorkFine
<1> HIDE DEF h, p
<1>4. /\ Onward(row, past, row', past')
      /\ row' \in RowType /\ past' \in PastType /\ past'.born = past.born /\ past'.out = past.out
      /\ past'.gone = past.gone /\ past'.barred = past.barred /\ past'.slip = past.slip
      /\ RowFine(L, row', past', user') /\ row.version <= row'.version
  BY <1>2, <1>3, SavesOnward
<1> HIDE DEF q, k
<1>5. h.phase # "off"
  <2>1. h.phase = "off" => p = Idle
    BY <1>1 DEF GoneFine, p
  <2> QED
    BY <1>2, <2>1 DEF Idle, Putting
<1>6. HomeFine(L, row', past', h)
  BY <1>1, <1>4, HomeKept
<1>7. /\ q \in CallType /\ q.generation = p.generation
      /\ Putting(q) => Putting(p) /\ PutFine(L, row', past, q)
      /\ q.at \in {"fetch", "reading", "fetched"} => p.at \in {"fetch", "reading"}
      /\ q.at = "reading" => user.member
      /\ (q.ok /\ q.at \in {"fetched", "answered"}) => q.answer <= row'.version
      /\ (q.ok /\ q.at = "answered") => q.answer > 0
      /\ (q.at = "fetched" /\ q.ok) => p.at = "reading" /\ q.files = row.files /\ q.answer = row.version
      /\ Reaches(L, q) => Reaches(L, p)
  BY <1>2, <1>3 DEF ServedWell
<1>8. WorkFine(L, row', past', h, q, b)
  <2>1. q.generation <= h.generation /\ (q.at \in {"fetch", "reading", "fetched"} => h.dir)
    BY <1>1, <1>7 DEF WorkFine
  <2>2. Putting(q) => PutFine(L, row', past', q)
    BY <1>4, <1>7, SameOut
  <2>3. (~past'.slip /\ q.at = "fetched" /\ q.ok) => After(q.files, past.out) /\ After(q.files, past.gone[b])
    <3>1. SUFFICES ASSUME ~past'.slip, q.at = "fetched", q.ok PROVE After(q.files, past.out) /\ After(q.files, past.gone[b])
      OBVIOUS
    <3>2. After(q.files, past.out)
      BY <1>1, <1>4, <1>7, <3>1 DEF RowFine
    <3>3. past.gone[b] <= past.out
      BY <1>1 DEF GoneFine
    <3> QED
      BY <1>1, <3>2, <3>3, AfterLess
  <2>4. (q.at = "fetched" /\ q.ok) => q.files \in Logins \cup {Nothing}
    BY <1>1, <1>7 DEF RowType
  <2>5. (q.generation = h.generation /\ (q.at = "reading" \/ (q.at = "fetched" /\ q.ok))) => past.barred[b] = 0
    BY <1>1, <1>7 DEF WorkFine, GoneFine
  <2>6. (~past'.slip /\ Reaches(L, q) /\ q.generation = h.generation) => After(h.disk, past.out)
    BY <1>1, <1>4, <1>7 DEF WorkFine
  <2> QED
    BY <1>4, <1>7, <2>1, <2>2, <2>3, <2>4, <2>5, <2>6 DEF WorkFine
<1>9. ASSUME NEW v \in Workers \ {w} PROVE PairFine(L, h, q, pass[b][v]) /\ PairFine(L, h, pass[b][v], q)
  <2>1. PairFine(L, h, pass[b][v], p)
    BY <1>1, <1>9 DEF p
  <2>2. PairFine(L, h, pass[b][v], q)
    BY <1>7, <2>1 DEF PairFine
  <2>3. row.version \in Nat /\ row.lastRevoked \in Nat
    BY <1>1 DEF RowType
  <2>4. row.version >= L
    BY <1>1, <2>3 DEF RowFine
  <2>5. PairFine(L, h, q, pass[b][v])
    BY <1>7, <2>4 DEF PairFine
  <2> QED
    BY <2>2, <2>5
<1>10. home' = [home EXCEPT ![b] = h]
  BY <1>1, <1>2 DEF h
<1>11. /\ \A c \in Boxes : BoxFine(L, row', past', user'.member, home'[c], pass'[c], c)
       /\ home' \in [Boxes -> SetType] /\ pass' \in [Boxes -> [Workers -> CallType]]
  BY <1>1, <1>2, <1>4, <1>5, <1>6, <1>7, <1>8, <1>9, <1>10, CallFine DEF h
<1>12. ASSUME NEW o \in orphans' PROVE Putting(o) /\ PutFine(L, row', past', o)
  <2>1. Putting(o) /\ PutFine(L, row, past, o) /\ o \in CallType
    BY <1>2, <1>12 DEF Custody, Types
  <2> QED
    BY <1>4, <2>1, PutKept
<1>13. ASSUME NEW m \in revokes' PROVE RevokeFine(row', past', m)
  <2>1. RevokeFine(row, past, m) /\ m.version \in Nat /\ row.version \in Nat /\ row'.version \in Nat
    BY <1>1, <1>2, <1>4, <1>13 DEF Custody, Types, RevokeType, RowType
  <2> QED
    BY <1>4, <2>1 DEF RevokeFine
<1>14. Types'
  BY <1>2, <1>4, <1>11 DEF Types
<1> QED
  BY <1>4, <1>11, <1>12, <1>13, <1>14 DEF Custody


\* A step that moves no sandbox.
LEMMA StandingStill ==
  ASSUME NEW L \in Nat, Types, Custody(L), UNCHANGED <<home, pass>>, Onward(row, past, row', past'),
         user' \in UserType, RowFine(L, row', past', user'),
         \A b \in Boxes : past'.gone[b] = past.gone[b] /\ past'.barred[b] \in {0, past.barred[b]},
         \A b \in Boxes : past'.barred[b] # 0 => (~user.member => ~user'.member),
         orphans' \subseteq CallType, \A p \in orphans' : Putting(p) /\ PutFine(L, row', past', p),
         revokes' \subseteq RevokeType, \A m \in revokes' : RevokeFine(row', past', m)
  PROVE  Types' /\ Custody(L)'
<1>1. ASSUME NEW b \in Boxes PROVE BoxFine(L, row', past', user'.member, home[b], pass[b], b)
  <2>1. /\ home[b] \in SetType /\ pass[b] \in [Workers -> CallType]
        /\ BoxFine(L, row, past, user.member, home[b], pass[b], b)
    BY DEF Types, Custody
  <2> QED
    BY <2>1, BoxKept
<1>2. row' \in RowType /\ past' \in PastType
  BY DEF Onward
<1>3. Types'
  BY <1>2 DEF Types
<1> QED
  BY <1>1, <1>3 DEF Custody

\* Nothing happens to custody, or a revoke is lost.
LEMMA QuietStep ==
  ASSUME NEW L \in Nat, Types, Custody(L), Quiet, UNCHANGED <<home, pass, orphans>>
  PROVE  Types' /\ Custody(L)'
<1>1. /\ Onward(row, past, row', past') /\ RowFine(L, row', past', user')
      /\ \A p \in orphans : Putting(p) /\ PutFine(L, row', past', p)
      /\ \A m \in revokes' : RevokeFine(row', past', m)
      /\ user' \in UserType /\ revokes' \subseteq RevokeType
  BY QuietFine
<1>2. orphans' \subseteq CallType
  BY DEF Types
<1>3. past'.gone = past.gone /\ past'.barred = past.barred /\ user'.member = user.member
  BY DEF Quiet
<1> QED
  BY <1>1, <1>2, <1>3, StandingStill

\* A put nobody waits for is served.
LEMMA ServeOrphanStep ==
  ASSUME NEW L \in Nat, Types, Custody(L), NEW p \in orphans, ServeOrphan(p)
  PROVE  Types' /\ Custody(L)'
<1> DEFINE q == Served(p)
           k == Kept(p)
<1>1. /\ p \in CallType /\ Putting(p) /\ PutFine(L, row, past, p) /\ RowFine(L, row, past, user)
      /\ row \in RowType /\ user \in UserType /\ past \in PastType /\ past.out \in Nat
  BY DEF Types, Custody, PastType
<1>2. /\ orphans' = (orphans \ {p}) \cup (IF Putting(q) THEN {q} ELSE {})
      /\ row' = k /\ Saves(p)
      /\ UNCHANGED <<home, pass, revokes, user>>
  BY DEF ServeOrphan
<1>3. ServedWell(L, row, past, user, p, q, k)
  BY <1>1, ServingWell
<1>4. /\ Onward(row, past, row', past')
      /\ row' \in RowType /\ past' \in PastType /\ past'.born = past.born /\ past'.out = past.out
      /\ past'.gone = past.gone /\ past'.barred = past.barred /\ past'.slip = past.slip
      /\ RowFine(L, row', past', user') /\ row.version <= row'.version
  BY <1>2, <1>3, SavesOnward
<1> HIDE DEF q, k
<1>5. q \in CallType /\ (Putting(q) => PutFine(L, row', past, q))
  BY <1>2, <1>3 DEF ServedWell
<1>6. ASSUME NEW o \in orphans' PROVE o \in CallType /\ Putting(o) /\ PutFine(L, row', past', o)
  <2>1. CASE o \in orphans
    <3>1. Putting(o) /\ PutFine(L, row, past, o) /\ o \in CallType
      BY <2>1 DEF Custody, Types
    <3> QED
      BY <1>4, <3>1, PutKept
  <2>2. CASE o = q /\ Putting(q)
    BY <1>4, <1>5, <2>2, SameOut
  <2> QED
    BY <1>2, <1>6, <2>1, <2>2
<1>7. ASSUME NEW m \in revokes' PROVE m \in RevokeType /\ RevokeFine(row', past', m)
  <2>1. m \in RevokeType /\ RevokeFine(row, past, m) /\ m.version \in Nat /\ row.version \in Nat /\ row'.version \in Nat
    BY <1>1, <1>2, <1>4, <1>7 DEF Custody, Types, RevokeType, RowType
  <2> QED
    BY <1>4, <2>1 DEF RevokeFine
<1> QED
  BY <1>1, <1>2, <1>4, <1>6, <1>7, StandingStill

\* A row that does not open: the fetch fails.
LEMMA FetchUnreadableStep ==
  ASSUME NEW L \in Nat, Types, Custody(L), NEW b \in Boxes, NEW w \in Workers, FetchUnreadable(b, w)
  PROVE  Types' /\ Custody(L)'
<1> DEFINE h == home[b]
           p == pass[b][w]
           q == Answer(p, FALSE, 0)
<1>1. /\ h \in SetType /\ HomeFine(L, row, past, h) /\ p \in CallType /\ WorkFine(L, row, past, h, p, b)
      /\ GoneFine(past, user.member, h, pass[b], b) /\ home \in [Boxes -> SetType]
      /\ pass \in [Boxes -> [Workers -> CallType]]
  BY BoxFacts DEF Types
<1>2. /\ p.at = "reading" /\ pass' = [pass EXCEPT ![b][w] = q] /\ Spend("fault")
      /\ UNCHANGED <<row, home, orphans, revokes, past>>
  BY DEF FetchUnreadable
<1>3. q \in CallType /\ q.generation = p.generation /\ q.ok = FALSE /\ q.at = "fetched"
  BY <1>1, <1>2, RefusalFields
<1>4. home' = [home EXCEPT ![b] = h]
  BY <1>1, <1>2
<1> HIDE DEF q
<1>5. h.phase # "off"
  BY <1>1, <1>2 DEF GoneFine, Idle
<1> HIDE DEF h, p
<1>6. Quiet
  BY <1>2, SpendQuiet DEF Spendings
<1>7. WorkFine(L, row, past', h, q, b)
  BY <1>1, <1>2, <1>3 DEF WorkFine, Putting, Reaches
<1>8. \A v \in Workers \ {w} : PairFine(L, h, q, pass[b][v]) /\ PairFine(L, h, pass[b][v], q)
  BY <1>3 DEF PairFine, Putting, Reaches
<1>9. HomeFine(L, row, past', h)
  BY <1>1, <1>2
<1> QED
  BY <1>1, <1>2, <1>3, <1>4, <1>5, <1>6, <1>7, <1>8, <1>9, CallStep DEF h

\* The person logs out: nobody works from the new tombstone yet.
LEMMA LogoutStep ==
  ASSUME NEW L \in Nat, Types, Custody(L), Logout
  PROVE  Types' /\ \E M \in Nat : Custody(M)'
<1>1. /\ row \in RowType /\ past \in PastType /\ user \in UserType /\ home \in [Boxes -> SetType]
      /\ pass \in [Boxes -> [Workers -> CallType]] /\ orphans \subseteq CallType /\ revokes \subseteq RevokeType
      /\ RowFine(L, row, past, user)
  BY DEF Types, Custody
<1>2. PICK n \in Nat : n = row.version + 1 /\ row.version \in Nat /\ past.born \in Nat /\ past.out \in Nat
  BY <1>1 DEF RowType, PastType
<1>3. /\ row' = [version |-> n, revoked |-> TRUE, lastRevoked |-> n, files |-> Nothing]
      /\ user' = [Spent("logout") EXCEPT !.sweep = "logout", !.version = n]
      /\ past' = [past EXCEPT !.out = past.born] /\ UNCHANGED <<home, pass, orphans, revokes>> /\ Can("logout")
  BY <1>2 DEF Logout, Tombstone
<1>4. row' \in RowType /\ row'.version = n /\ row'.lastRevoked = n /\ row'.files = Nothing /\ row'.revoked
  BY <1>3 DEF RowType
<1>5. user' \in UserType /\ user'.version = n /\ user'.member = user.member
  <2>1. Spent("logout") \in UserType /\ Spent("logout").member = user.member
    BY <1>1, <1>3, SpentFields DEF Spendings
  <2> QED
    BY <1>3, <2>1 DEF UserType
<1>6. /\ past' \in PastType /\ past'.out = past.born /\ past'.born = past.born /\ past'.gone = past.gone
      /\ past'.barred = past.barred /\ past'.slip = past.slip
  BY <1>1, <1>2, <1>3 DEF PastType
<1>7. past.out <= past.born
  BY <1>1 DEF RowFine
<1>8. RowFine(n, row', past', user')
  BY <1>2, <1>4, <1>5, <1>6, Fresh DEF RowFine, After
<1>9. ASSUME NEW p \in CallType, PutFine(L, row, past, p)
      PROVE  PutFine(n, row', past', p) /\ ~(p.version >= n)
  <2>1. p.version \in Nat /\ p.seen.version \in Nat
    BY DEF CallType, RowType
  <2> QED
    BY <1>2, <1>4, <1>9, <2>1 DEF PutFine
<1>10. ASSUME NEW b \in Boxes PROVE BoxFine(n, row', past', user'.member, home[b], pass[b], b)
  <2>1. /\ home[b] \in SetType /\ HomeFine(L, row, past, home[b])
        /\ GoneFine(past, user.member, home[b], pass[b], b)
        /\ \A w \in Workers : pass[b][w] \in CallType /\ WorkFine(L, row, past, home[b], pass[b][w], b)
        /\ past.gone[b] \in Nat /\ past.barred[b] \in Nat
    BY BoxFacts
  <2>2. home[b].version \in Nat
    BY <2>1 DEF SetType
  <2>3. HomeFine(n, row', past', home[b])
    BY <1>2, <1>4, <2>1, <2>2 DEF HomeFine
  <2>4. ASSUME NEW w \in Workers PROVE WorkFine(n, row', past', home[b], pass[b][w], b) /\ ~Reaches(n, pass[b][w])
    <3>1. pass[b][w].answer \in Nat
      BY <2>1 DEF CallType
    <3>2. Putting(pass[b][w]) => PutFine(n, row', past', pass[b][w]) /\ ~(pass[b][w].version >= n)
      BY <1>9, <2>1 DEF WorkFine
    <3>3. (pass[b][w].ok /\ pass[b][w].at \in {"fetched", "answered"}) => pass[b][w].answer <= row.version
      BY <2>1 DEF WorkFine
    <3>4. ~Reaches(n, pass[b][w])
      BY <1>2, <3>1, <3>2, <3>3 DEF Reaches
    <3> QED
      BY <1>2, <1>4, <1>6, <2>1, <3>1, <3>2, <3>3, <3>4 DEF WorkFine
  <2>5. \A v, w \in Workers : v # w => PairFine(n, home[b], pass[b][v], pass[b][w])
    BY <2>4 DEF PairFine
  <2>6. GoneFine(past', user'.member, home[b], pass[b], b)
    BY <1>2, <1>5, <1>6, <1>7, <2>1 DEF GoneFine
  <2> QED
    BY <2>3, <2>4, <2>5, <2>6 DEF BoxFine
<1>11. ASSUME NEW p \in orphans PROVE Putting(p) /\ PutFine(n, row', past', p)
  BY <1>1, <1>9, <1>11 DEF Custody
<1>12. ASSUME NEW m \in revokes PROVE RevokeFine(row', past', m)
  <2>1. RevokeFine(row, past, m) /\ m.version \in Nat /\ m.born \in Nat
    BY <1>1, <1>12 DEF Custody, RevokeType
  <2> QED
    BY <1>2, <1>4, <1>6, <1>7, <2>1 DEF RevokeFine
<1>13. Types'
  BY <1>1, <1>3, <1>4, <1>5, <1>6 DEF Types
<1>14. Custody(n)'
  BY <1>3, <1>8, <1>10, <1>11, <1>12 DEF Custody
<1> QED
  BY <1>13, <1>14


\* The membership ends, or is there again.
LEMMA MembershipStep ==
  ASSUME NEW L \in Nat, Types, Custody(L), Leave \/ Rejoin
  PROVE  Types' /\ Custody(L)'
<1>1. /\ row \in RowType /\ past \in PastType /\ user \in UserType /\ orphans \subseteq CallType
      /\ revokes \subseteq RevokeType /\ RowFine(L, row, past, user)
  BY DEF Types, Custody
<1>2. row.version \in Nat /\ past.born \in Nat /\ user.version \in Nat
  BY <1>1 DEF RowType, PastType, UserType
<1>3. row' = row /\ UNCHANGED <<home, pass, orphans, revokes>>
  BY DEF Leave, Rejoin
<1>4. /\ user' \in UserType /\ user'.version \in {0, user.version}
      /\ Leave => ~user'.member
  <2>1. CASE Leave
    <3>1. user' = [Spent("leave") EXCEPT !.member = FALSE, !.sweep = "withdraw", !.version = 0] /\ Can("leave")
      BY <2>1 DEF Leave
    <3>2. Spent("leave") \in UserType
      BY <1>1, <3>1, SpentFields DEF Spendings
    <3> QED
      BY <3>1, <3>2 DEF UserType
  <2>2. CASE Rejoin
    <3>1. user' = [user EXCEPT !.member = TRUE] /\ ~user.member
      BY <2>2 DEF Rejoin
    <3>2. ~Leave
      BY <3>1 DEF Leave
    <3> QED
      BY <1>1, <3>1, <3>2 DEF UserType
  <2> QED
    BY <2>1, <2>2
<1>5. /\ past' \in PastType /\ past'.born = past.born /\ past'.out = past.out /\ past'.slip = past.slip
      /\ past'.gone = past.gone
      /\ \A b \in Boxes : past'.barred[b] \in {0, past.barred[b]}
      /\ Rejoin => \A b \in Boxes : past'.barred[b] = 0
  <2>1. CASE Leave
    <3>1. past' = past /\ ~Rejoin
      BY <2>1 DEF Leave, Rejoin
    <3> QED
      BY <1>1, <3>1
  <2>2. CASE Rejoin
    <3>1. past' = [past EXCEPT !.barred = [b \in Boxes |-> 0]]
      BY <2>2 DEF Rejoin
    <3> QED
      BY <1>1, <3>1 DEF PastType
  <2> QED
    BY <2>1, <2>2
<1>6. Onward(row, past, row', past')
  BY <1>1, <1>2, <1>3, <1>5 DEF Onward
<1>7. RowFine(L, row', past', user')
  BY <1>1, <1>2, <1>3, <1>4, <1>5 DEF RowFine
<1>8. \A b \in Boxes : past'.barred[b] # 0 => (~user.member => ~user'.member)
  BY <1>4, <1>5
<1>9. \A p \in orphans' : Putting(p) /\ PutFine(L, row', past', p)
  BY <1>3, <1>5, SameOut DEF Custody
<1>10. \A m \in revokes' : RevokeFine(row', past', m)
  BY <1>3, <1>5 DEF Custody, RevokeFine
<1> QED
  BY <1>1, <1>3, <1>4, <1>5, <1>6, <1>7, <1>8, <1>9, <1>10, StandingStill

\* The sweep goes out.
LEMMA RevokeDownwardStep ==
  ASSUME NEW L \in Nat, Types, Custody(L), RevokeDownward
  PROVE  Types' /\ Custody(L)'
<1> DEFINE born == IF user.version > 0 THEN past.out ELSE past.born
           message(b) == [box |-> b, version |-> user.version, born |-> born]
<1>1. /\ row \in RowType /\ past \in PastType /\ user \in UserType /\ orphans \subseteq CallType
      /\ revokes \subseteq RevokeType /\ RowFine(L, row, past, user)
  BY DEF Types, Custody
<1>2. /\ row.version \in Nat /\ past.born \in Nat /\ past.out \in Nat /\ user.version \in Nat
      /\ past.gone \in [Boxes -> Nat] /\ past.barred \in [Boxes -> Nat]
  BY <1>1 DEF RowType, PastType, UserType
<1>3. /\ user' = [user EXCEPT !.sweep = "none"]
      /\ UNCHANGED <<row, home, pass, orphans, past>>
      /\ \A m \in revokes' : m \in revokes \/ \E b \in Boxes : m = message(b)
  BY DEF RevokeDownward
<1>4. user' \in UserType /\ user'.version = user.version /\ user'.member = user.member
  BY <1>1, <1>3 DEF UserType
<1>5. ASSUME NEW b \in Boxes PROVE message(b) \in RevokeType /\ RevokeFine(row, past, message(b))
  <2>1. born \in Nat /\ born <= past.born /\ (user.version > 0 => born = past.out)
    BY <1>1, <1>2 DEF RowFine
  <2> HIDE DEF born
  <2>2. message(b) \in RevokeType
    BY <1>2, <2>1 DEF RevokeType
  <2>3. user.version <= row.version
    BY <1>1 DEF RowFine
  <2> QED
    BY <1>2, <2>1, <2>2, <2>3 DEF RevokeFine
<1> HIDE DEF message
<1>6. revokes' \subseteq RevokeType /\ \A m \in revokes' : RevokeFine(row', past', m)
  BY <1>1, <1>3, <1>5 DEF Custody
<1>7. Onward(row, past, row', past') /\ RowFine(L, row', past', user')
  BY <1>1, <1>2, <1>3, <1>4 DEF Onward, RowFine
<1>8. \A p \in orphans' : Putting(p) /\ PutFine(L, row', past', p)
  BY <1>3 DEF Custody
<1> QED
  BY <1>1, <1>2, <1>3, <1>4, <1>6, <1>7, <1>8, StandingStill

--------------------
\* The steps of a sandbox.

\* One sandbox changes, and the others do not.
LEMMA OneBox ==
  ASSUME NEW L \in Nat, Types, Custody(L), NEW b \in Boxes, Onward(row, past, row', past'),
         user' \in UserType, user'.member = user.member, RowFine(L, row', past', user'),
         \A c \in Boxes \ {b} : past'.gone[c] = past.gone[c] /\ past'.barred[c] = past.barred[c],
         NEW k \in SetType, NEW qs \in [Workers -> CallType],
         home' = [home EXCEPT ![b] = k], pass' = [pass EXCEPT ![b] = qs],
         BoxFine(L, row', past', user'.member, k, qs, b),
         orphans' \subseteq CallType, \A p \in orphans' : Putting(p) /\ PutFine(L, row', past', p),
         revokes' \subseteq RevokeType, \A m \in revokes' : RevokeFine(row', past', m)
  PROVE  Types' /\ Custody(L)'
<1>1. /\ home \in [Boxes -> SetType] /\ pass \in [Boxes -> [Workers -> CallType]]
      /\ row' \in RowType /\ past' \in PastType
  BY DEF Types, Onward
<1>2. ASSUME NEW c \in Boxes, c # b PROVE BoxFine(L, row', past', user'.member, home[c], pass[c], c)
  <2>1. /\ past'.gone[c] = past.gone[c] /\ past'.barred[c] \in {0, past.barred[c]}
        /\ home[c] \in SetType /\ pass[c] \in [Workers -> CallType]
        /\ BoxFine(L, row, past, user.member, home[c], pass[c], c)
    BY <1>1, <1>2 DEF Custody
  <2> QED
    BY <2>1, BoxKept
<1>3. /\ home' \in [Boxes -> SetType] /\ home'[b] = k /\ \A c \in Boxes \ {b} : home'[c] = home[c]
      /\ pass' \in [Boxes -> [Workers -> CallType]] /\ pass'[b] = qs /\ \A c \in Boxes \ {b} : pass'[c] = pass[c]
  BY <1>1
<1>4. \A c \in Boxes : BoxFine(L, row', past', user'.member, home'[c], pass'[c], c)
  BY <1>2, <1>3
<1>5. Types'
  BY <1>1, <1>3 DEF Types
<1> QED
  BY <1>4, <1>5 DEF Custody

\* A sandbox whose disk may change, and little else.
LEMMA DiskMoves ==
  ASSUME NEW L \in Nat, NEW r, NEW pa, NEW pa2, Onward(r, pa, r, pa2), NEW b \in Boxes, NEW m,
         pa2.gone[b] = pa.gone[b], pa2.barred[b] = pa.barred[b],
         NEW h \in SetType, NEW k \in SetType, NEW ps \in [Workers -> CallType], BoxFine(L, r, pa, m, h, ps, b),
         k.generation = h.generation, k.version = h.version, k.dir = h.dir, k.cleanup = h.cleanup,
         k.digest = h.digest, k.phase # "off", h.retry /\ h.tombstone => k.retry /\ k.tombstone,
         \/ k.disk = h.disk
         \/ After(k.disk, pa.out) /\ After(k.disk, pa.gone[b]) /\ After(k.disk, pa.barred[b])
  PROVE  BoxFine(L, r, pa2, m, k, ps, b)
<1>1. /\ HomeFine(L, r, pa, h) /\ GoneFine(pa, m, h, ps, b)
      /\ \A w \in Workers : ps[w] \in CallType /\ WorkFine(L, r, pa, h, ps[w], b)
      /\ \A v, w \in Workers : v # w => PairFine(L, h, ps[v], ps[w])
  BY DEF BoxFine
<1>2. pa2.out = pa.out /\ (pa.slip => pa2.slip) /\ pa.born \in Nat /\ pa2.born \in Nat /\ pa.born <= pa2.born
      /\ pa.barred[b] \in Nat /\ pa.gone[b] \in Nat
  BY DEF Onward, PastType
<1>3. HomeFine(L, r, pa2, k)
  BY <1>1, <1>2 DEF HomeFine
<1>4. \A w \in Workers : WorkFine(L, r, pa2, k, ps[w], b)
  <2>1. After(h.disk, pa.out) => After(k.disk, pa.out)
    OBVIOUS
  <2>2. pa2.gone[b] <= pa.gone[b] /\ pa2.barred[b] \in {0, pa.barred[b]} /\ (h.dir => k.dir)
    BY <1>2
  <2> QED
    BY <1>1, <2>1, <2>2, WorkKept
<1>5. \A v, w \in Workers : v # w => PairFine(L, k, ps[v], ps[w])
  BY <1>1 DEF PairFine
<1>6. GoneFine(pa2, m, k, ps, b)
  BY <1>1, <1>2 DEF GoneFine
<1> QED
  BY <1>3, <1>4, <1>5, <1>6 DEF BoxFine

\* The agent writes its files.
LEMMA WriteStep ==
  ASSUME NEW L \in Nat, Types, Custody(L), NEW b \in Boxes, NEW c \in Contents, Write(b, c)
  PROVE  Types' /\ Custody(L)'
<1> DEFINE h == home[b]
           k == [h EXCEPT !.disk = c, !.moved = TRUE]
           ps == pass[b]
<1>1. /\ h \in SetType /\ ps \in [Workers -> CallType] /\ BoxFine(L, row, past, user.member, h, ps, b)
      /\ row \in RowType /\ past \in PastType /\ user \in UserType /\ RowFine(L, row, past, user)
      /\ GoneFine(past, user.member, h, ps, b)
      /\ home \in [Boxes -> SetType] /\ pass \in [Boxes -> [Workers -> CallType]]
  BY BoxFacts DEF Types, Custody
<1>2. /\ past.born \in Nat /\ past.out \in Nat /\ past.gone[b] \in Nat /\ past.barred[b] \in Nat /\ row.version \in Nat
  BY <1>1 DEF PastType, RowType
<1>3. /\ h.phase # "off" /\ UNCHANGED <<row, pass, orphans, revokes>> /\ home' = [home EXCEPT ![b] = k]
      /\ pass' = [pass EXCEPT ![b] = ps]
      /\ c \in Logins => c = past.born + 1 \/ c = h.disk
      /\ \E o \in {"login", "remove", "spoil", "touch"} : Spend(o)
      /\ \E l : past' = [past EXCEPT !.born = IF c \in Logins /\ c > @ THEN c ELSE @, !.local[b] = l]
                /\ l \in {past.local[b], c, Nothing}
  <2>1. c \in Logins => c = past.born + 1 \/ c = h.disk
    BY Fresh DEF Write
  <2>2. \E o \in {"login", "remove", "spoil", "touch"} : Spend(o)
    BY DEF Write
  <2>3. home' = [home EXCEPT ![b] = k]
    BY <1>1 DEF Write
  <2>4. pass' = [pass EXCEPT ![b] = ps]
    BY <1>1 DEF Write
  <2> QED
    BY <2>1, <2>2, <2>3, <2>4 DEF Write
<1>4. /\ k \in SetType /\ k.generation = h.generation /\ k.version = h.version /\ k.dir = h.dir
      /\ k.cleanup = h.cleanup /\ k.digest = h.digest /\ k.phase = h.phase /\ k.disk = c
      /\ k.retry = h.retry /\ k.tombstone = h.tombstone
  BY <1>1 DEF SetType
<1> HIDE DEF h, k, ps
<1>5. /\ past' \in PastType /\ past'.out = past.out /\ past'.gone = past.gone /\ past'.barred = past.barred
      /\ past'.slip = past.slip /\ past'.born >= past.born
  <2>1. PICK l : /\ past' = [past EXCEPT !.born = IF c \in Logins /\ c > @ THEN c ELSE @, !.local[b] = l]
                 /\ l \in {past.local[b], c, Nothing}
    BY <1>3
  <2>2. past.local \in [Boxes -> Contents]
    BY <1>1 DEF PastType
  <2>3. l \in Contents
    BY <2>1, <2>2, Fresh
  <2>4. PICK f \in [Boxes -> Contents] : f = [past.local EXCEPT ![b] = l]
    BY <2>2, <2>3
  <2>5. PICK n \in Nat : n = (IF c \in Logins /\ c > past.born THEN c ELSE past.born) /\ n >= past.born
    <3>1. CASE c \in Logins /\ c > past.born
      <4>1. c \in Nat
        BY <3>1, Fresh
      <4>2. c >= past.born
        BY <1>2, <3>1, <4>1
      <4> QED
        BY <3>1, <4>1, <4>2
    <3>2. CASE ~(c \in Logins /\ c > past.born)
      <4>1. past.born >= past.born
        BY <1>2
      <4> QED
        BY <1>2, <3>2, <4>1
    <3> QED
      BY <3>1, <3>2
  <2>6. past' = [past EXCEPT !.born = n, !.local = f]
    BY <1>1, <2>1, <2>4, <2>5 DEF PastType
  <2> QED
    BY <1>1, <2>5, <2>6 DEF PastType
<1>6. user' \in UserType /\ user'.member = user.member /\ user'.version = user.version
  <2>1. PICK o \in {"login", "remove", "spoil", "touch"} : Spend(o)
    BY <1>3
  <2> QED
    BY <1>1, <2>1, SpentFields DEF Spend, Spendings
<1>7. Onward(row, past, row', past')
  BY <1>1, <1>2, <1>3, <1>5 DEF Onward
<1>8. RowFine(L, row', past', user')
  <2>1. past'.born \in Nat
    BY <1>5 DEF PastType
  <2> QED
    BY <1>1, <1>2, <1>3, <1>5, <1>6, <2>1 DEF RowFine
<1>9. \/ k.disk = h.disk
      \/ After(k.disk, past.out) /\ After(k.disk, past.gone[b]) /\ After(k.disk, past.barred[b])
  BY <1>1, <1>2, <1>3, <1>4 DEF After, GoneFine, RowFine
<1>10. BoxFine(L, row', past', user'.member, k, ps, b)
  <2>1. BoxFine(L, row, past', user.member, k, ps, b)
    <3>1. Onward(row, past, row, past')
      BY <1>3, <1>7
    <3>2. k.phase # "off" /\ past'.gone[b] = past.gone[b] /\ past'.barred[b] = past.barred[b]
      BY <1>3, <1>4, <1>5
    <3> QED
      BY <1>1, <1>4, <1>9, <3>1, <3>2, DiskMoves
  <2> QED
    BY <1>3, <1>6, <2>1
<1>11. orphans' \subseteq CallType /\ \A p \in orphans' : Putting(p) /\ PutFine(L, row', past', p)
  BY <1>3, <1>5, SameOut DEF Types, Custody
<1>12. ASSUME NEW m \in revokes' PROVE RevokeFine(row', past', m)
  <2>1. RevokeFine(row, past, m) /\ m.born \in Nat /\ past'.born \in Nat
    BY <1>3, <1>5, <1>12 DEF Custody, Types, RevokeType, PastType
  <2> QED
    BY <1>2, <1>3, <1>5, <2>1 DEF RevokeFine
<1>13. revokes' \subseteq RevokeType
  BY <1>3 DEF Types
<1> QED
  BY <1>1, <1>3, <1>4, <1>5, <1>6, <1>7, <1>8, <1>10, <1>11, <1>12, <1>13, OneBox


\* A process ends; what it was told to forget and had not is forgotten.
LEMMA GoneStep ==
  ASSUME NEW L \in Nat, Types, Custody(L), NEW b \in Boxes, NEW h \in SetType, Gone(b, h), row' = row,
         user' \in UserType, user'.member = user.member, user'.version = user.version,
         HomeFine(L, row, past, h),
         (~past.slip /\ ~h.cleanup) => After(h.disk, past.gone[b]) /\ After(h.disk, past.barred[b])
  PROVE  Types' /\ Custody(L)'
<1> DEFINE k == [h EXCEPT !.phase = "off"]
           qs == [w \in Workers |-> Idle]
<1>1. /\ row \in RowType /\ past \in PastType /\ RowFine(L, row, past, user)
      /\ GoneFine(past, user.member, home[b], pass[b], b) /\ past.gone[b] \in Nat /\ past.barred[b] \in Nat
      /\ past.out \in Nat
  BY BoxFacts
<1>2. row.version \in Nat /\ past.born \in Nat
  BY <1>1 DEF RowType, PastType
<1>3. /\ k \in SetType /\ k.generation = h.generation /\ k.version = h.version /\ k.dir = h.dir
      /\ k.cleanup = h.cleanup /\ k.digest = h.digest /\ k.disk = h.disk
      /\ k.retry = h.retry /\ k.tombstone = h.tombstone
  BY DEF SetType
<1>4. /\ home' = [home EXCEPT ![b] = k] /\ pass' = [pass EXCEPT ![b] = qs]
      /\ \A o \in orphans' : o \in orphans \/ \E w \in Workers : o = pass[b][w] /\ Putting(o)
      /\ revokes' \subseteq revokes
      /\ past' = IF h.cleanup THEN [past EXCEPT !.gone[b] = 0, !.barred[b] = 0] ELSE past
  BY DEF Gone
<1>5. qs \in [Workers -> CallType] /\ \A w \in Workers : qs[w] = Idle
  BY Fresh
<1> HIDE DEF k, qs
<1>6. /\ past' \in PastType /\ past'.born = past.born /\ past'.out = past.out /\ past'.slip = past.slip
      /\ \A c \in Boxes \ {b} : past'.gone[c] = past.gone[c] /\ past'.barred[c] = past.barred[c]
      /\ IF h.cleanup THEN past'.gone[b] = 0 /\ past'.barred[b] = 0
                      ELSE past'.gone[b] = past.gone[b] /\ past'.barred[b] = past.barred[b]
  <2>1. CASE h.cleanup
    <3>1. past.gone \in [Boxes -> Nat] /\ past.barred \in [Boxes -> Nat]
      BY <1>1 DEF PastType
    <3>2. PICK f \in [Boxes -> Nat] : f = [past.gone EXCEPT ![b] = 0]
      BY <3>1
    <3>3. PICK g \in [Boxes -> Nat] : g = [past.barred EXCEPT ![b] = 0]
      BY <3>1
    <3>4. past' = [past EXCEPT !.gone = f, !.barred = g]
      BY <1>1, <1>4, <2>1, <3>2, <3>3 DEF PastType
    <3>5. /\ past' \in PastType /\ past'.born = past.born /\ past'.out = past.out /\ past'.slip = past.slip
          /\ past'.gone = f /\ past'.barred = g
      BY <1>1, <3>4 DEF PastType
    <3> QED
      BY <2>1, <3>1, <3>2, <3>3, <3>5
  <2>2. CASE ~h.cleanup
    <3>1. past' = past
      BY <1>4, <2>2
    <3> QED
      BY <1>1, <2>2, <3>1
  <2> QED
    BY <2>1, <2>2
<1>7. Onward(row, past, row', past')
  BY <1>1, <1>2, <1>6 DEF Onward
<1>8. RowFine(L, row', past', user')
  BY <1>1, <1>6 DEF RowFine
<1>9. HomeFine(L, row', past', k)
  BY <1>3, <1>6 DEF HomeFine
<1>10. GoneFine(past', user'.member, k, qs, b)
  <2>1. past'.gone[b] <= past'.out /\ past'.barred[b] <= past'.born /\ (past'.barred[b] # 0 => ~user'.member)
    BY <1>1, <1>2, <1>6 DEF GoneFine
  <2>2. (~past'.slip /\ ~k.cleanup) => After(k.disk, past'.gone[b]) /\ After(k.disk, past'.barred[b])
    BY <1>3, <1>6
  <2>3. k.cleanup => past'.gone[b] = 0 /\ past'.barred[b] = 0
    BY <1>3, <1>6
  <2> QED
    BY <1>5, <2>1, <2>2, <2>3 DEF GoneFine
<1>11. BoxFine(L, row', past', user'.member, k, qs, b)
  <2>1. ASSUME NEW w \in Workers PROVE WorkFine(L, row', past', k, qs[w], b)
    BY <1>3, <1>5, IdleFine
  <2>2. ASSUME NEW v \in Workers, NEW w \in Workers PROVE PairFine(L, k, qs[v], qs[w])
    BY <1>3, <1>5, IdleFine
  <2> QED
    BY <1>9, <1>10, <2>1, <2>2 DEF BoxFine
<1>12. ASSUME NEW o \in orphans' PROVE o \in CallType /\ Putting(o) /\ PutFine(L, row', past', o)
  <2>1. o \in CallType /\ Putting(o) /\ PutFine(L, row, past, o)
    <3>1. CASE o \in orphans
      BY <3>1 DEF Types, Custody
    <3>2. ASSUME NEW w \in Workers, o = pass[b][w], Putting(o) PROVE o \in CallType /\ PutFine(L, row, past, o)
      BY <3>2, BoxFacts DEF WorkFine
    <3> QED
      BY <1>4, <1>12, <3>1, <3>2
  <2> QED
    BY <1>6, <2>1, SameOut
<1>13. revokes' \subseteq RevokeType /\ \A m \in revokes' : RevokeFine(row', past', m)
  BY <1>4, <1>6 DEF Types, Custody, RevokeFine
<1> QED
  BY <1>3, <1>4, <1>5, <1>6, <1>7, <1>8, <1>11, <1>12, <1>13, OneBox

\* A process ends of itself or is killed.
LEMMA StopStep ==
  ASSUME NEW L \in Nat, Types, Custody(L), NEW b \in Boxes, Stop(b)
  PROVE  Types' /\ Custody(L)'
<1>1. user' \in UserType /\ user'.member = user.member /\ user'.version = user.version
  BY SpentFields DEF Stop, Types, Spend, Spendings
<1>2. /\ home[b] \in SetType /\ HomeFine(L, row, past, home[b])
      /\ (~past.slip /\ ~home[b].cleanup) => After(home[b].disk, past.gone[b]) /\ After(home[b].disk, past.barred[b])
  BY BoxFacts DEF GoneFine
<1>3. Gone(b, home[b]) /\ row' = row
  BY DEF Stop
<1> QED
  BY <1>1, <1>2, <1>3, GoneStep

\* The look at the set when the process closes: a cleanup, nothing, or a
\* last put that is due.
LEMMA CloseSetStep ==
  ASSUME NEW L \in Nat, Types, Custody(L), NEW b \in Boxes, CloseSet(b)
  PROVE  Types' /\ Custody(L)'
<1> DEFINE h == home[b]
           p == pass[b]["side"]
           q == [p EXCEPT !.at = "due"]
           k == [h EXCEPT !.phase = "last", !.dirty = TRUE, !.retry = FALSE]
<1>1. /\ h \in SetType /\ HomeFine(L, row, past, h) /\ "side" \in Workers
      /\ p \in CallType /\ WorkFine(L, row, past, h, p, b) /\ pass \in [Boxes -> [Workers -> CallType]]
      /\ home \in [Boxes -> SetType] /\ GoneFine(past, user.member, h, pass[b], b)
  BY BoxFacts DEF Workers, Types
<1>2. user' \in UserType /\ user'.member = user.member /\ user'.version = user.version
  BY SpentFields DEF CloseSet, Types, Spend, Spendings
<1>3. /\ row' = row
      /\ \/ Gone(b, CleanedUp(h))
         \/ Gone(b, h)
         \/ /\ h.retry => ~h.tombstone
            /\ home' = [home EXCEPT ![b] = k] /\ pass' = [pass EXCEPT ![b]["side"] = q]
            /\ UNCHANGED <<orphans, revokes, past>>
  <2>1. CASE h.cleanup
    BY <2>1 DEF CloseSet
  <2>2. CASE ~h.cleanup /\ h.retry /\ (h.tombstone \/ ~Readable(h) \/ ~Complete(Read(h)))
    BY <2>2 DEF CloseSet
  <2>3. CASE ~h.cleanup /\ ~(h.retry /\ (h.tombstone \/ ~Readable(h) \/ ~Complete(Read(h))))
    <3>1. /\ home' = [home EXCEPT ![b].phase = "last", ![b].dirty = TRUE, ![b].retry = FALSE]
          /\ pass' = [pass EXCEPT ![b].side.at = "due"]
          /\ UNCHANGED <<orphans, revokes, past>> /\ row' = row
      BY <2>3 DEF CloseSet
    <3>2. home' = [home EXCEPT ![b] = k] /\ pass' = [pass EXCEPT ![b]["side"] = q]
      BY <1>1, <3>1
    <3> QED
      BY <2>3, <3>1, <3>2
  <2> QED
    BY <2>1, <2>2, <2>3
<1>4. /\ k \in SetType /\ k.generation = h.generation /\ k.version = h.version /\ k.dir = h.dir
      /\ k.cleanup = h.cleanup /\ k.digest = h.digest /\ k.disk = h.disk /\ k.phase = "last"
  BY <1>1 DEF SetType
<1>5. q \in CallType /\ q.at = "due" /\ q.generation = p.generation
  BY <1>1 DEF CallType
<1> HIDE DEF h, p, q, k
<1>6. CASE Gone(b, CleanedUp(h))
  <2>1. /\ CleanedUp(h) \in SetType /\ CleanedUp(h).disk = Nothing /\ CleanedUp(h).version = h.version
    BY <1>1, CleanedUpFields
  <2>2. HomeFine(L, row, past, CleanedUp(h))
    BY <1>1, <2>1, Fresh DEF HomeFine, After
  <2>3. After(CleanedUp(h).disk, past.gone[b]) /\ After(CleanedUp(h).disk, past.barred[b])
    BY <2>1, Fresh DEF After
  <2> QED
    BY <1>2, <1>3, <1>6, <2>1, <2>2, <2>3, GoneStep
<1>7. CASE Gone(b, h)
  <2>1. (~past.slip /\ ~h.cleanup) => After(h.disk, past.gone[b]) /\ After(h.disk, past.barred[b])
    BY <1>1 DEF GoneFine
  <2> QED
    BY <1>1, <1>2, <1>3, <1>7, <2>1, GoneStep
<1>8. CASE /\ h.retry => ~h.tombstone
           /\ home' = [home EXCEPT ![b] = k] /\ pass' = [pass EXCEPT ![b]["side"] = q]
           /\ UNCHANGED <<orphans, revokes, past>>
  <2>1. Quiet
    BY <1>2, <1>3, <1>8 DEF Quiet, Types
  <2>2. HomeFine(L, row, past', k)
    BY <1>1, <1>4, <1>8 DEF HomeFine
  <2>3. WorkFine(L, row, past', k, q, b)
    BY <1>1, <1>4, <1>5, <1>8 DEF WorkFine, Putting, Reaches
  <2>4. \A v \in Workers \ {"side"} : PairFine(L, k, q, pass[b][v]) /\ PairFine(L, k, pass[b][v], q)
    BY <1>5 DEF PairFine, Putting, Reaches
  <2> QED
    BY <1>1, <1>4, <1>5, <1>8, <2>1, <2>2, <2>3, <2>4, CallStep DEF h
<1> QED
  BY <1>3, <1>6, <1>7, <1>8


\* A process stops ticking, is frozen, or goes on: its set is what it was.
LEMMA PhaseStep ==
  ASSUME NEW L \in Nat, Types, Custody(L), NEW b \in Boxes, Close(b) \/ Freeze(b) \/ Thaw(b)
  PROVE  Types' /\ Custody(L)'
<1>1. /\ home[b] \in SetType /\ HomeFine(L, row, past, home[b]) /\ pass[b] \in [Workers -> CallType]
      /\ \A w \in Workers : pass[b][w] \in CallType /\ WorkFine(L, row, past, home[b], pass[b][w], b)
      /\ \A v, w \in Workers : v # w => PairFine(L, home[b], pass[b][v], pass[b][w])
      /\ home \in [Boxes -> SetType] /\ pass \in [Boxes -> [Workers -> CallType]] /\ user \in UserType
      /\ BoxFine(L, row, past, user.member, home[b], pass[b], b) /\ past \in PastType
  BY BoxFacts DEF Types, Custody
<1>2. PICK ph \in {"closing", "frozen", "running"} : home' = [home EXCEPT ![b].phase = ph]
  BY DEF Close, Freeze, Thaw
<1>3. PICK k : k = [home[b] EXCEPT !.phase = ph]
  OBVIOUS
<1>4. /\ k \in SetType /\ k.generation = home[b].generation /\ k.version = home[b].version /\ k.dir = home[b].dir
      /\ k.cleanup = home[b].cleanup /\ k.digest = home[b].digest /\ k.disk = home[b].disk
      /\ k.retry = home[b].retry /\ k.tombstone = home[b].tombstone /\ k.phase # "off"
  BY <1>1, <1>3 DEF SetType
<1>5. home' = [home EXCEPT ![b] = k] /\ pass' = [pass EXCEPT ![b] = pass[b]]
  BY <1>1, <1>2, <1>3 DEF Close, Freeze, Thaw
<1>6. Quiet /\ orphans' = orphans /\ past' = past
  <2>1. CASE Close(b)
    BY <2>1, SpendQuiet DEF Close, Spendings
  <2>2. CASE Freeze(b)
    <3>1. Spend("freeze") /\ revokes' \subseteq revokes /\ UNCHANGED <<row, orphans, past>>
      BY <2>2 DEF Freeze
    <3>2. user' \in UserType /\ user'.member = user.member /\ user'.version = user.version
      BY <1>1, <3>1, SpentFields DEF Spend, Spendings
    <3> QED
      BY <1>1, <3>1, <3>2 DEF Quiet
  <2>3. CASE Thaw(b)
    BY <2>3, StayQuiet DEF Thaw
  <2> QED
    BY <2>1, <2>2, <2>3
<1>7. /\ Onward(row, past, row', past') /\ RowFine(L, row', past', user')
      /\ \A p \in orphans : Putting(p) /\ PutFine(L, row', past', p)
      /\ \A m \in revokes' : RevokeFine(row', past', m)
      /\ user' \in UserType /\ revokes' \subseteq RevokeType
  BY <1>6, QuietFine
<1>8. user'.member = user.member /\ row' = row /\ orphans' \subseteq CallType
  BY <1>6 DEF Quiet, Types
<1>9. BoxFine(L, row', past', user'.member, k, pass[b], b)
  <2>1. Onward(row, past, row, past') /\ past'.gone[b] = past.gone[b] /\ past'.barred[b] = past.barred[b]
    BY <1>6, <1>7, <1>8
  <2>2. BoxFine(L, row, past', user.member, k, pass[b], b)
    BY <1>1, <1>4, <2>1, DiskMoves
  <2> QED
    BY <1>8, <2>2
<1>10. \A c \in Boxes \ {b} : past'.gone[c] = past.gone[c] /\ past'.barred[c] = past.barred[c]
  BY <1>6
<1> QED
  BY <1>1, <1>4, <1>5, <1>6, <1>7, <1>8, <1>9, <1>10, OneBox

\* A new process, on the volume the last one left or on a fresh one.
LEMMA StartStep ==
  ASSUME NEW L \in Nat, Types, Custody(L), NEW b \in Boxes, NEW d \in Contents, Start(b, d)
  PROVE  Types' /\ Custody(L)'
<1> DEFINE h == home[b]
           k == FreshSet(d)
<1>1. /\ h \in SetType /\ GoneFine(past, user.member, h, pass[b], b) /\ pass[b] \in [Workers -> CallType]
      /\ home \in [Boxes -> SetType] /\ pass \in [Boxes -> [Workers -> CallType]] /\ user \in UserType
      /\ past \in PastType /\ row \in RowType /\ RowFine(L, row, past, user)
  BY BoxFacts DEF Types
<1>2. /\ row.version \in Nat /\ past.born \in Nat /\ past.out \in Nat /\ past.gone[b] \in Nat /\ past.barred[b] \in Nat
      /\ row.lastRevoked \in Nat
  BY <1>1 DEF RowType, PastType
<1>3. /\ h.phase = "off" /\ d \in {h.disk, Nothing} /\ Spend("start")
      /\ home' = [home EXCEPT ![b] = k] /\ pass' = [pass EXCEPT ![b] = pass[b]]
      /\ past' = [past EXCEPT !.local[b] = Nothing, !.met[b] = FALSE]
      /\ UNCHANGED <<row, orphans, revokes>>
  BY <1>1 DEF Start
<1>4. /\ k \in SetType /\ k.generation = 0 /\ k.version = 0 /\ k.disk = d /\ k.cleanup = FALSE /\ k.phase = "boot"
  BY Fresh DEF FreshSet
<1> HIDE DEF h, k
<1>5. /\ past' \in PastType /\ past'.born = past.born /\ past'.out = past.out /\ past'.slip = past.slip
      /\ past'.gone = past.gone /\ past'.barred = past.barred
  <2>1. past.local \in [Boxes -> Contents] /\ past.met \in [Boxes -> BOOLEAN]
    BY <1>1 DEF PastType
  <2>2. PICK f \in [Boxes -> Contents] : f = [past.local EXCEPT ![b] = Nothing]
    BY <2>1, Fresh
  <2>3. PICK g \in [Boxes -> BOOLEAN] : g = [past.met EXCEPT ![b] = FALSE]
    BY <2>1
  <2>4. past' = [past EXCEPT !.local = f, !.met = g]
    BY <1>1, <1>3, <2>2, <2>3 DEF PastType
  <2> QED
    BY <1>1, <2>4 DEF PastType
<1>6. Quiet
  <2>1. user' \in UserType /\ user'.member = user.member /\ user'.version = user.version
    BY <1>1, <1>3, SpentFields DEF Spend, Spendings
  <2> QED
    BY <1>3, <1>5, <2>1 DEF Quiet
<1>7. /\ Onward(row, past, row', past') /\ RowFine(L, row', past', user')
      /\ \A p \in orphans : Putting(p) /\ PutFine(L, row', past', p)
      /\ \A m \in revokes' : RevokeFine(row', past', m)
      /\ user' \in UserType /\ revokes' \subseteq RevokeType /\ user'.member = user.member
  BY <1>6, QuietFine DEF Quiet
<1>8. After(d, 0)
  BY Fresh DEF After
<1>9. HomeFine(L, row', past', k)
  <2>1. L = 0 => past.out = 0
    BY <1>1 DEF RowFine
  <2>2. 0 >= L => After(d, past.out)
    BY <1>2, <1>8, <2>1
  <2> QED
    BY <1>2, <1>3, <1>4, <1>5, <2>2 DEF HomeFine
<1>10. \A w \in Workers : pass[b][w] = Idle
  BY <1>1, <1>3 DEF GoneFine
<1>11. GoneFine(past', user'.member, k, pass[b], b)
  <2>1. ~past.slip => After(d, past.gone[b]) /\ After(d, past.barred[b])
    <3>1. CASE d = Nothing
      BY <3>1, Fresh DEF After
    <3>2. CASE d = h.disk /\ h.cleanup
      BY <1>1, <1>3, <1>8, <3>2 DEF GoneFine
    <3>3. CASE d = h.disk /\ ~h.cleanup
      BY <1>1, <3>3 DEF GoneFine
    <3> QED
      BY <1>3, <3>1, <3>2, <3>3
  <2> QED
    BY <1>1, <1>4, <1>5, <1>7, <2>1 DEF GoneFine
<1>12. BoxFine(L, row', past', user'.member, k, pass[b], b)
  BY <1>4, <1>9, <1>10, <1>11, IdleFine DEF BoxFine
<1>13. orphans' = orphans /\ orphans' \subseteq CallType
  BY <1>3 DEF Types
<1>14. \A c \in Boxes \ {b} : past'.gone[c] = past.gone[c] /\ past'.barred[c] = past.barred[c]
  BY <1>5
<1> QED
  BY <1>1, <1>3, <1>4, <1>7, <1>12, <1>13, <1>14, OneBox

\* A revoke reaches a sandbox: it is behind one already handled, or every
\* call that is out belongs to a generation that is over.
LEMMA HandleRevokeStep ==
  ASSUME NEW L \in Nat, Types, Custody(L), NEW m \in revokes, NEW fails \in BOOLEAN, HandleRevoke(m, fails)
  PROVE  Types' /\ Custody(L)'
<1> DEFINE b == m.box
           h == home[b]
           v == IF m.version > 0 THEN m.version ELSE h.version
           fenced == [h EXCEPT !.generation = @ + 1, !.version = IF m.version > 0 THEN m.version ELSE @, !.digest = Nothing,
                               !.dirty = FALSE, !.retry = FALSE, !.tombstone = FALSE, !.cleanup = TRUE]
           k == IF fails THEN fenced ELSE CleanedUp(fenced)
<1>0. m \in RevokeType /\ RevokeFine(row, past, m)
  BY DEF Types, Custody
<1>1. b \in Boxes /\ m.version \in Nat /\ m.born \in Nat
  BY <1>0 DEF RevokeType
<1>2. /\ h \in SetType /\ HomeFine(L, row, past, h) /\ GoneFine(past, user.member, h, pass[b], b)
      /\ pass[b] \in [Workers -> CallType] /\ past \in PastType /\ row \in RowType /\ user \in UserType
      /\ \A w \in Workers : pass[b][w] \in CallType /\ WorkFine(L, row, past, h, pass[b][w], b)
      /\ past.gone[b] \in Nat /\ past.barred[b] \in Nat /\ RowFine(L, row, past, user) /\ past.out \in Nat
      /\ home \in [Boxes -> SetType] /\ pass \in [Boxes -> [Workers -> CallType]]
  BY <1>1, BoxFacts DEF Types
<1>3. h.version \in Nat /\ h.generation \in Nat /\ row.version \in Nat /\ past.born \in Nat
  BY <1>2 DEF SetType, RowType, PastType
<1>4. CASE UNCHANGED <<home, user, past>>
  <2>1. /\ UNCHANGED <<row, pass, orphans, home>> /\ revokes' \subseteq revokes
    BY <1>4 DEF HandleRevoke
  <2>2. Quiet
    BY <1>2, <1>4, <2>1 DEF Quiet
  <2> QED
    BY <2>1, <2>2, QuietStep
<1>5. CASE /\ home' = [home EXCEPT ![b] = k]
           /\ IF fails THEN Spend("file") ELSE UNCHANGED user
           /\ past' = IF m.version > 0 THEN [past EXCEPT !.gone[b] = IF m.born > @ THEN m.born ELSE @]
                      ELSE IF user.member THEN past
                      ELSE [past EXCEPT !.barred[b] = m.born]
           /\ h.phase # "off"
  <2>1. UNCHANGED <<row, pass, orphans>> /\ revokes' \subseteq revokes
    BY DEF HandleRevoke
  <2>2. user' \in UserType /\ user'.member = user.member /\ user'.version = user.version
    BY <1>2, <1>5, SpentFields DEF Spend, Spendings
  <2>3. /\ fenced \in SetType /\ fenced.generation = h.generation + 1 /\ fenced.version = v /\ fenced.cleanup = TRUE
        /\ fenced.dir = h.dir /\ fenced.phase = h.phase
    <3>1. PICK g \in Nat : g = h.generation + 1
      BY <1>3
    <3>2. v \in Nat
      BY <1>1, <1>3
    <3>3. fenced = [h EXCEPT !.generation = g, !.version = v, !.digest = Nothing,
                             !.dirty = FALSE, !.retry = FALSE, !.tombstone = FALSE, !.cleanup = TRUE]
      BY <1>2, <3>1 DEF SetType
    <3> HIDE DEF v, fenced
    <3> QED
      BY <1>2, <3>1, <3>2, <3>3, Fresh DEF SetType
  <2>4. v <= row.version
    BY <1>0, <1>2 DEF RevokeFine, HomeFine
  <2> HIDE DEF v, fenced
  <2>5. /\ k \in SetType /\ k.generation = h.generation + 1 /\ k.version = v /\ k.phase = h.phase
        /\ h.dir => k.dir
        /\ k.cleanup = TRUE \/ k.disk = Nothing
    <3>1. CASE fails
      BY <2>3, <3>1
    <3>2. CASE ~fails
      <4>1. /\ CleanedUp(fenced) \in SetType /\ CleanedUp(fenced).phase = fenced.phase
            /\ CleanedUp(fenced).generation = fenced.generation
            /\ CleanedUp(fenced).disk = Nothing /\ CleanedUp(fenced).version = fenced.version /\ CleanedUp(fenced).dir
        BY <2>3, CleanedUpFields
      <4> QED
        BY <2>3, <3>2, <4>1
    <3> QED
      BY <3>1, <3>2
  <2> HIDE DEF k, h
  <2>6. /\ past' \in PastType /\ past'.born = past.born /\ past'.out = past.out /\ past'.slip = past.slip
        /\ \A c \in Boxes \ {b} : past'.gone[c] = past.gone[c] /\ past'.barred[c] = past.barred[c]
        /\ past'.gone[b] \in {past.gone[b]} \cup (IF m.version > 0 THEN {m.born} ELSE {})
        /\ past'.barred[b] \in {past.barred[b]} \cup (IF user.member THEN {} ELSE {m.born})
    <3>1. CASE m.version > 0
      <4>1. PICK n \in {m.born, past.gone[b]} : n = (IF m.born > past.gone[b] THEN m.born ELSE past.gone[b])
        OBVIOUS
      <4>2. past.gone \in [Boxes -> Nat] /\ n \in Nat
        BY <1>1, <1>2, <4>1 DEF PastType
      <4>3. PICK f \in [Boxes -> Nat] : f = [past.gone EXCEPT ![b] = n]
        BY <4>2
      <4>4. past' = [past EXCEPT !.gone = f]
        BY <1>2, <1>5, <3>1, <4>1, <4>3 DEF PastType
      <4>5. /\ past' \in PastType /\ past'.born = past.born /\ past'.out = past.out /\ past'.slip = past.slip
            /\ past'.gone = f /\ past'.barred = past.barred
        BY <1>2, <4>4 DEF PastType
      <4> QED
        BY <1>1, <3>1, <4>1, <4>2, <4>3, <4>5
    <3>2. CASE ~(m.version > 0) /\ user.member
      <4>1. past' = past
        BY <1>5, <3>2
      <4> QED
        BY <1>2, <4>1
    <3>3. CASE ~(m.version > 0) /\ ~user.member
      <4>1. past.barred \in [Boxes -> Nat]
        BY <1>2 DEF PastType
      <4>2. PICK f \in [Boxes -> Nat] : f = [past.barred EXCEPT ![b] = m.born]
        BY <1>1, <4>1
      <4>3. past' = [past EXCEPT !.barred = f]
        BY <1>2, <1>5, <3>3, <4>2 DEF PastType
      <4>4. /\ past' \in PastType /\ past'.born = past.born /\ past'.out = past.out /\ past'.slip = past.slip
            /\ past'.gone = past.gone /\ past'.barred = f
        BY <1>2, <4>3 DEF PastType
      <4> QED
        BY <1>1, <3>3, <4>1, <4>2, <4>4
    <3> QED
      BY <3>1, <3>2, <3>3
  <2>7. k.disk = Nothing => \A n : After(k.disk, n)
    BY Fresh DEF After
  <2>8. HomeFine(L, row', past', k)
    BY <2>1, <2>4, <2>5, <2>7 DEF HomeFine
  <2>9. ASSUME NEW w \in Workers PROVE WorkFine(L, row', past', k, pass[b][w], b) /\ pass[b][w].generation # k.generation
    <3>1. /\ pass[b][w].generation \in Nat /\ pass[b][w].generation <= h.generation
      BY <1>2 DEF CallType, WorkFine
    <3>2. pass[b][w].generation <= k.generation /\ pass[b][w].generation # k.generation
      BY <1>3, <2>5, <3>1
    <3>3. Putting(pass[b][w]) => PutFine(L, row', past', pass[b][w])
      BY <1>2, <2>1, <2>6, SameOut DEF WorkFine
    <3> QED
      BY <1>2, <2>1, <2>5, <2>6, <3>2, <3>3 DEF WorkFine
  <2>10. \A u, w \in Workers : u # w => PairFine(L, k, pass[b][u], pass[b][w])
    BY <2>9 DEF PairFine
  <2>11. GoneFine(past', user'.member, k, pass[b], b)
    <3>1. past'.gone[b] <= past'.out
      BY <1>0, <1>2, <2>6 DEF GoneFine, RevokeFine
    <3>2. past'.barred[b] <= past'.born
      BY <1>0, <1>2, <2>6 DEF GoneFine, RevokeFine
    <3>3. past'.barred[b] # 0 => ~user'.member
      BY <1>2, <2>2, <2>6 DEF GoneFine
    <3> QED
      BY <1>5, <2>5, <2>7, <3>1, <3>2, <3>3 DEF GoneFine
  <2>12. BoxFine(L, row', past', user'.member, k, pass[b], b)
    BY <2>8, <2>9, <2>10, <2>11 DEF BoxFine
  <2>13. Onward(row, past, row', past')
    BY <1>2, <1>3, <2>1, <2>6 DEF Onward
  <2>14. RowFine(L, row', past', user')
    BY <1>2, <2>1, <2>2, <2>6 DEF RowFine
  <2>15. orphans' \subseteq CallType /\ \A p \in orphans' : Putting(p) /\ PutFine(L, row', past', p)
    BY <2>1, <2>6, SameOut DEF Types, Custody
  <2>16. revokes' \subseteq RevokeType /\ \A n \in revokes' : RevokeFine(row', past', n)
    BY <2>1, <2>6 DEF Types, Custody, RevokeFine
  <2>17. home' = [home EXCEPT ![b] = k] /\ pass' = [pass EXCEPT ![b] = pass[b]]
    BY <1>2, <1>5, <2>1
  <2> HIDE DEF b
  <2> QED
    BY <1>1, <1>2, <2>2, <2>5, <2>6, <2>12, <2>13, <2>14, <2>15, <2>16, <2>17, OneBox
<1>6. \/ UNCHANGED <<home, user, past>>
      \/ /\ home' = [home EXCEPT ![b] = k]
         /\ IF fails THEN Spend("file") ELSE UNCHANGED user
         /\ past' = IF m.version > 0 THEN [past EXCEPT !.gone[b] = IF m.born > @ THEN m.born ELSE @]
                    ELSE IF user.member THEN past
                    ELSE [past EXCEPT !.barred[b] = m.born]
         /\ h.phase # "off"
  BY DEF HandleRevoke, Up
<1> QED
  BY <1>4, <1>5, <1>6


--------------------
\* The invariant holds, and what follows from it.

\* A behaviour starts before any logout.
LEMMA CustodyInit == Init => IInv
<1> SUFFICES ASSUME Init PROVE Types /\ Custody(0)
  BY DEF IInv
<1>1. /\ setup.row \in RowType /\ (setup.row.revoked => setup.row.files = Nothing)
      /\ setup.row.lastRevoked <= setup.row.version /\ setup.disk \in Contents /\ setup.born \in Nat
      /\ setup.left \in [Spendings -> Nat]
  BY CustodyAssumption DEF Init, CustodyAssumption
<1>2. /\ row = setup.row /\ orphans = {} /\ revokes = {}
      /\ user = [member |-> TRUE, sweep |-> "none", version |-> 0, left |-> setup.left]
      /\ past = [born |-> setup.born, out |-> 0, saved |-> {}, gone |-> [b \in Boxes |-> 0], barred |-> [b \in Boxes |-> 0],
                 local |-> [b \in Boxes |-> Nothing], met |-> [b \in Boxes |-> FALSE], slip |-> FALSE]
  BY DEF Init
<1>3. /\ row.version \in Nat /\ row.lastRevoked \in Nat
  BY <1>1, <1>2 DEF RowType
<1>4. user \in UserType /\ past \in PastType
  BY <1>1, <1>2, Fresh DEF UserType, PastType
<1>5. ASSUME NEW b \in Boxes
      PROVE  /\ home[b] \in SetType /\ home[b].version = 0 /\ home[b].generation = 0
             /\ pass[b] = [w \in Workers |-> Idle]
  <2>1. FreshSet(setup.disk) \in SetType /\ FreshSet(setup.disk).version = 0 /\ FreshSet(setup.disk).generation = 0
    BY <1>1, Fresh DEF FreshSet
  <2>2. home[b] = [FreshSet(setup.disk) EXCEPT !.phase = IF b \in setup.boxes THEN "boot" ELSE "off"]
    BY DEF Init
  <2>3. home[b] \in SetType /\ home[b].version = 0 /\ home[b].generation = 0
    BY <2>1, <2>2 DEF SetType
  <2> QED
    BY <2>3 DEF Init
<1>6. home \in [Boxes -> SetType] /\ pass \in [Boxes -> [Workers -> CallType]]
  <2>1. DOMAIN home = Boxes /\ home = [b \in Boxes |-> home[b]]
    BY DEF Init
  <2>2. [w \in Workers |-> Idle] \in [Workers -> CallType]
    BY Fresh
  <2>3. pass = [b \in Boxes |-> [w \in Workers |-> Idle]]
    BY DEF Init
  <2> QED
    BY <1>5, <2>1, <2>2, <2>3
<1>7. Types
  BY <1>1, <1>2, <1>4, <1>6 DEF Types
<1>8. \A c : After(c, 0)
  BY Fresh DEF After
<1>9. RowFine(0, row, past, user)
  BY <1>1, <1>2, <1>3, <1>8 DEF RowFine
<1>10. ASSUME NEW b \in Boxes PROVE BoxFine(0, row, past, user.member, home[b], pass[b], b)
  <2>1. HomeFine(0, row, past, home[b])
    BY <1>2, <1>3, <1>5, <1>8 DEF HomeFine
  <2>2. \A w \in Workers : pass[b][w] = Idle
    BY <1>5
  <2>3. GoneFine(past, user.member, home[b], pass[b], b)
    BY <1>1, <1>2, <1>8, <2>2 DEF GoneFine
  <2> QED
    BY <1>5, <2>1, <2>2, <2>3, IdleFine DEF BoxFine
<1> QED
  BY <1>2, <1>7, <1>9, <1>10 DEF Custody

\* Whatever happens next.
LEMMA CustodyNext == IInv /\ [Next]_vars => IInv'
<1> SUFFICES ASSUME Types, NEW L \in Nat, Custody(L), [Next]_vars PROVE Types' /\ \E M \in Nat : Custody(M)'
  BY DEF IInv
<1>1. ASSUME NEW b \in Boxes, NEW w \in Workers, WorkerStep(b, w) PROVE Types' /\ Custody(L)'
  <2>1. ASSUME SyncRestore(b, w) PROVE Types' /\ Custody(L)'
    BY <2>1, FetchOneStep DEF SyncRestore, AtSync, Up
  <2> QED
    BY <1>1, <2>1, SyncCleanupStep, SyncStatStep, PutSetStep, PutAnsweredStep, FetchAnsweredStep, ServeStep DEF WorkerStep
<1>2. ASSUME NEW b \in Boxes, NEW w \in Workers, Faults(b, w) PROVE Types' /\ Custody(L)'
  BY <1>2, NothingDoneStep, FetchLandsBadlyStep, CallFailsStep, FetchUnreadableStep DEF Faults
<1>3. ASSUME NEW b \in Boxes, BoxStep(b) PROVE Types' /\ Custody(L)'
  <2>1. "loop" \in Workers
    BY DEF Workers
  <2>2. ASSUME Boot(b) PROVE Types' /\ Custody(L)'
    BY <2>1, <2>2, FetchOneStep DEF Boot
  <2>3. ASSUME BootUnopened(b) PROVE Types' /\ Custody(L)'
    BY <2>1, <2>3, NothingDoneStep
  <2> QED
    BY <1>3, <2>2, <2>3, FlushStep, PhaseStep, CloseSetStep, StopStep, WriteStep, StartStep DEF BoxStep
<1>4. ASSUME CustodyStep PROVE Types' /\ \E M \in Nat : Custody(M)'
  <2>1. ASSUME NEW p \in orphans, ServeOrphan(p) PROVE Types' /\ Custody(L)'
    BY <2>1, ServeOrphanStep
  <2>2. ASSUME Logout PROVE Types' /\ \E M \in Nat : Custody(M)'
    BY <2>2, LogoutStep
  <2>3. ASSUME Leave \/ Rejoin PROVE Types' /\ Custody(L)'
    BY <2>3, MembershipStep
  <2>4. ASSUME RevokeDownward PROVE Types' /\ Custody(L)'
    BY <2>4, RevokeDownwardStep
  <2>5. ASSUME NEW m \in revokes, RevokeLost(m) PROVE Types' /\ Custody(L)'
    <3>1. UNCHANGED <<home, pass, orphans>> /\ UNCHANGED <<row, past>> /\ Spend("fault") /\ revokes' \subseteq revokes
      BY <2>5 DEF RevokeLost
    <3>2. user' \in UserType /\ user'.member = user.member /\ user'.version = user.version
      BY <3>1, SpentFields DEF Spend, Spendings, Types
    <3>3. Quiet
      BY <3>1, <3>2 DEF Quiet, Types
    <3> QED
      BY <3>1, <3>3, QuietStep
  <2>6. ASSUME NEW m \in revokes, NEW fails \in BOOLEAN, HandleRevoke(m, fails) PROVE Types' /\ Custody(L)'
    BY <2>6, HandleRevokeStep
  <2> QED
    BY <1>4, <2>1, <2>2, <2>3, <2>4, <2>5, <2>6 DEF CustodyStep
<1>5. CASE UNCHANGED vars
  <2>1. UNCHANGED <<row, home, pass, orphans, revokes, user, past>>
    BY <1>5 DEF vars
  <2> QED
    BY <2>1, StayQuiet, QuietStep
<1> QED
  BY <1>1, <1>2, <1>3, <1>4, <1>5 DEF Next

\* What the invariant says of the types.
LEMMA CustodyTypes == IInv => TypeOK
<1> SUFFICES ASSUME Types, NEW L \in Nat, Custody(L) PROVE TypeOK
  BY DEF IInv
<1>1. row.revoked => row.files = Nothing
  BY DEF Custody, RowFine
<1>2. ASSUME NEW b \in Boxes, NEW w \in Workers, Putting(pass[b][w]) PROVE pass[b][w].files # Huge
  BY <1>2, BoxFacts DEF WorkFine, PutFine
<1> QED
  BY <1>1, <1>2 DEF Types, TypeOK, UserType, PastType

\* What it says of logouts,
LEMMA CustodyLogouts == IInv => LoggedOutStaysOut
  BY DEF IInv, Custody, RowFine, LoggedOutStaysOut, Younger, After

\* and of what a sandbox was told to forget.
LEMMA CustodyRevokes == IInv => RevokedStaysGone
  BY DEF IInv, Custody, BoxFine, GoneFine, RevokedStaysGone, After

\* The invariant holds in every behaviour.
LEMMA CustodyHolds == Spec => []IInv
  BY CustodyInit, CustodyNext, PTL DEF Spec

\* Custody, the homes and the calls keep the types agents.go and
\* agentvault.go declare; custody holds a whole login or nothing, and a
\* tombstone holds nothing.
THEOREM TypeCorrect == Spec => []TypeOK
  BY CustodyHolds, CustodyTypes, PTL

\* For any sandboxes, any number of puts on their way and of faults: what
\* custody holds is younger than the person's last logout, the recorded
\* slips of a sandbox aside (PutAgentCredentials, putSet, fetchOne).
THEOREM LogoutHolds == Spec => []LoggedOutStaysOut
  BY CustodyHolds, CustodyLogouts, PTL

\* And no sandbox gets back a login it was told to forget and forgot
\* (handleRevoke's generation, retryCleanupLocked).
THEOREM RevokeHolds == Spec => []RevokedStaysGone
  BY CustodyHolds, CustodyRevokes, PTL
=============================================================================
