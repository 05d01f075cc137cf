---------------------------- MODULE MCCheckpoint ----------------------------
(* Scenarios for the checkpoint: which trees meet which events.            *)
EXTENDS Checkpoint

MCNames == {<<1>>, <<1, 1>>, <<2>>}

D(n) == [name |-> n, kind |-> "dir", to |-> <<>>, v |-> 0, size |-> 0]
F(n) == [name |-> n, kind |-> "file", to |-> <<>>, v |-> 1, size |-> 1]
L(n, to) == [name |-> n, kind |-> "link", to |-> to, v |-> 0, size |-> 0]
S(n) == [name |-> n, kind |-> "sock", to |-> <<>>, v |-> 0, size |-> 0]

Small == {F(<<1>>)}
Tree == {D(<<0>>), F(<<0, 1>>), D(<<1>>), F(<<1, 1>>), L(<<1, 2>>, <<Up, 2>>), S(<<1, 3>>), F(<<2>>)}

Plain == [tree |-> Small, ops |-> {}, faults |-> 0, writes |-> 0, unvouched |-> FALSE, clean |-> FALSE, suspends |-> 1,
         entries |-> {}, stored |-> {<<>>}]

\* nothing goes wrong, to the end and back
Clean == [Plain EXCEPT !.tree = Tree, !.clean = TRUE, !.ops = {"remove", "resume"}]
\* a link that leaves the tree
Refused == [Plain EXCEPT !.tree = {L(<<1>>, <<Up>>)}]
\* programs go on writing
Changing == [Plain EXCEPT !.tree = {D(<<1>>), F(<<1, 1>>), F(<<2>>)}, !.writes = 2, !.ops = {"remove", "resume"}]
\* the connection drops, answers are late, a suspend is tried again
Links == [Plain EXCEPT !.ops = {"drop", "slow"}, !.faults = 1, !.suspends = 2]
\* the runner dies and its disks fail, at any point of a suspend and of a restore
Crashes == [Plain EXCEPT !.ops = {"crash", "save", "store", "disk", "rot", "remove", "resume"}, !.faults = 2, !.suspends = 2]
\* a stream nobody vouches for
Unvouched == [Plain EXCEPT !.unvouched = TRUE,
                        !.entries = {D(<<0>>), F(<<0, 1>>), D(<<1>>), L(<<1>>, <<2>>), F(<<1, 1>>), L(<<1, 2>>, <<Up>>), F(<<2>>)}]
\* a checkpoint this writer would not have written
Pieces == {D(<<1>>), F(<<1>>), L(<<1>>, <<2>>), L(<<1, 1>>, <<Up>>), L(<<1, 1>>, <<Up, Up>>), D(<<1, 1>>),
           L(<<1, 1, 1>>, <<Up, Up>>), F(<<1, 1, 2>>), F(<<2>>)}
Contents == UNION {[1 .. n -> {Entry(e) : e \in Pieces}] : n \in 1 .. 3}
Stored == [Plain EXCEPT !.stored = Contents, !.ops = {"resume"}]

MCSetups == {Clean, Refused, Changing, Links, Crashes, Unvouched, Stored}
=============================================================================
