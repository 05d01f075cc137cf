--------------------------- MODULE WorkspaceTree ----------------------------
(***************************************************************************)
(* The rules a workspace tree is held to on its way through a checkpoint:  *)
(* the index a stream opens with, the order of a walk, links, and where an *)
(* entry lands when it is restored.                                        *)
(*                                                                         *)
(* A name is the sequence of its elements, numbers in the order of the     *)
(* strings they stand for; <<>> is the root.  An entry has a name, a kind, *)
(* the target of a link and the version of a file's bytes.  Modes, times,  *)
(* lengths and spellings are left out.                                     *)
(***************************************************************************)
EXTENDS Integers, Sequences, SequencesExt, FiniteSets

Root == <<>>
Up == -1                 \* ".." in a link's target
Outside == <<-2>>        \* anywhere above the root
Control == 0             \* .rainier, the element DefaultExclusions names

Dir(n) == Front(n)
Base(n) == Last(n)

\* an excluded path, or one under it
Excluded(n) == Head(n) = Control

Named(es) == {e.name : e \in es}

-----------------------------------------------------------------------------
(* Walks.                                                                  *)

\* fs.WalkDir: a directory before what is in it, siblings in lexical order
WalkedBefore(a, b) ==
    LET common == {i \in 1 .. (IF Len(a) < Len(b) THEN Len(a) ELSE Len(b)) : SubSeq(a, 1, i) = SubSeq(b, 1, i)}
        i == Cardinality(common) + 1
    IN  IF i > Len(a) THEN i <= Len(b) ELSE i <= Len(b) /\ a[i] < b[i]

InWalkOrder(es) == SetToSortSeq(es, LAMBDA a, b : WalkedBefore(a.name, b.name))

\* what a walk may reach: every directory above it is a directory of es
Reached(es) == {e \in es : \A i \in 1 .. Len(e.name) - 1 : \E d \in es : d.name = SubSeq(e.name, 1, i) /\ d.kind = "dir"}

-----------------------------------------------------------------------------
(* Links.                                                                  *)

(* A target is refused when it leaves the tree lexically, at any point:    *)
(* path.Join keeps a leading ".." whatever follows it.                     *)
ValidLink(n, to) ==
    /\ to # <<>>
    /\ \A i \in 1 .. Len(to) :
           Cardinality({j \in 1 .. i : to[j] = Up}) <= Len(n) - 1 + Cardinality({j \in 1 .. i : to[j] # Up})

\* what the kernel makes of the element e below at
Below(at, e) ==
    IF at = Outside THEN Outside
    ELSE IF e # Up THEN Append(at, e)
    ELSE IF at = Root THEN Outside ELSE Dir(at)

(* Where the path n is once the links among what was made are followed.    *)
Lands(made, n) ==
    LET Through(at, e) ==
            LET links == {x \in made : x.kind = "link" /\ x.at = Below(at, e)}
            IN  IF links = {} THEN Below(at, e)
                ELSE FoldLeft(Below, at, (CHOOSE x \in links : TRUE).to)
    IN  Below(FoldLeft(Through, Root, Dir(n)), Base(n))

-----------------------------------------------------------------------------
(* The index of a stream.                                                  *)

(* addIndexEntry: the next record r of an index that holds order.  What is *)
(* excluded is passed over, whatever it is; anything else is new, inside a *)
(* directory already named, in depth-first order and after its siblings.   *)
IndexAdmits(order, r) ==
    LET nodes == {x \in Range(order) : ~Excluded(x.name)}
        parent == Dir(r.name)
    IN  \/ Excluded(r.name)
        \/ /\ r.name \notin Named(nodes)
           /\ parent = Root \/ \E x \in nodes : x.name = parent /\ x.kind = "dir"
           /\ order = <<>> \/ parent = Root \/ IsPrefix(parent, Last(order).name)
           /\ \A x \in nodes : Dir(x.name) = parent => Base(x.name) < Base(r.name)

\* the positions of an index in the order the checkpoint writer asks for them
Visits(order) ==
    LET nodes == Reached({x \in Range(order) : ~Excluded(x.name)})
        At(x) == CHOOSE i \in DOMAIN order : order[i] = x
    IN  [i \in 1 .. Cardinality(nodes) |-> At(InWalkOrder(nodes)[i])]

-----------------------------------------------------------------------------
(* Reading a checkpoint back.                                              *)

NoWalk == [ok |-> TRUE, stack |-> <<>>, made |-> {}]

\* the open directories left once every one that is not n has been closed
Descended(stack, n) ==
    LET at == {i \in DOMAIN stack : stack[i] = n}
    IN  IF at = {} THEN <<>> ELSE SubSeq(stack, 1, CHOOSE i \in at : \A j \in at : j <= i)

Made(w, e) == w.made \cup {[at |-> Lands(w.made, e.name), name |-> e.name, kind |-> e.kind, to |-> e.to, v |-> e.v, size |-> e.size]}

\* mutant: what an entry is inside of is left to the kernel
ConsumeAnywhere(w, e, restore) ==
    IF ~w.ok \/ (e.kind = "link" /\ ~ValidLink(e.name, e.to)) THEN [w EXCEPT !.ok = FALSE]
    ELSE [w EXCEPT !.made = IF restore THEN Made(w, e) ELSE @]

(* One entry of consumeStream.  Its parent is the root or a directory this *)
(* walk has made and not left; links are checked and never entered; where  *)
(* the tree is restored nothing is made twice but a directory.             *)
Consume(w, e, restore) ==
    LET stack == Descended(w.stack, Dir(e.name))
        there == {x \in w.made : x.at = Lands(w.made, e.name)}
    IN  IF \/ ~w.ok
           \/ stack = <<>> /\ Dir(e.name) # Root
           \/ e.kind = "link" /\ ~ValidLink(e.name, e.to)
           \/ \E x \in there : x.kind # "dir" \/ e.kind # "dir"
        THEN [w EXCEPT !.ok = FALSE]
        ELSE [w EXCEPT !.stack = IF e.kind = "dir" THEN Append(stack, e.name) ELSE stack,
                       !.made = IF restore THEN Made(w, e) ELSE @]

\* Verify is the same walk with nothing made
Verifies(content) == FoldLeft(LAMBDA w, e : Consume(w, e, FALSE), NoWalk, content).ok
=============================================================================
