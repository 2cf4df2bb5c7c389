------------------------------- MODULE RBTree -------------------------------
(***************************************************************************)
(* The red-black tree of the extension (Filesystem/Utility/rb_tree.c):     *)
(* top-down insertion and removal over nodes at reusable addresses, the    *)
(* reference the tree holds on each datum, and the iterator.  A step is    *)
(* one round of a call's loop; the tree has no lock, so calls do not       *)
(* overlap.  Nothing in the extension calls the tree yet: the caller is    *)
(* any that follows the interface and starts an iteration anew after it    *)
(* changed the tree.                                                       *)
(***************************************************************************)
EXTENDS Integers, FiniteSets, Sequences

CONSTANTS Data,       \* what is stored: integers, which the comparator subtracts
          Nodes,      \* addresses a node can be allocated at
          NULL, HEAD, \* the null pointer; the false root of insert and remove
          MaxSize,    \* bounds on size: failed inserts increase it,
          MaxRemoves  \* and removals decrease it

ASSUME RBTreeAssumption ==
         /\ Data \subseteq Int
         /\ IsFiniteSet(Nodes)
         /\ NULL \notin Nodes \cup Data /\ HEAD \notin Nodes \cup {NULL}
         /\ MaxSize \in Nat /\ MaxRemoves \in Nat

VARIABLES
  heap,       \* the nodes' fields, and bug: how the machine stopped, or "none"
  root, size, \* struct lustre_rb_tree; size wraps at 2^64, so -1 is 2^64-1
  allocated,  \* the addresses that hold a node
  refs,       \* the references on each datum that the tree holds
  frame,      \* the call under way and its local variables
  answer,     \* the last call that returned, and what it returned
  it,         \* struct lustre_rb_tree_iterator: current_node and path
  inner       \* an insertion has met a violation of the second kind

treeVars == <<root, size, allocated, refs>>
vars == <<heap, treeVars, frame, answer, it, inner>>

Dirs == {0, 1}
MaybeNode == Nodes \cup {NULL}
Pointers == Nodes \cup {NULL, HEAD}

Heaps == [red  : [Nodes -> BOOLEAN],
          data : [Nodes -> Data \cup {NULL}],
          link : [Nodes \cup {HEAD} -> [Dirs -> MaybeNode]],
          bug  : {"none", "BUG_ON", "null", "freed"}]

Walks == {"first", "last", "next", "prev"}

\* black: the root was black, or there was none, when the call began; climbs: the
\* loop of an iterator's call goes up.
Frames == [call : {"none", "insert", "remove", "find"} \cup Walks,
           d : Data \cup {NULL},
           t : Pointers, g : Pointers, p : Pointers, q : Pointers, f : Pointers,
           dir : Dirs, last : Dirs, path : Seq(Nodes), climbs : BOOLEAN, black : BOOLEAN]

TypeOK ==
  /\ heap \in Heaps
  /\ root \in MaybeNode
  /\ size \in -MaxRemoves .. MaxSize
  /\ allocated \subseteq Nodes
  /\ refs \in [Data -> {0, 1}]
  /\ frame \in Frames
  /\ answer \in ({"alloc"} \X {"success"})
               \cup ({"insert", "remove"} \X {"success", "no space", "invalid argument"})
               \cup (({"find"} \cup Walks) \X (Data \cup {NULL}))
  /\ it \in [node : MaybeNode, path : Seq(Nodes)]
  /\ inner \in BOOLEAN

NoIterator == [node |-> NULL, path |-> <<>>]

NoFrame == [call |-> "none", d |-> NULL,
            t |-> NULL, g |-> NULL, p |-> NULL, q |-> NULL, f |-> NULL,
            dir |-> 0, last |-> 0, path |-> <<>>, climbs |-> FALSE, black |-> TRUE]

NoLinks == [i \in Dirs |-> NULL]

Init ==
  /\ heap = [red  |-> [n \in Nodes |-> FALSE],
             data |-> [n \in Nodes |-> NULL],
             link |-> [n \in Nodes \cup {HEAD} |-> NoLinks],
             bug  |-> "none"]
  /\ root = NULL /\ size = 0
  /\ allocated = {}
  /\ refs = [d \in Data |-> 0]
  /\ frame = NoFrame
  /\ answer = <<"alloc", "success">>
  /\ it = NoIterator
  /\ inner = FALSE
-----------------------------------------------------------------------------
(* Nodes                                                                   *)

NewNode(h, n, d) ==
  [h EXCEPT !.red[n] = TRUE, !.data[n] = d, !.link[n] = NoLinks]

\* A freed node is not read again: its old content is forgotten.
Freed(h, n) ==
  [h EXCEPT !.red[n] = FALSE, !.data[n] = NULL, !.link[n] = NoLinks]

IsRed(h, n) == n # NULL /\ h.red[n]

\* The way down at n towards d: comparator(n->data, d) < 0.
Side(h, n, d) == IF h.data[n] < d THEN 1 ELSE 0

Other(dir) == 1 - dir

\* The link of n that is not the left one unless it leads to m.
LinkTo(h, n, m) == IF h.link[n][1] = m THEN 1 ELSE 0

\* Mutant: the colours do not follow the rotation.
SingleUncoloured(h, n, dir, above, at) ==
  IF n = NULL THEN [h EXCEPT !.bug = "BUG_ON"]
  ELSE LET save == h.link[n][Other(dir)]
       IN  [h EXCEPT !.link[n][Other(dir)] = h.link[save][dir],
                     !.link[save][dir] = n,
                     !.link[above][at] = save]

\* Mutant: n keeps its link, so that n and save lead to each other.
SingleKeepingLink(h, n, dir, above, at) ==
  IF n = NULL THEN [h EXCEPT !.bug = "BUG_ON"]
  ELSE LET save == h.link[n][Other(dir)]
       IN  [h EXCEPT !.link[save][dir] = n,
                     !.red[n] = TRUE,
                     !.red[save] = FALSE,
                     !.link[above][at] = save]

\* above->link[at] = lustre_rb_tree_single(n, dir)
Single(h, n, dir, above, at) ==
  IF n = NULL THEN [h EXCEPT !.bug = "BUG_ON"]
  ELSE LET save == h.link[n][Other(dir)]
       IN  IF save = NULL THEN [h EXCEPT !.bug = "null"]
           ELSE [h EXCEPT !.link[n][Other(dir)] = h.link[save][dir],
                          !.link[save][dir] = n,
                          !.red[n] = TRUE,
                          !.red[save] = FALSE,
                          !.link[above][at] = save]

\* above->link[at] = lustre_rb_tree_double(n, dir)
Double(h, n, dir, above, at) ==
  Single(Single(h, h.link[n][Other(dir)], Other(dir), n, Other(dir)), n, dir, above, at)
-----------------------------------------------------------------------------
(* Calls                                                                   *)

Begin(s) ==
  /\ frame.call = "none"
  /\ frame' = s
  /\ UNCHANGED <<treeVars, answer, it, inner>>

\* Insert and remove hang the tree below a local node.
BeginBelowHead(s) ==
  /\ Begin(s)
  /\ heap' = [heap EXCEPT !.link[HEAD][1] = root]

\* They return with the new root; the local node is gone.
Return(h, result) ==
  /\ heap' = [h EXCEPT !.link[HEAD] = NoLinks]
  /\ root' = h.link[HEAD][1]
  /\ frame' = NoFrame
  /\ answer' = <<frame.call, result>>
  /\ it' = NoIterator
-----------------------------------------------------------------------------
(* Insertion                                                               *)

\* Mutant: the caller of new_node takes the reference again.
InsertFirstTwiceCounted(d, new) ==
  /\ frame.call = "none"
  /\ root = NULL
  /\ root' = new
  /\ heap' = NewNode(heap, new, d)
  /\ allocated' = allocated \cup {new}
  /\ refs' = [refs EXCEPT ![d] = @ + 2]
  /\ answer' = <<"insert", "success">>
  /\ it' = NoIterator
  /\ UNCHANGED <<size, frame, inner>>

InsertFirst(d, new) ==
  /\ frame.call = "none"
  /\ root = NULL
  /\ root' = new
  /\ heap' = NewNode(heap, new, d)
  /\ allocated' = allocated \cup {new}
  /\ refs' = [refs EXCEPT ![d] = @ + 1]
  /\ answer' = <<"insert", "success">>
  /\ it' = NoIterator
  /\ UNCHANGED <<size, frame, inner>>

\* Without memory: the red and the size of a null root are written.
InsertFirstFails ==
  /\ frame.call = "none"
  /\ root = NULL
  /\ heap' = [heap EXCEPT !.bug = "null"]
  /\ UNCHANGED <<treeVars, frame, answer, it, inner>>

InsertBegin(d) ==
  /\ root # NULL
  /\ allocated # Nodes \/ size < MaxSize
  /\ BeginBelowHead([NoFrame EXCEPT !.call = "insert", !.d = d, !.t = HEAD, !.q = root,
                                    !.black = ~heap.red[root]])

\* Mutant: a colour flip leaves the children red.
HalfFlipped(h, q) ==
  IF IsRed(h, h.link[q][0]) /\ IsRed(h, h.link[q][1]) THEN [h EXCEPT !.red[q] = TRUE] ELSE h

Flipped(h, q) ==
  IF IsRed(h, h.link[q][0]) /\ IsRed(h, h.link[q][1])
  THEN [h EXCEPT !.red[q] = TRUE, !.red[h.link[q][0]] = FALSE, !.red[h.link[q][1]] = FALSE]
  ELSE h

Violation(h, q) == IsRed(h, q) /\ IsRed(h, frame.p)

\* Both kinds of violation rotate once; in the second q is between g and p.
Rotated(h, q) ==
  IF Violation(h, q)
  THEN Single(h, frame.g, Other(frame.last), frame.t, LinkTo(h, frame.t, frame.g))
  ELSE h

MeetsViolation(h, q) ==
  inner' = (inner \/ (Violation(h, q) /\ q # h.link[frame.p][frame.last]))

InsertMovesDown(h) ==
  LET dir == Side(h, frame.q, frame.d)
  IN  frame' = [frame EXCEPT !.last = frame.dir, !.dir = dir,
                             !.t = IF frame.g # NULL THEN frame.g ELSE frame.t,
                             !.g = frame.p, !.p = frame.q, !.q = h.link[frame.q][dir]]

\* A round of the loop at a node.
InsertPass ==
  /\ frame.call = "insert"
  /\ frame.q # NULL
  /\ LET flipped == Flipped(heap, frame.q)
         h == Rotated(flipped, frame.q)
     IN  /\ MeetsViolation(flipped, frame.q)
         /\ \/ /\ h.bug # "none"
               /\ heap' = h
               /\ UNCHANGED <<root, frame, answer, it>>
            \/ /\ h.bug = "none" /\ h.data[frame.q] = frame.d
               /\ Return(h, "success")
            \/ /\ h.bug = "none" /\ h.data[frame.q] # frame.d
               /\ heap' = h
               /\ InsertMovesDown(h)
               /\ UNCHANGED <<root, answer, it>>
  /\ UNCHANGED <<size, allocated, refs>>

\* The round that inserts, at a null link.
InsertNew(new) ==
  /\ frame.call = "insert"
  /\ frame.q = NULL
  /\ allocated' = allocated \cup {new}
  /\ refs' = [refs EXCEPT ![frame.d] = @ + 1]
  /\ LET grown == [NewNode(heap, new, frame.d) EXCEPT !.link[frame.p][frame.dir] = new]
         h == Rotated(grown, new)
     IN  /\ MeetsViolation(grown, new)
         /\ \/ /\ h.bug # "none"
               /\ heap' = h
               /\ UNCHANGED <<root, frame, answer, it>>
            \/ /\ h.bug = "none"
               /\ Return(h, "success")
  /\ UNCHANGED size

\* Without memory; only then the root is blackened and the size counted.
InsertFails ==
  /\ frame.call = "insert"
  /\ frame.q = NULL
  /\ size < MaxSize
  /\ Return([heap EXCEPT !.red[heap.link[HEAD][1]] = FALSE], "no space")
  /\ size' = size + 1
  /\ UNCHANGED <<allocated, refs, inner>>
-----------------------------------------------------------------------------
(* Removal                                                                 *)

RemoveBegin(d) ==
  /\ size > -MaxRemoves
  /\ BeginBelowHead([NoFrame EXCEPT !.call = "remove", !.d = d, !.q = HEAD, !.dir = 1])

RemoveMovedDown ==
  LET q == heap.link[frame.q][frame.dir]
  IN  [frame EXCEPT !.last = frame.dir, !.g = frame.p, !.p = frame.q, !.q = q,
                    !.dir = Side(heap, q, frame.d),
                    !.f = IF heap.data[q] = frame.d THEN q ELSE frame.f]

\* A black q with black children, or with a red one on the other side only, takes
\* a red from around it.
AllBlack(s) == ~IsRed(heap, s.q) /\ \A i \in Dirs : ~IsRed(heap, heap.link[s.q][i])

Sibling(s) == heap.link[s.p][Other(s.last)]

NothingPushed(s) ==
  /\ \/ IsRed(heap, s.q) \/ IsRed(heap, heap.link[s.q][s.dir])
     \/ (AllBlack(s) /\ Sibling(s) = NULL)
  /\ heap' = heap
  /\ frame' = s

ChildRotated(s) ==
  /\ ~IsRed(heap, s.q) /\ ~IsRed(heap, heap.link[s.q][s.dir])
  /\ IsRed(heap, heap.link[s.q][Other(s.dir)])
  /\ heap' = Single(heap, s.q, s.dir, s.p, s.last)
  /\ frame' = [s EXCEPT !.p = heap'.link[s.p][s.last]]

ColoursFlipped(s) ==
  /\ AllBlack(s)
  /\ Sibling(s) # NULL
  /\ \A i \in Dirs : ~IsRed(heap, heap.link[Sibling(s)][i])
  /\ heap' = [heap EXCEPT !.red[s.p] = FALSE, !.red[Sibling(s)] = TRUE, !.red[s.q] = TRUE]
  /\ frame' = s

\* The sibling of q has a red child: it is rotated over p.
SiblingRotated(s) ==
  /\ AllBlack(s)
  /\ Sibling(s) # NULL
  /\ \E i \in Dirs : IsRed(heap, heap.link[Sibling(s)][i])
  /\ LET dir2 == LinkTo(heap, s.g, s.p)
         h == IF IsRed(heap, heap.link[Sibling(s)][s.last])
              THEN Double(heap, s.p, s.last, s.g, dir2)
              ELSE Single(heap, s.p, s.last, s.g, dir2)
         top == h.link[s.g][dir2]
     IN  heap' = [h EXCEPT !.red[s.q] = TRUE, !.red[top] = TRUE,
                           !.red[h.link[top][0]] = FALSE, !.red[h.link[top][1]] = FALSE]
  /\ frame' = s

RemovePass ==
  /\ frame.call = "remove"
  /\ heap.link[frame.q][frame.dir] # NULL
  /\ LET s == RemoveMovedDown
     IN  NothingPushed(s) \/ ChildRotated(s) \/ ColoursFlipped(s) \/ SiblingRotated(s)
  /\ UNCHANGED <<treeVars, answer, it, inner>>

\* The only child of q, and what is left of the tree without q.
OnlyChild(q) == heap.link[q][IF heap.link[q][0] = NULL THEN 1 ELSE 0]

\* Mutant: the data of q are not moved.
UnlinkedKeepingData(s) ==
  Freed([heap EXCEPT !.link[s.p][LinkTo(heap, s.p, s.q)] = OnlyChild(s.q)], s.q)

\* f takes the data of q, the last node of the walk, and q is unlinked.
Unlinked(s) ==
  Freed([heap EXCEPT !.data[s.f] = heap.data[s.q],
                     !.link[s.p][LinkTo(heap, s.p, s.q)] = OnlyChild(s.q)], s.q)

RootBlackened(h) ==
  LET top == h.link[HEAD][1]
  IN  IF top = NULL THEN h ELSE [h EXCEPT !.red[top] = FALSE]

RemoveEnd ==
  /\ frame.call = "remove"
  /\ heap.link[frame.q][frame.dir] = NULL
  /\ \/ /\ frame.f # NULL
        /\ allocated' = allocated \ {frame.q}
        /\ refs' = [refs EXCEPT ![heap.data[frame.f]] = @ - 1]
        /\ Return(RootBlackened(Unlinked(frame)), "success")
     \/ /\ frame.f = NULL
        /\ UNCHANGED <<allocated, refs>>
        /\ Return(RootBlackened(heap), "invalid argument")
  /\ size' = size - 1
  /\ UNCHANGED inner
-----------------------------------------------------------------------------
(* Search and iteration                                                    *)

FindBegin(d) ==
  /\ Begin([NoFrame EXCEPT !.call = "find", !.d = d, !.q = root])
  /\ UNCHANGED heap

\* The comparison is kept in a uint8_t, which is never below 0: the walk goes
\* to the left whatever the comparator said.
FindPass ==
  /\ frame.call = "find"
  /\ frame.q # NULL
  /\ heap.data[frame.q] # frame.d
  /\ frame' = [frame EXCEPT !.q = heap.link[frame.q][0]]
  /\ UNCHANGED <<heap, treeVars, answer, it, inner>>

FindEnd ==
  /\ frame.call = "find"
  /\ \/ frame.q = NULL /\ answer' = <<"find", NULL>>
     \/ /\ frame.q # NULL
        /\ heap.data[frame.q] = frame.d
        /\ answer' = <<"find", heap.data[frame.q]>>
  /\ frame' = NoFrame
  /\ UNCHANGED <<heap, treeVars, it, inner>>

\* The end of a call of the iterator.
MoveTo(call, n, path) ==
  /\ it' = [node |-> n, path |-> path]
  /\ answer' = <<call, IF n = NULL THEN NULL ELSE heap.data[n]>>
  /\ frame' = NoFrame
  /\ UNCHANGED <<heap, treeVars, inner>>

IteratorStart(call, dir) ==
  \/ /\ root # NULL
     /\ Begin([NoFrame EXCEPT !.call = call, !.q = root, !.dir = dir])
     /\ UNCHANGED heap
  \/ /\ root = NULL
     /\ frame.call = "none"
     /\ MoveTo(call, NULL, <<>>)

\* Mutant: the branch is followed to its far end.
IteratorMoveFar(call, dir) ==
  /\ it.node # NULL
  /\ LET below == heap.link[it.node][dir]
     IN  Begin(IF below = NULL
               THEN [NoFrame EXCEPT !.call = call, !.q = it.node, !.path = it.path,
                                    !.dir = dir, !.climbs = TRUE]
               ELSE [NoFrame EXCEPT !.call = call, !.q = below, !.dir = dir,
                                    !.path = Append(it.path, it.node)])
  /\ UNCHANGED heap

\* Down the branch, or up to the next one.  The caller has not gone past the end: the
\* code follows current_node unasked (rb_tree.c:107).
IteratorMove(call, dir) ==
  /\ it.node # NULL
  /\ LET below == heap.link[it.node][dir]
     IN  Begin(IF below = NULL
               THEN [NoFrame EXCEPT !.call = call, !.q = it.node, !.path = it.path,
                                    !.dir = dir, !.climbs = TRUE]
               ELSE [NoFrame EXCEPT !.call = call, !.q = below, !.dir = Other(dir),
                                    !.path = Append(it.path, it.node)])
  /\ UNCHANGED heap

InIterator == frame.call \in Walks

WalkPass ==
  /\ InIterator /\ ~frame.climbs
  /\ heap.link[frame.q][frame.dir] # NULL
  /\ frame' = [frame EXCEPT !.path = Append(@, frame.q),
                            !.q = heap.link[frame.q][frame.dir]]
  /\ UNCHANGED <<heap, treeVars, answer, it, inner>>

WalkEnd ==
  /\ InIterator /\ ~frame.climbs
  /\ heap.link[frame.q][frame.dir] = NULL
  /\ MoveTo(frame.call, frame.q, frame.path)

Up == frame.path[Len(frame.path)]
Rest == SubSeq(frame.path, 1, Len(frame.path) - 1)

ClimbPass ==
  /\ InIterator /\ frame.climbs
  /\ frame.path # <<>>
  /\ heap.link[Up][frame.dir] = frame.q
  /\ frame' = [frame EXCEPT !.q = Up, !.path = Rest]
  /\ UNCHANGED <<heap, treeVars, answer, it, inner>>

ClimbEnd ==
  /\ InIterator /\ frame.climbs
  /\ \/ frame.path = <<>> /\ MoveTo(frame.call, NULL, <<>>)
     \/ /\ frame.path # <<>>
        /\ heap.link[Up][frame.dir] # frame.q
        /\ MoveTo(frame.call, Up, Rest)

\* The first node is freed before the iterator moves on from it.  An empty tree
\* is freed properly, and another allocated.
FreeTree ==
  /\ frame.call = "none"
  /\ heap' = [heap EXCEPT !.bug = IF root = NULL THEN "none" ELSE "freed"]
  /\ size' = 0
  /\ it' = NoIterator
  /\ answer' = <<"alloc", "success">>
  /\ UNCHANGED <<root, allocated, refs, frame, inner>>
-----------------------------------------------------------------------------
BeginCall ==
  \/ \E d \in Data :
       \/ \E new \in Nodes \ allocated : InsertFirst(d, new)
       \/ InsertBegin(d) \/ RemoveBegin(d) \/ FindBegin(d)
  \/ InsertFirstFails
  \/ IteratorStart("first", 0) \/ IteratorStart("last", 1)
  \/ IteratorMove("next", 1) \/ IteratorMove("prev", 0)
  \/ FreeTree

GoOn ==
  \/ InsertPass \/ (\E new \in Nodes \ allocated : InsertNew(new)) \/ InsertFails
  \/ RemovePass \/ RemoveEnd
  \/ FindPass \/ FindEnd
  \/ WalkPass \/ WalkEnd \/ ClimbPass \/ ClimbEnd

\* After a panic or a use of freed memory the model stops; also after a call that
\* met a violation of the second kind, from which the next insertion may make a
\* cycle of links.
Halted == (heap.bug # "none" \/ (inner /\ frame.call = "none")) /\ UNCHANGED vars

Next ==
  \/ heap.bug = "none" /\ ((~inner /\ BeginCall) \/ GoOn)
  \/ Halted

Spec == Init /\ [][Next]_vars
-----------------------------------------------------------------------------
(* Properties                                                              *)

\* The nodes that are met from n down: those in every set with n that the links
\* do not leave.
Under(n) ==
  {m \in Nodes : \A S \in SUBSET Nodes :
     /\ {n} \ {NULL} \subseteq S
     /\ \A k \in S, i \in Dirs : heap.link[k][i] \in S \cup {NULL}
     => m \in S}

Before(i, a, b) == IF i = 1 THEN a < b ELSE b < a

Quiet == frame.call = "none" /\ heap.bug = "none"

\* Between calls the tree is in order, no node of it is lost, and it holds one
\* reference on each of its data (rb_tree.c:46, 369): whatever was inserted and
\* removed, up to and including the first violation of the second kind.
SearchTree ==
  Quiet =>
    /\ \A n \in Under(root), i \in Dirs : \A m \in Under(heap.link[n][i]) :
         Before(i, heap.data[n], heap.data[m])
    /\ Under(root) = allocated
    /\ \A d \in Data : refs[d] = IF \E n \in allocated : heap.data[n] = d THEN 1 ELSE 0

\* Rotations and colour flips keep all ways down from a node equally black; and no
\* red node has a red child, until a violation of the second kind is rotated once
\* only (rb_tree.c:253-262).
Balanced ==
  Quiet =>
    /\ \E blacks \in [allocated -> 0..Cardinality(allocated)] :
         \A n \in allocated, i \in Dirs :
           LET below == heap.link[n][i]
           IN  blacks[n] = (IF below = NULL THEN 0 ELSE blacks[below])
                           + (IF heap.red[n] THEN 0 ELSE 1)
    /\ ~inner => \A n \in allocated, i \in Dirs :
                   ~(heap.red[n] /\ IsRed(heap, heap.link[n][i]))

\* The rotation at a null grandparent (rb_tree.c:63) needs a root that is red when
\* the call begins, which the test of rb_tree.c:286 leaves so; and only the first
\* insert can write to a root that is null.
BlackRootNeverPanics ==
  /\ heap.bug = "BUG_ON" => ~frame.black
  /\ heap.bug = "null" => root = NULL

\* The assertion of rb_tree.c:63: a rotation has a node to rotate.
RotationsHaveANode == heap.bug # "BUG_ON"

\* The nodes that a loop may still come to.
Remaining ==
  IF frame.q = HEAD THEN {HEAD} \cup Under(heap.link[HEAD][1]) ELSE Under(frame.q)

\* Every loop ends, of every call up to and including the one that first rotates at a
\* violation of the inner kind, where the model stops: a round leaves fewer nodes than
\* it found, whatever it rotates, or a shorter path to climb (rb_tree.c:237, 320, 188,
\* 92, 112, 127).
LoopsEnd ==
  [][frame.call # "none" /\ frame'.call # "none" /\ heap'.bug = "none" =>
       IF InIterator /\ frame.climbs THEN Len(frame'.path) < Len(frame.path)
       ELSE Remaining' \subseteq Remaining /\ Remaining' # Remaining]_frame

Set == INSTANCE OrderedSet WITH
  keys <- {heap.data[n] : n \in allocated},
  cursor <- IF it.node = NULL THEN NULL ELSE heap.data[it.node]

\* Every answer is that of an ordered set, and the iterator visits its data in
\* order in both directions, as long as the machine runs and the tree is sound
\* (rb_tree.c:83-131, 174-388, 423-481).
ImplementsOrderedSet ==
  Set!Init /\ [][heap'.bug # "none" \/ Set!Next]_(Set!vars)
=============================================================================
