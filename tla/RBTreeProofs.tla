---------------------------- MODULE RBTreeProofs ----------------------------
(***************************************************************************)
(* RBTree, for any data and any finite number of addresses.                *)
(***************************************************************************)
EXTENDS RBTree, FiniteSetTheorems, TLAPS

-----------------------------------------------------------------------------
(* Search trees: links L, data D, allocated nodes A, and B, which gives each node *)
(* the nodes that bound its part of the data on either side, or NULL.             *)

\* z lies between the bounds of n.
Within(D, B, n, z) == \A i \in Dirs : B[n][i] # NULL => Before(i, z, D[B[n][i]])

Typed(L, D, A, B) ==
  /\ A \subseteq Nodes
  /\ L \in [Nodes \cup {HEAD} -> [Dirs -> MaybeNode]]
  /\ D \in [Nodes -> Data \cup {NULL}]
  /\ B \in [Nodes -> [Dirs -> MaybeNode]]
  /\ \A n \in A : D[n] \in Data
  /\ \A n, m \in A : D[n] = D[m] => n = m
  /\ \A n \in A \cup {HEAD}, i \in Dirs : L[n][i] \in A \cup {NULL}
  /\ \A n \in A, i \in Dirs : B[n][i] \in A \cup {NULL}

TopOf(L, A, B) ==
  /\ L[HEAD][0] = NULL
  /\ L[HEAD][1] = NULL => A = {}
  /\ L[HEAD][1] # NULL => \A i \in Dirs : B[L[HEAD][1]][i] = NULL

Bounded(L, A, B) ==
  \A n \in A, i \in Dirs : L[n][i] # NULL =>
    B[L[n][i]][i] = B[n][i] /\ B[L[n][i]][Other(i)] = n

Unshared(L, A) ==
  \A n, m \in A \cup {HEAD}, i, j \in Dirs :
    L[n][i] = L[m][j] /\ L[n][i] # NULL => n = m /\ i = j

Ordered(D, A, B) ==
  /\ \A n \in A : Within(D, B, n, D[n])
  /\ \A n \in A, i \in Dirs : B[n][i] # NULL => Within(D, B, B[n][i], D[n])
  /\ \A n, m, k \in A : Within(D, B, n, D[m]) /\ Within(D, B, m, D[k]) => Within(D, B, n, D[k])

Complete(L, D, A, B) ==
  \A n, m \in A, i \in Dirs :
    Within(D, B, n, D[m]) /\ Before(i, D[n], D[m]) => L[n][i] # NULL

Tree(L, D, A, B) ==
  Typed(L, D, A, B) /\ TopOf(L, A, B) /\ Bounded(L, A, B) /\ Unshared(L, A)
  /\ Ordered(D, A, B) /\ Complete(L, D, A, B)
-----------------------------------------------------------------------------
(* Colours: red R, and H, the number of black nodes on every way down from a node *)

HeightOf(H, n) == IF n = NULL THEN 0 ELSE H[n]

Heights(L, R, A, H) ==
  /\ H \in [Nodes -> Int]
  /\ \A n \in A : H[n] \in Nat
  /\ \A n \in A, i \in Dirs :
       H[n] = HeightOf(H, L[n][i]) + (IF R[n] THEN 0 ELSE 1)

Levelled(L, R, A) == \E H : Heights(L, R, A, H)

Black(R, n) == n # NULL => ~R[n]

\* A red node has no red child.
RedAlone(L, R, n) == R[n] => \A i \in Dirs : Black(R, L[n][i])

BothRed(L, R, n) == \A i \in Dirs : ~Black(R, L[n][i])

AllBlackAt(L, R, n) == n # NULL /\ ~R[n] /\ \A i \in Dirs : Black(R, L[n][i])
-----------------------------------------------------------------------------
Whole == IF frame.call \in {"insert", "remove"} THEN heap.link
         ELSE [heap.link EXCEPT ![HEAD] = [i \in Dirs |-> IF i = 1 THEN root ELSE NULL]]

IsPath(L, A, path, n) ==
  /\ n \in A
  /\ path \in Seq(A)
  /\ path = <<>> => n = L[HEAD][1]
  /\ path # <<>> => /\ path[1] = L[HEAD][1]
                    /\ \A k \in 1..(Len(path) - 1) : \E i \in Dirs : L[path[k]][i] = path[k + 1]
                    /\ \E i \in Dirs : L[path[Len(path)]][i] = n

IteratorInv(L, A) ==
  IF it.node = NULL THEN it.path = <<>> ELSE IsPath(L, A, it.path, it.node)

\* Where g and t are in an insertion.
Placed(L, R, t, g, p, q, last) ==
  \/ g = NULL /\ t = HEAD /\ (p = NULL \/ p = L[HEAD][1])
  \/ /\ g # NULL /\ L[g][last] = p
     /\ t # NULL /\ (~R[p] \/ \E i \in Dirs : L[t][i] = g)
  \/ g # NULL /\ AllBlackAt(L, R, q)

InsertInv(L, D, R, A, B, s) ==
  /\ s.d \in Data
  /\ s.t \in A \cup {HEAD} /\ s.g \in A \cup {NULL}
  /\ s.p \in A \cup {NULL} /\ s.q \in A \cup {NULL}
  /\ s.dir \in Dirs /\ s.last \in Dirs
  /\ A # {}
  /\ IF s.p = NULL THEN s.q = L[HEAD][1] /\ s.g = NULL
     ELSE /\ L[s.p][s.dir] = s.q
          /\ Within(D, B, s.p, s.d) /\ Before(s.dir, D[s.p], s.d)
  /\ Placed(L, R, s.t, s.g, s.p, s.q, s.last)
  /\ \A m \in A : (s.p # NULL => Within(D, B, s.p, D[m])) => RedAlone(L, R, m)
  /\ s.p # NULL => ~BothRed(L, R, s.p)
  /\ s.g # NULL => ~(R[s.p] /\ R[s.g])
  /\ s.g # NULL /\ BothRed(L, R, s.g) => AllBlackAt(L, R, s.q)
  /\ s.g = NULL /\ s.black =>
       IF s.p = NULL THEN ~R[s.q] ELSE ~R[s.p] \/ AllBlackAt(L, R, s.q)

RemoveInv(L, D, R, A, B, s) ==
  /\ s.d \in Data
  /\ s.dir \in Dirs
  /\ IF s.q = HEAD THEN s.p = NULL /\ s.f = NULL /\ s.dir = 1
     ELSE /\ s.q \in A /\ s.p \in A \cup {HEAD} /\ s.f \in A \cup {NULL}
          /\ s.dir = IF D[s.q] < s.d THEN 1 ELSE 0
          /\ \E i \in Dirs : L[s.p][i] = s.q
          /\ IF s.f = NULL THEN Within(D, B, s.q, s.d) /\ D[s.q] # s.d
             ELSE D[s.f] = s.d /\ (s.f = s.q \/ B[s.q][1] = s.f)
          /\ R[s.q] \/ ~Black(R, L[s.q][s.dir]) \/ (s.p = HEAD /\ AllBlackAt(L, R, s.q))

WalkInv(L, A, B, s) ==
  /\ IsPath(L, A, s.path, s.q)
  /\ s.call \in {"next", "prev"} => it.node \in A
  /\ IF s.climbs
     THEN /\ s.call \in {"next", "prev"}
          /\ s.dir = IF s.call = "next" THEN 1 ELSE 0
          /\ L[it.node][s.dir] = NULL
          /\ B[s.q][s.dir] = B[it.node][s.dir]
     ELSE /\ s.dir = IF s.call \in {"first", "next"} THEN 0 ELSE 1
          /\ B[s.q][s.dir] = IF s.call \in {"first", "last"} THEN NULL ELSE it.node

CallInv(L, D, R, A, B) ==
  /\ frame.call = "none" => frame = NoFrame
  /\ frame.call = "insert" => InsertInv(L, D, R, A, B, frame)
  /\ frame.call = "remove" => RemoveInv(L, D, R, A, B, frame) /\ size > -MaxRemoves
  /\ frame.call = "find" => frame.q \in A \cup {NULL} /\ frame.d \in Data
  /\ InIterator => WalkInv(L, A, B, frame)
  /\ ~(frame.call \in {"insert", "remove"}) => IteratorInv(L, A) /\ heap.link[HEAD] = NoLinks
  /\ frame.call \notin {"none", "insert"} => ~inner

Sound(L, D, R, A, B, H) ==
  /\ Tree(L, D, A, B)
  /\ Heights(L, R, A, H)
  /\ ~inner => \A n \in A : RedAlone(L, R, n)
  /\ CallInv(L, D, R, A, B)

RefsInv == \A d \in Data : refs[d] = IF \E n \in allocated : heap.data[n] = d THEN 1 ELSE 0

IInv ==
  /\ TypeOK
  /\ BlackRootNeverPanics
  /\ heap.bug = "none" =>
       /\ \E B \in [Nodes -> [Dirs -> MaybeNode]], H \in [Nodes -> Int] :
            Sound(Whole, heap.data, heap.red, allocated, B, H)
       /\ it.node \in allocated \cup {NULL}
       /\ RefsInv
-----------------------------------------------------------------------------
(* Search trees                                                            *)

LEMMA DirFacts ==
  /\ Dirs = {0, 1}
  /\ \A i \in Dirs : Other(i) \in Dirs /\ Other(Other(i)) = i /\ Other(i) # i
  /\ \A i, j \in Dirs : j = i \/ j = Other(i)
BY DEF Dirs, Other

LEMMA BeforeFacts ==
  ASSUME NEW a \in Int, NEW b \in Int, NEW i \in Dirs
  PROVE  /\ ~Before(i, a, a)
         /\ a = b \/ Before(i, a, b) \/ Before(i, b, a)
         /\ Before(Other(i), a, b) <=> Before(i, b, a)
         /\ ~(Before(i, a, b) /\ Before(i, b, a))
         /\ \A c \in Int : Before(i, a, b) /\ Before(i, b, c) => Before(i, a, c)
BY DEF Before, Other, Dirs

LEMMA TreeTypes ==
  ASSUME NEW L, NEW D, NEW A, NEW B, Typed(L, D, A, B)
  PROVE  /\ A \subseteq Nodes /\ NULL \notin A /\ HEAD \notin A
         /\ \A n \in A : D[n] \in Int
         /\ \A n \in A, i \in Dirs : B[n][i] # NULL => B[n][i] \in A
         /\ \A n \in A \cup {HEAD}, i \in Dirs : L[n][i] # NULL => L[n][i] \in A
BY RBTreeAssumption DEF Typed

\* What is below a child lies between the bounds of its parent, on the child's side.
LEMMA ChildWithin ==
  ASSUME NEW L, NEW D, NEW A, NEW B, Tree(L, D, A, B),
         NEW n \in A, NEW i \in Dirs, L[n][i] # NULL, NEW z \in Int
  PROVE  Within(D, B, L[n][i], z) <=> Within(D, B, n, z) /\ Before(i, D[n], z)
<1>0. Typed(L, D, A, B) /\ Bounded(L, A, B) /\ Within(D, B, n, D[n])
  BY DEF Tree, Ordered
<1>1. B[L[n][i]][i] = B[n][i] /\ B[L[n][i]][Other(i)] = n
  BY <1>0 DEF Bounded
<1>2. n # NULL /\ D[n] \in Int /\ Other(i) \in Dirs
  BY <1>0, TreeTypes, DirFacts
<1>4. Before(Other(i), z, D[n]) <=> Before(i, D[n], z)
  BY <1>2, BeforeFacts
<1>5. Within(D, B, L[n][i], z) <=>
        (B[n][i] # NULL => Before(i, z, D[B[n][i]])) /\ Before(i, D[n], z)
  BY <1>1, <1>2, <1>4, DirFacts DEF Within
<1>6. ASSUME Before(i, D[n], z), B[n][Other(i)] # NULL
      PROVE  Before(Other(i), z, D[B[n][Other(i)]])
  <2>. DEFINE b == B[n][Other(i)]
  <2>1. Before(Other(i), D[n], D[b])
    BY <1>0, <1>2, <1>6 DEF Within
  <2>2. D[b] \in Int
    BY <1>0, <1>2, <1>6, TreeTypes
  <2>3. Before(i, D[b], D[n])
    BY <2>1, <2>2, <1>2, BeforeFacts
  <2>4. Before(i, D[b], z)
    BY <2>2, <2>3, <1>2, <1>6, BeforeFacts
  <2>. QED  BY <2>2, <2>4, BeforeFacts
<1>7. Within(D, B, n, z) <=>
        /\ B[n][i] # NULL => Before(i, z, D[B[n][i]])
        /\ B[n][Other(i)] # NULL => Before(Other(i), z, D[B[n][Other(i)]])
  BY <1>2, DirFacts DEF Within
<1>. QED  BY <1>5, <1>6, <1>7

\* A node that lies below n is n or below a child of n.
LEMMA Down ==
  ASSUME NEW L, NEW D, NEW A, NEW B, Tree(L, D, A, B),
         NEW n \in A, NEW m \in A, n # m, Within(D, B, n, D[m])
  PROVE  \E i \in Dirs : /\ L[n][i] \in A
                         /\ Before(i, D[n], D[m])
                         /\ Within(D, B, L[n][i], D[m])
<1>0. Typed(L, D, A, B) /\ Complete(L, D, A, B)
  BY DEF Tree
<1>1. D[n] \in Int /\ D[m] \in Int
  BY <1>0, TreeTypes
<1>1a. D[n] # D[m]
  BY <1>0 DEF Typed
<1>2. PICK i \in Dirs : Before(i, D[n], D[m])
  BY <1>1, <1>1a, DirFacts DEF Before
<1>3. L[n][i] # NULL
  BY <1>0, <1>2 DEF Complete
<1>4. L[n][i] \in A
  BY <1>0, <1>3, TreeTypes
<1>. QED  BY <1>1, <1>2, <1>3, <1>4, ChildWithin

\* Nodes that lie below each other are the same.
LEMMA Antisymmetric ==
  ASSUME NEW L, NEW D, NEW A, NEW B, Tree(L, D, A, B),
         NEW n \in A, NEW m \in A, Within(D, B, n, D[m]), Within(D, B, m, D[n])
  PROVE  n = m
<1>. SUFFICES ASSUME n # m PROVE FALSE
  OBVIOUS
<1>0. D[n] \in Int /\ Ordered(D, A, B)
  BY TreeTypes DEF Tree
<1>1. PICK i \in Dirs : L[n][i] \in A /\ Within(D, B, L[n][i], D[m])
  BY Down
<1>2. Within(D, B, L[n][i], D[n])
  BY <1>0, <1>1 DEF Ordered
<1>3. L[n][i] # NULL
  BY <1>1, TreeTypes DEF Tree
<1>. QED  BY <1>0, <1>2, <1>3, ChildWithin, BeforeFacts

\* A node above a child is the child or above its parent.
LEMMA ParentAbove ==
  ASSUME NEW L, NEW D, NEW A, NEW B, Tree(L, D, A, B),
         NEW n \in A, NEW i \in Dirs, L[n][i] # NULL,
         NEW x \in A, Within(D, B, x, D[L[n][i]]), x # L[n][i]
  PROVE  Within(D, B, x, D[n])
<1>. DEFINE c == L[n][i]
<1>0. /\ Typed(L, D, A, B) /\ Bounded(L, A, B) /\ Ordered(D, A, B)
      /\ c \in A /\ D[n] \in Int /\ D[c] \in Int /\ D[x] \in Int /\ c # NULL /\ n # NULL
  BY TreeTypes DEF Tree
<1>1. PICK j \in Dirs : /\ L[x][j] \in A
                        /\ Before(j, D[x], D[c])
                        /\ Within(D, B, L[x][j], D[c])
  BY <1>0, Down
<1>. SUFFICES ASSUME ~Within(D, B, x, D[n]) PROVE FALSE
  OBVIOUS
<1>2. PICK k \in Dirs : B[x][k] # NULL /\ ~Before(k, D[n], D[B[x][k]])
  BY DEF Within
<1>. DEFINE b == B[x][k]
<1>3. b \in A /\ D[b] \in Int /\ Within(D, B, b, D[x]) /\ Before(k, D[c], D[b])
  BY <1>0, <1>2, TreeTypes DEF Ordered, Within
<1>4. n = b \/ Before(k, D[b], D[n])
  BY <1>0, <1>2, <1>3, BeforeFacts DEF Typed
<1>5. k # i
  <2>. SUFFICES ASSUME k = i PROVE FALSE
    OBVIOUS
  <2>1. Within(D, B, c, D[c])
    BY <1>0 DEF Ordered
  <2>2. Before(i, D[n], D[c])
    BY <1>0, <2>1, ChildWithin
  <2>. QED  BY <1>0, <1>2, <1>3, <2>2, BeforeFacts
<1>6. k = Other(i)
  BY <1>5, DirFacts
<1>7. Within(D, B, n, D[b])
  <2>1. CASE n = b
    BY <2>1, <1>0 DEF Ordered
  <2>2. CASE Before(k, D[b], D[n])
    <3>1. Within(D, B, n, D[c]) /\ Within(D, B, n, D[n])
      BY <1>0, ChildWithin DEF Ordered
    <3>. SUFFICES ASSUME NEW l \in Dirs, B[n][l] # NULL
                  PROVE  Before(l, D[b], D[B[n][l]])
      BY DEF Within
    <3>2. D[B[n][l]] \in Int /\ Before(l, D[n], D[B[n][l]]) /\ Before(l, D[c], D[B[n][l]])
      BY <1>0, <3>1, TreeTypes DEF Within
    <3>. QED  BY <3>2, <2>2, <1>0, <1>3, DirFacts DEF Before
  <2>. QED  BY <2>1, <2>2, <1>4
<1>8. Within(D, B, n, D[x])
  BY <1>0, <1>3, <1>7 DEF Ordered
<1>9. CASE x = n
  BY <1>9, <1>0, <1>2 DEF Ordered, Within
<1>10. CASE x # n
  <2>1. Before(k, D[x], D[b])
    BY <1>0, <1>2 DEF Ordered, Within
  \* x is on the side of c.
  <2>2. Within(D, B, c, D[x])
    <3>1. CASE Before(i, D[n], D[x])
      BY <3>1, <1>0, <1>8, ChildWithin
    <3>2. CASE ~Before(i, D[n], D[x])
      <4>1. Before(k, D[n], D[x])
        BY <3>2, <1>0, <1>6, <1>10, BeforeFacts DEF Typed
      <4>2. L[n][k] # NULL /\ Within(D, B, L[n][k], D[x])
        BY <4>1, <1>0, <1>8, ChildWithin DEF Complete, Tree
      <4>3. L[n][k] \in A
        BY <4>2, <1>0, TreeTypes
      <4>4. Within(D, B, L[n][k], D[c])
        BY <4>2, <4>3, <1>0 DEF Ordered
      <4>5. Before(k, D[n], D[c])
        BY <4>2, <4>4, <1>0, ChildWithin
      <4>6. Before(i, D[n], D[c])
        BY <1>0, ChildWithin DEF Ordered
      <4>. QED  BY <4>5, <4>6, <1>0, <1>6, BeforeFacts
    <3>. QED  BY <3>1, <3>2
  <2>. QED  BY <2>2, <1>0, Antisymmetric
<1>. QED  BY <1>9, <1>10

\* What lies below m lies below the nodes above m, also if it is not in the tree.
LEMMA Nested ==
  ASSUME NEW L, NEW D, NEW A, NEW B, Tree(L, D, A, B),
         NEW n \in A, NEW m \in A, Within(D, B, n, D[m]),
         NEW z \in Int, Within(D, B, m, z)
  PROVE  Within(D, B, n, z)
<1>0. Typed(L, D, A, B) /\ Ordered(D, A, B) /\ D[n] \in Int /\ D[m] \in Int
  BY TreeTypes DEF Tree
<1>. SUFFICES ASSUME NEW i \in Dirs, B[n][i] # NULL, ~Before(i, z, D[B[n][i]])
              PROVE  FALSE
  BY DEF Within
<1>. DEFINE b == B[n][i]
<1>1. b \in A /\ D[b] \in Int /\ Before(i, D[m], D[b])
  BY <1>0, TreeTypes DEF Within
<1>2. ~Within(D, B, m, D[b])
  <2>1. ~Within(D, B, n, D[b])
    BY <1>1, BeforeFacts DEF Within
  <2>. QED  BY <2>1, <1>0, <1>1 DEF Ordered
<1>3. PICK j \in Dirs : B[m][j] # NULL /\ ~Before(j, D[b], D[B[m][j]])
  BY <1>2 DEF Within
<1>4. D[B[m][j]] \in Int /\ Before(j, D[m], D[B[m][j]]) /\ Before(j, z, D[B[m][j]])
  BY <1>0, <1>3, TreeTypes DEF Within, Ordered
<1>. QED  BY <1>0, <1>1, <1>3, <1>4, DirFacts DEF Before

\* Of two nodes between whose bounds a datum lies, one is below the other.
LEMMA Chained ==
  ASSUME NEW L, NEW D, NEW A, NEW B, Tree(L, D, A, B),
         NEW n \in A, NEW m \in A, NEW z \in Int,
         Within(D, B, n, z), Within(D, B, m, z)
  PROVE  Within(D, B, n, D[m]) \/ Within(D, B, m, D[n])
<1>0. Typed(L, D, A, B) /\ Ordered(D, A, B) /\ D[n] \in Int /\ D[m] \in Int
  BY TreeTypes DEF Tree
<1>. SUFFICES ASSUME ~Within(D, B, n, D[m]), ~Within(D, B, m, D[n])
              PROVE  FALSE
  OBVIOUS
<1>1. PICK i \in Dirs : B[n][i] # NULL /\ ~Before(i, D[m], D[B[n][i]])
  BY DEF Within
<1>2. PICK j \in Dirs : B[m][j] # NULL /\ ~Before(j, D[n], D[B[m][j]])
  BY DEF Within
<1>. DEFINE b == B[n][i]
            c == B[m][j]
<1>3. /\ b \in A /\ D[b] \in Int /\ Before(i, z, D[b]) /\ Before(i, D[n], D[b])
      /\ Within(D, B, b, D[n])
  BY <1>0, <1>1, TreeTypes DEF Within, Ordered
<1>4. /\ c \in A /\ D[c] \in Int /\ Before(j, z, D[c]) /\ Before(j, D[m], D[c])
  BY <1>0, <1>2, TreeTypes DEF Within, Ordered
<1>5. Within(D, B, m, D[b])
  <2>. SUFFICES ASSUME NEW k \in Dirs, B[m][k] # NULL
                PROVE  Before(k, D[b], D[B[m][k]])
    BY DEF Within
  <2>1. /\ D[B[m][k]] \in Int /\ Before(k, z, D[B[m][k]]) /\ Before(k, D[m], D[B[m][k]])
    BY <1>0, TreeTypes DEF Within, Ordered
  <2>. QED  BY <2>1, <1>0, <1>1, <1>3, DirFacts DEF Before
<1>. QED  BY <1>0, <1>3, <1>5 DEF Ordered
-----------------------------------------------------------------------------
\* A new leaf n.
IsLeaf(L, L2, A, p, dir, n) ==
  /\ L2 \in [Nodes \cup {HEAD} -> [Dirs -> MaybeNode]]
  /\ p \in A /\ dir \in Dirs /\ L[p][dir] = NULL /\ n \in Nodes \ A
  /\ \A i \in Dirs : L2[n][i] = NULL
  /\ L2[p][dir] = n
  /\ \A m \in A \cup {HEAD}, i \in Dirs : ~(m = p /\ i = dir) => L2[m][i] = L[m][i]

BoundsGrown(B, p, dir, n) ==
  [B EXCEPT ![n] = [i \in Dirs |-> IF i = dir THEN B[p][dir] ELSE p]]

LEMMA LeafTree ==
  ASSUME NEW L, NEW D, NEW A, NEW B, Tree(L, D, A, B),
         NEW L2, NEW p, NEW dir, NEW n, IsLeaf(L, L2, A, p, dir, n),
         NEW d \in Data, Within(D, B, p, d), Before(dir, D[p], d),
         NEW D2, D2 = [D EXCEPT ![n] = d]
  PROVE  Tree(L2, D2, A \cup {n}, BoundsGrown(B, p, dir, n))
<1>. /\ L2 \in [Nodes \cup {HEAD} -> [Dirs -> MaybeNode]]
     /\ p \in A /\ dir \in Dirs /\ L[p][dir] = NULL /\ n \in Nodes \ A
     /\ \A i \in Dirs : L2[n][i] = NULL
     /\ L2[p][dir] = n /\ L2[p][Other(dir)] = L[p][Other(dir)]
     /\ \A m \in (A \cup {HEAD}) \ {p}, i \in Dirs : L2[m][i] = L[m][i]
  BY DirFacts DEF IsLeaf
<1>. DEFINE B2 == BoundsGrown(B, p, dir, n)
            A2 == A \cup {n}
<1>0. /\ Typed(L, D, A, B) /\ TopOf(L, A, B) /\ Bounded(L, A, B) /\ Unshared(L, A)
      /\ Ordered(D, A, B) /\ Complete(L, D, A, B)
      /\ d \in Int /\ p # n /\ p # HEAD /\ p # NULL /\ n # HEAD /\ n # NULL
  BY TreeTypes, RBTreeAssumption DEF Tree
<1>1. /\ D2 \in [Nodes -> Data \cup {NULL}] /\ D2[n] = d
      /\ \A m \in A : D2[m] = D[m] /\ m # n
      /\ B2[n][dir] = B[p][dir] /\ B2[n][Other(dir)] = p
      /\ \A m \in A : B2[m] = B[m]
  BY <1>0, DirFacts DEF Typed, BoundsGrown
<1>2. B2 \in [Nodes -> [Dirs -> MaybeNode]]
  BY <1>0 DEF Typed, MaybeNode, BoundsGrown
\* Only p and the nodes above have d between their bounds.
<1>3. \A m \in A, z \in Int : Within(D2, B2, m, z) <=> Within(D, B, m, z)
  <2>. TAKE m \in A, z \in Int
  <2>1. B2[m] = B[m] /\ \A i \in Dirs : B[m][i] # NULL => D2[B[m][i]] = D[B[m][i]]
    BY <1>0, <1>1, TreeTypes
  <2>. QED  BY <2>1 DEF Within
<1>4. ASSUME NEW z \in Int
      PROVE  Within(D2, B2, n, z) <=> Within(D, B, p, z) /\ Before(dir, D[p], z)
  <2>1. D[p] \in Int /\ (B[p][dir] # NULL => B[p][dir] \in A)
    BY <1>0, TreeTypes
  <2>2. Within(D2, B2, n, z) <=>
          /\ B[p][dir] # NULL => Before(dir, z, D[B[p][dir]])
          /\ Before(Other(dir), z, D[p])
    BY <2>1, <1>0, <1>1, DirFacts DEF Within
  <2>3. Before(Other(dir), z, D[p]) <=> Before(dir, D[p], z)
    BY <2>1, BeforeFacts
  <2>4. ASSUME Before(dir, D[p], z), B[p][Other(dir)] # NULL
        PROVE  Before(Other(dir), z, D[B[p][Other(dir)]])
    <3>1. /\ D[B[p][Other(dir)]] \in Int
          /\ Before(Other(dir), D[p], D[B[p][Other(dir)]])
      BY <1>0, <2>4, TreeTypes, DirFacts DEF Within, Ordered
    <3>. QED  BY <3>1, <2>1, <2>4, DirFacts DEF Before, Other
  <2>5. Within(D, B, p, z) <=>
          /\ B[p][dir] # NULL => Before(dir, z, D[B[p][dir]])
          /\ B[p][Other(dir)] # NULL => Before(Other(dir), z, D[B[p][Other(dir)]])
    BY DirFacts DEF Within
  <2>. QED  BY <2>2, <2>3, <2>4, <2>5
\* Nothing lay there before.
<1>5. \A m \in A : ~(Within(D, B, p, D[m]) /\ Before(dir, D[p], D[m])) /\ D[m] # d
  BY <1>0 DEF Complete
<1>6. \A m \in A : Within(D, B, m, d) /\ m # p => Within(D, B, m, D[p])
  <2>. SUFFICES ASSUME NEW m \in A, Within(D, B, m, d), m # p, ~Within(D, B, m, D[p])
                PROVE  FALSE
    OBVIOUS
  <2>1. Within(D, B, p, D[m])
    BY <1>0, Chained
  <2>2. PICK i \in Dirs : /\ L[p][i] \in A
                          /\ Before(i, D[p], D[m])
                          /\ Within(D, B, L[p][i], D[m])
    BY <2>1, Down
  <2>3. L[p][i] # NULL /\ i # dir
    BY <2>2, <1>0, TreeTypes
  <2>4. Within(D, B, L[p][i], d)
    BY <2>2, <1>0, Nested
  <2>5. Before(i, D[p], d)
    BY <2>3, <2>4, <1>0, ChildWithin
  <2>. QED  BY <2>3, <2>5, <1>0, DirFacts, TreeTypes, BeforeFacts
<1>7. Typed(L2, D2, A2, B2)
  <2>1. \A m, k \in A2 : D2[m] = D2[k] => m = k
    BY <1>0, <1>1, <1>5 DEF Typed
  <2>2. ASSUME NEW m \in A2 \cup {HEAD}, NEW i \in Dirs PROVE L2[m][i] \in A2 \cup {NULL}
    <3>1. m = n \/ (m = p /\ (i = dir \/ i = Other(dir))) \/ m \in (A \cup {HEAD}) \ {p}
      BY DirFacts
    <3>2. \A k \in A \cup {HEAD}, j \in Dirs : L[k][j] \in A \cup {NULL}
      BY <1>0 DEF Typed
    <3>. QED  BY <3>1, <3>2, DirFacts
  <2>3. \A m \in A2, i \in Dirs : B2[m][i] \in A2 \cup {NULL}
    BY <1>0, <1>1, DirFacts DEF Typed
  <2>4. A2 \subseteq Nodes /\ \A m \in A2 : D2[m] \in Data
    BY <1>0, <1>1 DEF Typed
  <2>. QED  BY <2>1, <2>2, <2>3, <2>4, <1>1, <1>2 DEF Typed
<1>8. TopOf(L2, A2, B2)
  <2>1. \A i \in Dirs : L2[HEAD][i] = L[HEAD][i]
    BY <1>0
  <2>2. L[HEAD][1] # NULL /\ L[HEAD][1] \in A
    BY <1>0, TreeTypes DEF TopOf, Dirs
  <2>. QED  BY <2>1, <2>2, <1>0, <1>1 DEF TopOf, Dirs
<1>9. Bounded(L2, A2, B2)
  <2>. SUFFICES ASSUME NEW m \in A2, NEW i \in Dirs, L2[m][i] # NULL
                PROVE  B2[L2[m][i]][i] = B2[m][i] /\ B2[L2[m][i]][Other(i)] = m
    BY DEF Bounded
  <2>1. CASE m = n
    BY <2>1
  <2>2. CASE m = p /\ i = dir
    BY <2>2, <1>1
  <2>3. CASE m # n /\ ~(m = p /\ i = dir)
    <3>1. m \in A /\ L2[m][i] = L[m][i] /\ L[m][i] \in A
      BY <2>3, <1>0, DirFacts, TreeTypes
    <3>. QED  BY <3>1, <1>0, <1>1 DEF Bounded
  <2>. QED  BY <2>1, <2>2, <2>3
<1>10. Unshared(L2, A2)
  <2>. SUFFICES ASSUME NEW m \in A2 \cup {HEAD}, NEW k \in A2 \cup {HEAD},
                       NEW i \in Dirs, NEW j \in Dirs,
                       L2[m][i] = L2[k][j], L2[m][i] # NULL
                PROVE  m = k /\ i = j
    BY DEF Unshared
  <2>1. m # n /\ k # n
    OBVIOUS
  <2>2. \A x \in A \cup {HEAD}, l \in Dirs : L[x][l] # n
    BY <1>0, TreeTypes
  <2>3. \A x \in A \cup {HEAD}, l \in Dirs : ~(x = p /\ l = dir) => L2[x][l] = L[x][l]
    BY <1>0, DirFacts
  <2>. QED  BY <2>1, <2>2, <2>3, <1>0 DEF Unshared
<1>11. Ordered(D2, A2, B2)
  <2>1. \A m \in A : Within(D2, B2, m, D2[n]) <=> m = p \/ (Within(D, B, m, D[p]) /\ Within(D, B, m, d))
    BY <1>0, <1>1, <1>3, <1>6
  <2>2. \A m \in A : ~Within(D2, B2, n, D2[m]) 
    BY <1>0, <1>1, <1>4, <1>5, TreeTypes
  <2>3. \A m, k \in A : Within(D2, B2, m, D2[k]) <=> Within(D, B, m, D[k])
    BY <1>0, <1>1, <1>3, TreeTypes
  <2>4. Within(D2, B2, n, D2[n])
    BY <1>0, <1>1, <1>4
  <2>5. \A m \in A2 : Within(D2, B2, m, D2[m])
    BY <2>3, <2>4, <1>0 DEF Ordered
  <2>6. ASSUME NEW m \in A2, NEW i \in Dirs, B2[m][i] # NULL
        PROVE  Within(D2, B2, B2[m][i], D2[m])
    <3>1. CASE m # n
      <4>1. m \in A /\ B2[m][i] = B[m][i] /\ B[m][i] \in A
        BY <3>1, <2>6, <1>0, <1>1, TreeTypes
      <4>2. Within(D, B, B[m][i], D[m])
        BY <4>1, <2>6, <1>0 DEF Ordered
      <4>. QED  BY <4>1, <4>2, <2>3
    <3>2. CASE m = n /\ i = Other(dir)
      BY <3>2, <1>1, <2>1
    <3>3. CASE m = n /\ i = dir
      <4>1. B2[m][i] = B[p][dir] /\ B[p][dir] \in A /\ Within(D, B, B[p][dir], D[p])
        BY <3>3, <2>6, <1>0, <1>1, TreeTypes DEF Ordered
      <4>2. Within(D, B, B[p][dir], d)
        BY <4>1, <1>0, Nested
      <4>. QED  BY <4>1, <4>2, <2>1, <3>3
    <3>. QED  BY <3>1, <3>2, <3>3, DirFacts
  <2>7. ASSUME NEW m \in A2, NEW k \in A2, NEW l \in A2,
               Within(D2, B2, m, D2[k]), Within(D2, B2, k, D2[l])
        PROVE  Within(D2, B2, m, D2[l])
    <3>1. CASE m = n
      <4>1. k = n
        BY <3>1, <2>2, <2>7
      <4>2. l = n
        BY <4>1, <2>2, <2>7
      <4>. QED  BY <3>1, <4>2, <2>4
    <3>2. CASE m \in A /\ k = n
      <4>1. l = n
        BY <3>2, <2>2, <2>7
      <4>. QED  BY <4>1, <3>2, <2>7
    <3>3. CASE m \in A /\ k \in A /\ l = n
      <4>1. Within(D, B, m, D[k]) /\ Within(D, B, k, d)
        BY <3>3, <2>1, <2>3, <2>7
      <4>2. Within(D, B, m, d)
        BY <4>1, <3>3, <1>0, Nested
      <4>. QED  BY <4>2, <3>3, <1>1, <1>3, <1>0
    <3>4. CASE m \in A /\ k \in A /\ l \in A
      BY <3>4, <2>3, <2>7, <1>0 DEF Ordered
    <3>. QED  BY <3>1, <3>2, <3>3, <3>4
  <2>. QED  BY <2>5, <2>6, <2>7 DEF Ordered
<1>12. Complete(L2, D2, A2, B2)
  <2>. SUFFICES ASSUME NEW m \in A2, NEW k \in A2, NEW i \in Dirs,
                       Within(D2, B2, m, D2[k]), Before(i, D2[m], D2[k])
                PROVE  L2[m][i] # NULL
    BY DEF Complete
  <2>1. CASE m = n
    <3>1. k = n
      BY <2>1, <1>0, <1>1, <1>4, <1>5, TreeTypes
    <3>. QED  BY <3>1, <2>1, <1>0, <1>1, BeforeFacts
  <2>2. CASE m \in A /\ k \in A
    <3>0. D[k] \in Int /\ D2[k] = D[k] /\ D2[m] = D[m]
      BY <2>2, <1>0, <1>1, TreeTypes
    <3>1a. Within(D, B, m, D[k]) /\ Before(i, D[m], D[k])
      BY <3>0, <2>2, <1>3
    <3>1. L[m][i] # NULL
      BY <3>1a, <2>2, <1>0 DEF Complete
    <3>. QED  BY <3>1, <2>2, <1>0, DirFacts
  <2>3. CASE m = p /\ k = n
    <3>1. i = dir
      BY <2>3, <1>0, <1>1, DirFacts, TreeTypes, BeforeFacts
    <3>. QED  BY <3>1, <2>3, <1>0
  <2>4. CASE m \in A /\ m # p /\ k = n
    <3>1. Within(D, B, m, d) /\ Within(D, B, m, D[p])
      BY <2>4, <1>0, <1>1, <1>3, <1>6
    <3>2. PICK j \in Dirs : /\ L[m][j] \in A
                            /\ Before(j, D[m], D[p])
                            /\ Within(D, B, L[m][j], D[p])
      BY <3>1, <2>4, Down
    <3>3. Within(D, B, L[m][j], d)
      BY <3>2, <1>0, Nested
    <3>4. L[m][j] # NULL
      BY <3>2, <1>0, TreeTypes
    <3>5. Before(j, D[m], d)
      BY <3>3, <3>4, <2>4, <1>0, ChildWithin
    <3>6. i = j
      BY <3>5, <2>4, <1>0, <1>1, DirFacts, TreeTypes, BeforeFacts
    <3>. QED  BY <3>4, <3>6, <2>4, <1>0
  <2>. QED  BY <2>1, <2>2, <2>3, <2>4
<1>. QED  BY <1>7, <1>8, <1>9, <1>10, <1>11, <1>12 DEF Tree
-----------------------------------------------------------------------------
\* A rotation: s, the child of n on the side that is not dir, takes the place of n.
IsRotation(L, L2, A, n, dir, s, above, at) ==
  /\ L2 \in [Nodes \cup {HEAD} -> [Dirs -> MaybeNode]]
  /\ n \in A /\ dir \in Dirs /\ s = L[n][Other(dir)] /\ s # NULL
  /\ above \in A \cup {HEAD} /\ at \in Dirs /\ L[above][at] = n
  /\ \A m \in A \cup {HEAD}, i \in Dirs :
       L2[m][i] = IF m = n /\ i = Other(dir) THEN L[s][dir]
                  ELSE IF m = s /\ i = dir THEN n
                  ELSE IF m = above /\ i = at THEN s
                  ELSE L[m][i]

BoundsRotated(B, n, dir, s) == [B EXCEPT ![s] = B[n], ![n] = [i \in Dirs |-> IF i = dir THEN B[n][dir] ELSE s]]

LEMMA RotationWithin ==
  ASSUME NEW L, NEW D, NEW A, NEW B, Tree(L, D, A, B),
         NEW n \in A, NEW dir \in Dirs, L[n][Other(dir)] # NULL
  PROVE  LET s == L[n][Other(dir)]
             B2 == BoundsRotated(B, n, dir, s)
         IN  /\ s \in A /\ s # n /\ Before(dir, D[s], D[n]) 
             /\ B2 \in [Nodes -> [Dirs -> MaybeNode]]
             /\ B2[s] = B[n]
             /\ B2[n][dir] = B[n][dir] /\ B2[n][Other(dir)] = s
             /\ \A m \in Nodes \ {n, s} : B2[m] = B[m]
             /\ \A m \in A \ {n, s}, z \in Int : Within(D, B2, m, z) <=> Within(D, B, m, z)
             /\ \A z \in Int : Within(D, B2, s, z) <=> Within(D, B, n, z)
             /\ \A z \in Int : Within(D, B2, n, z) <=> Within(D, B, n, z) /\ Before(dir, D[s], z)
<1>. DEFINE s == L[n][Other(dir)]
            B2 == BoundsRotated(B, n, dir, s)
<1>0. /\ Typed(L, D, A, B) /\ Bounded(L, A, B) /\ Ordered(D, A, B)
      /\ s \in A /\ D[n] \in Int /\ D[s] \in Int /\ n \in Nodes /\ s \in Nodes
      /\ Other(dir) \in Dirs /\ Other(Other(dir)) = dir /\ dir # Other(dir)
  BY TreeTypes, DirFacts DEF Tree
<1>1. /\ Within(D, B, n, D[s]) /\ Before(Other(dir), D[n], D[s])
  BY <1>0, ChildWithin DEF Ordered
<1>2. s # n /\ Before(dir, D[s], D[n])
  BY <1>0, <1>1, BeforeFacts
<1>3. /\ B2 \in [Nodes -> [Dirs -> MaybeNode]]
      /\ B2[s] = B[n]
      /\ B2[n][dir] = B[n][dir] /\ B2[n][Other(dir)] = s
      /\ \A m \in Nodes \ {n, s} : B2[m] = B[m]
  BY <1>0, <1>2 DEF BoundsRotated, Typed, MaybeNode
<1>4. \A m \in A \ {n, s}, z \in Int : Within(D, B2, m, z) <=> Within(D, B, m, z)
  BY <1>0, <1>3, TreeTypes DEF Within
<1>5. \A z \in Int : Within(D, B2, s, z) <=> Within(D, B, n, z)
  BY <1>3 DEF Within
<1>6. ASSUME NEW z \in Int
      PROVE  Within(D, B2, n, z) <=> Within(D, B, n, z) /\ Before(dir, D[s], z)
  <2>. DEFINE b == B[n][Other(dir)]
  <2>1. s # NULL
    OBVIOUS
  <2>2. Within(D, B2, n, z) <=>
          /\ B[n][dir] # NULL => Before(dir, z, D[B[n][dir]])
          /\ Before(Other(dir), z, D[s])
    BY <2>1, <1>3, <1>0, DirFacts DEF Within
  <2>3. Before(Other(dir), z, D[s]) <=> Before(dir, D[s], z)
    BY <1>0, BeforeFacts
  <2>4. Within(D, B, n, z) <=>
          /\ B[n][dir] # NULL => Before(dir, z, D[B[n][dir]])
          /\ b # NULL => Before(Other(dir), z, D[b])
    BY <1>0, DirFacts DEF Within
  <2>5. ASSUME b # NULL, Before(Other(dir), z, D[s])
        PROVE  Before(Other(dir), z, D[b])
    <3>1. D[b] \in Int /\ Before(Other(dir), D[s], D[b])
      BY <2>5, <1>0, <1>1, TreeTypes DEF Within
    <3>. QED  BY <3>1, <2>5, <1>0, BeforeFacts
  <2>. QED  BY <2>2, <2>3, <2>4, <2>5
<1>. QED  BY <1>0, <1>2, <1>3, <1>4, <1>5, <1>6

\* n and s have one parent each, and are not their own.
LEMMA RotationAlone ==
  ASSUME NEW L, NEW D, NEW A, NEW B, Tree(L, D, A, B),
         NEW L2, NEW n, NEW dir, NEW s, NEW above, NEW at,
         IsRotation(L, L2, A, n, dir, s, above, at)
  PROVE  /\ n \in A /\ s \in A /\ n # s /\ above # n /\ above # s
         /\ \A m \in A \cup {HEAD}, i \in Dirs :
              /\ L[m][i] = n => m = above /\ i = at
              /\ L[m][i] = s => m = n /\ i = Other(dir)
<1>0. Typed(L, D, A, B) /\ Unshared(L, A) /\ Ordered(D, A, B)
  BY DEF Tree
<1>1. /\ n \in A /\ dir \in Dirs /\ s = L[n][Other(dir)] /\ s # NULL
      /\ above \in A \cup {HEAD} /\ at \in Dirs /\ L[above][at] = n
      /\ Other(dir) \in Dirs
  BY DirFacts DEF IsRotation
<1>2. s \in A /\ s # n
  BY <1>1, RotationWithin
<1>3. NULL \notin A /\ HEAD \notin A /\ \A m \in A : D[m] \in Int
  BY <1>0, TreeTypes
<1>4. Within(D, B, n, D[n]) /\ Within(D, B, s, D[s]) /\ Within(D, B, n, D[s])
  BY <1>0, <1>1, <1>2, <1>3, ChildWithin DEF Ordered
<1>5. ASSUME above \in A PROVE Before(at, D[above], D[n]) /\ Within(D, B, above, D[n])
  BY <1>4, <1>5, <1>1, <1>3, ChildWithin
<1>6. above # n
  BY <1>5, <1>1, <1>3, BeforeFacts
<1>7. above # s
  BY <1>4, <1>5, <1>1, <1>2, Antisymmetric
<1>8. \A m, k \in A \cup {HEAD}, i, l \in Dirs :
        L[m][i] = L[k][l] /\ L[m][i] # NULL => m = k /\ i = l
  BY <1>0 DEF Unshared
<1>. QED  BY <1>1, <1>2, <1>3, <1>6, <1>7, <1>8

LEMMA RotationTree ==
  ASSUME NEW L, NEW D, NEW A, NEW B, Tree(L, D, A, B),
         NEW L2, NEW n, NEW dir, NEW s, NEW above, NEW at,
         IsRotation(L, L2, A, n, dir, s, above, at)
  PROVE  Tree(L2, D, A, BoundsRotated(B, n, dir, s))
<1>. DEFINE B2 == BoundsRotated(B, n, dir, s)
            j == Other(dir)
<1>0. /\ Typed(L, D, A, B) /\ TopOf(L, A, B) /\ Bounded(L, A, B) /\ Unshared(L, A)
      /\ Ordered(D, A, B) /\ Complete(L, D, A, B)
  BY DEF Tree
<1>1. /\ L2 \in [Nodes \cup {HEAD} -> [Dirs -> MaybeNode]]
      /\ n \in A /\ dir \in Dirs /\ s = L[n][j] /\ s # NULL
      /\ above \in A \cup {HEAD} /\ at \in Dirs /\ L[above][at] = n
      /\ j \in Dirs /\ Other(j) = dir /\ j # dir
  BY DirFacts DEF IsRotation
<1>2. \A m \in A \cup {HEAD}, i \in Dirs :
       L2[m][i] = IF m = n /\ i = j THEN L[s][dir]
                  ELSE IF m = s /\ i = dir THEN n
                  ELSE IF m = above /\ i = at THEN s
                  ELSE L[m][i]
  BY DEF IsRotation
<1>3. /\ s \in A /\ s # n /\ Before(dir, D[s], D[n]) 
      /\ B2 \in [Nodes -> [Dirs -> MaybeNode]]
      /\ B2[s] = B[n]
      /\ B2[n][dir] = B[n][dir] /\ B2[n][j] = s
      /\ \A m \in Nodes \ {n, s} : B2[m] = B[m]
  BY <1>1, RotationWithin
<1>4. /\ \A m \in A \ {n, s}, z \in Int : Within(D, B2, m, z) <=> Within(D, B, m, z)
      /\ \A z \in Int : Within(D, B2, s, z) <=> Within(D, B, n, z)
      /\ \A z \in Int : Within(D, B2, n, z) <=> Within(D, B, n, z) /\ Before(dir, D[s], z)
  BY <1>1, RotationWithin
<1>5. /\ A \subseteq Nodes /\ NULL \notin A /\ HEAD \notin A /\ \A m \in A : D[m] \in Int
      /\ \A m \in A \cup {HEAD}, i \in Dirs : L[m][i] # NULL => L[m][i] \in A
      /\ \A m \in A, i \in Dirs : B[m][i] # NULL => B[m][i] \in A
  BY <1>0, TreeTypes
<1>6. above # n /\ above # s
  BY RotationAlone
<1>7. \A m \in A \cup {HEAD}, i \in Dirs :
        /\ L[m][i] = n => m = above /\ i = at
        /\ L[m][i] = s => m = n /\ i = j
  BY RotationAlone
<1>8. L[s][dir] # n /\ L[s][dir] # s
  BY <1>3, <1>6, <1>7, <1>1
<1>9. Typed(L2, D, A, B2)
  <2>1. \A m \in A \cup {HEAD}, i \in Dirs : L2[m][i] \in A \cup {NULL}
    BY <1>1, <1>2, <1>3, <1>5
  <2>2. ASSUME NEW m \in A, NEW i \in Dirs
        PROVE  B2[m][i] \in A \cup {NULL}
    <3>1. B[m][i] \in A \cup {NULL} /\ B[n][i] \in A \cup {NULL}
      BY <1>1, <1>5
    <3>. QED  BY <3>1, <1>1, <1>3, <1>5, DirFacts
  <2>. QED  BY <2>1, <2>2, <1>0, <1>1, <1>3 DEF Typed
<1>10. TopOf(L2, A, B2)
  <2>1. /\ L2[HEAD][0] = IF HEAD = above /\ 0 = at THEN s ELSE L[HEAD][0]
        /\ L2[HEAD][1] = IF HEAD = above /\ 1 = at THEN s ELSE L[HEAD][1]
    BY <1>1, <1>2, <1>3, <1>5 DEF Dirs
  <2>2. CASE above = HEAD
    <3>1. at = 1
      BY <2>2, <1>0, <1>1, <1>5 DEF TopOf, Dirs
    <3>. QED  BY <2>1, <2>2, <3>1, <1>0, <1>1, <1>3 DEF TopOf
  <2>3. CASE above # HEAD
    <3>1. L[HEAD][1] # n /\ L[HEAD][1] # s
      BY <2>3, <1>1, <1>5, <1>7 DEF Dirs
    <3>. QED  BY <2>1, <2>3, <3>1, <1>0, <1>1, <1>3, <1>5 DEF TopOf, Dirs
  <2>. QED  BY <2>2, <2>3
<1>11. Bounded(L2, A, B2)
  <2>. SUFFICES ASSUME NEW m \in A, NEW i \in Dirs, L2[m][i] # NULL
                PROVE  B2[L2[m][i]][i] = B2[m][i] /\ B2[L2[m][i]][Other(i)] = m
    BY DEF Bounded
  <2>1. CASE m = n /\ i = j
    <3>1. L2[m][i] = L[s][dir] /\ L[s][dir] \in A
      BY <2>1, <1>2, <1>3, <1>5, <1>1
    <3>2. B[L[s][dir]][dir] = B[s][dir] /\ B[L[s][dir]][j] = s
      BY <3>1, <1>0, <1>1, <1>3 DEF Bounded
    <3>3. B[s][dir] = n
      BY <1>0, <1>1 DEF Bounded
    <3>. QED  BY <2>1, <3>1, <3>2, <3>3, <1>1, <1>3, <1>5, <1>8
  <2>2. CASE m = s /\ i = dir
    BY <2>2, <1>1, <1>2, <1>3
  <2>3. CASE m = above /\ i = at
    <3>1. L2[m][i] = s /\ B[n][i] = B[m][i] /\ B[n][Other(i)] = m
      BY <2>3, <1>0, <1>1, <1>2, <1>5, <1>6 DEF Bounded
    <3>. QED  BY <2>3, <3>1, <1>3, <1>5, <1>6
  <2>4. CASE ~(m = n /\ i = j) /\ ~(m = s /\ i = dir) /\ ~(m = above /\ i = at)
    <3>1. L2[m][i] = L[m][i] /\ L[m][i] \in A /\ L[m][i] # n /\ L[m][i] # s
      BY <2>4, <1>2, <1>5, <1>7
    <3>2. B[L[m][i]][i] = B[m][i] /\ B[L[m][i]][Other(i)] = m
      BY <3>1, <1>0, <1>5 DEF Bounded
    <3>3. CASE m # s
      <4>1. B2[m][i] = B[m][i]
        BY <3>3, <2>4, <1>1, <1>3, <1>5, DirFacts
      <4>. QED  BY <3>1, <3>2, <4>1, <1>3, <1>5
    <3>4. CASE m = s
      <4>1. i = j
        BY <3>4, <2>4, <1>1, DirFacts
      <4>2. B[s][j] = B[n][j]
        BY <1>0, <1>1 DEF Bounded
      <4>. QED  BY <3>1, <3>2, <3>4, <4>1, <4>2, <1>3, <1>5
    <3>. QED  BY <3>3, <3>4
  <2>. QED  BY <2>1, <2>2, <2>3, <2>4
<1>12. Unshared(L2, A)
  <2>. SUFFICES ASSUME NEW m \in A \cup {HEAD}, NEW k \in A \cup {HEAD},
                       NEW i \in Dirs, NEW l \in Dirs,
                       L2[m][i] = L2[k][l], L2[m][i] # NULL
                PROVE  m = k /\ i = l
    BY DEF Unshared
  <2>. DEFINE From(x, o) == /\ L2[x][o] = n => x = s /\ o = dir
                            /\ L2[x][o] = s => x = above /\ o = at
                            /\ L2[x][o] = L[s][dir] /\ L[s][dir] # NULL => x = n /\ o = j
  <2>1. ASSUME NEW x \in A \cup {HEAD}, NEW o \in Dirs
        PROVE  From(x, o)
    <3>1. L[x][o] = L[s][dir] /\ L[s][dir] # NULL => x = s /\ o = dir
      BY <1>0, <1>1, <1>3 DEF Unshared
    <3>. QED  BY <3>1, <1>1, <1>2, <1>3, <1>6, <1>7, <1>8
  <2>2. From(m, i) /\ From(k, l)
    BY <2>1
  <2>3. CASE L2[m][i] \in {n, s, L[s][dir]}
    BY <2>2, <2>3
  <2>4. CASE L2[m][i] \notin {n, s, L[s][dir]}
    <3>1. L2[m][i] = L[m][i] /\ L2[k][l] = L[k][l]
      BY <2>4, <1>2
    <3>2. L[m][i] = L[k][l] /\ L[m][i] # NULL
      BY <3>1
    <3>3. \A x, y \in A \cup {HEAD}, o, r \in Dirs :
            L[x][o] = L[y][r] /\ L[x][o] # NULL => x = y /\ o = r
      BY <1>0 DEF Unshared
    <3>. QED  BY <3>2, <3>3
  <2>. QED  BY <2>3, <2>4
<1>13. Ordered(D, A, B2)
  <2>0. /\ Within(D, B, n, D[n]) /\ Within(D, B, s, D[s]) /\ Within(D, B, n, D[s])
        /\ \A z \in Int : Within(D, B, s, z) <=> Within(D, B, n, z) /\ Before(j, D[n], z)
    BY <1>0, <1>1, <1>3, <1>5, ChildWithin DEF Ordered
  \* What is below n but not beyond s stays so for all that is below it.
  <2>1. ASSUME NEW m \in A \ {n, s}, Within(D, B, n, D[m]), Before(dir, D[s], D[m]),
               NEW z \in Int, Within(D, B, m, z)
        PROVE  Within(D, B, n, z) /\ Before(dir, D[s], z)
    <3>1. Within(D, B, n, z)
      BY <2>1, <1>1, Nested
    <3>2. PICK i \in Dirs : /\ L[n][i] \in A
                            /\ Before(i, D[n], D[m])
                            /\ Within(D, B, L[n][i], D[m])
      BY <2>1, <1>1, Down
    <3>3. CASE i = dir
      <4>1. Within(D, B, L[n][i], z)
        BY <2>1, <3>2, Nested
      <4>2. Before(dir, D[n], z)
        BY <3>2, <3>3, <4>1, <1>1, <1>5, ChildWithin
      <4>. QED  BY <3>1, <4>2, <1>1, <1>3, <1>5, BeforeFacts
    <3>4. CASE i = j
      <4>1. Within(D, B, s, D[m])
        BY <3>2, <3>4, <1>1
      <4>2. PICK l \in Dirs : /\ L[s][l] \in A
                              /\ Before(l, D[s], D[m])
                              /\ Within(D, B, L[s][l], D[m])
        BY <4>1, <2>1, <1>3, Down
      <4>3. l = dir
        BY <4>2, <2>1, <1>1, <1>3, <1>5, DirFacts, BeforeFacts
      <4>4. Within(D, B, L[s][l], z)
        BY <4>2, <2>1, Nested
      <4>5. Before(dir, D[s], z)
        BY <4>2, <4>3, <4>4, <1>1, <1>3, <1>5, ChildWithin
      <4>. QED  BY <3>1, <4>5
    <3>. QED  BY <3>3, <3>4, <1>1, DirFacts
  <2>2. \A m \in A : Within(D, B2, m, D[m])
    BY <2>0, <1>0, <1>1, <1>3, <1>4, <1>5, BeforeFacts DEF Ordered
  \* Above s is n or above n.
  <2>3. \A m \in A \ {n, s} : Within(D, B, m, D[s]) => Within(D, B, m, D[n])
    BY <1>1, <1>5, ParentAbove
  <2>4. ASSUME NEW m \in A, NEW i \in Dirs, B2[m][i] # NULL
        PROVE  Within(D, B2, B2[m][i], D[m])
    <3>1. CASE m = s
      <4>. DEFINE b == B[n][i]
      <4>1. B2[m][i] = b /\ b \in A /\ Within(D, B, b, D[n]) 
        BY <3>1, <2>4, <1>0, <1>1, <1>3, <1>5 DEF Ordered
      <4>2. Within(D, B, b, D[s]) /\ Before(i, D[s], D[b]) /\ Before(i, D[n], D[b])
        BY <4>1, <2>0, <1>0, <1>1, <1>3, <2>4 DEF Ordered, Within
      <4>3. b # n /\ b # s
        BY <4>2, <4>1, <1>5, BeforeFacts
      <4>. QED  BY <3>1, <4>1, <4>2, <4>3, <1>4, <1>5
    <3>2. CASE m = n /\ i = j
      BY <3>2, <2>0, <1>1, <1>3, <1>4, <1>5
    <3>3. CASE m = n /\ i = dir
      <4>. DEFINE b == B[n][dir]
      <4>1. B2[m][i] = b /\ b \in A /\ Within(D, B, b, D[n]) 
        BY <3>3, <2>4, <1>0, <1>1, <1>3, <1>5 DEF Ordered
      <4>2. Before(dir, D[n], D[b]) /\ Before(dir, D[s], D[b])
        BY <4>1, <2>0, <1>0, <1>1, <1>3, <2>4, <3>3 DEF Ordered, Within
      <4>3. b # n /\ b # s
        BY <4>2, <4>1, <1>1, <1>5, BeforeFacts
      <4>. QED  BY <3>3, <4>1, <4>3, <1>4, <1>5
    <3>4. CASE m # n /\ m # s
      <4>. DEFINE b == B[m][i]
      <4>1. B2[m][i] = b /\ b \in A /\ Within(D, B, b, D[m])
        BY <3>4, <2>4, <1>0, <1>3, <1>5 DEF Ordered
      <4>2. CASE b # n /\ b # s
        BY <4>1, <4>2, <1>4, <1>5
      <4>3. CASE b = s
        <5>1. Within(D, B, n, D[m])
          BY <4>1, <4>3, <2>0, <1>5
        <5>. QED  BY <5>1, <4>1, <4>3, <1>4, <1>5
      <4>4. CASE b = n
        <5>1. Before(i, D[m], D[n]) /\ Within(D, B, m, D[m]) /\ Within(D, B, n, D[m])
          BY <4>4, <4>1, <3>4, <2>4, <1>0, <1>3, <1>5 DEF Ordered, Within
        <5>. SUFFICES Before(dir, D[s], D[m])
          BY <5>1, <4>1, <4>4, <1>4, <1>5
        <5>2. CASE i = j
          BY <5>1, <5>2, <1>1, <1>3, <1>5, BeforeFacts
        <5>3. CASE i = dir
          <6>. SUFFICES ASSUME ~Before(dir, D[s], D[m]) PROVE FALSE
            OBVIOUS
          <6>1. Before(j, D[s], D[m])
            BY <3>4, <1>0, <1>1, <1>3, <1>5, BeforeFacts DEF Typed
          <6>2. Within(D, B, s, D[m])
            BY <5>1, <5>3, <2>0, <1>1, <1>3, <1>5, BeforeFacts
          <6>3. Within(D, B, m, D[s])
            <7>. SUFFICES ASSUME NEW o \in Dirs, B[m][o] # NULL
                          PROVE  Before(o, D[s], D[B[m][o]])
              BY DEF Within
            <7>1. D[B[m][o]] \in Int /\ Before(o, D[m], D[B[m][o]])
              BY <1>0, <1>5, <5>1 DEF Within
            <7>2. CASE o = j
              BY <7>1, <7>2, <6>1, <1>1, <1>3, <1>5, BeforeFacts
            <7>3. CASE o = dir
              BY <7>3, <5>3, <4>4, <1>3
            <7>. QED  BY <7>2, <7>3, <1>1, DirFacts
          <6>. QED  BY <6>2, <6>3, <3>4, <1>3, Antisymmetric
        <5>. QED  BY <5>2, <5>3, <1>1, DirFacts
      <4>. QED  BY <4>2, <4>3, <4>4
    <3>. QED  BY <3>1, <3>2, <3>3, <3>4, <1>1, DirFacts
  <2>5. ASSUME NEW m \in A, NEW k \in A, NEW l \in A,
               Within(D, B2, m, D[k]), Within(D, B2, k, D[l])
        PROVE  Within(D, B2, m, D[l])
    <3>1. CASE k = s
      <4>1. Within(D, B, n, D[l])
        BY <3>1, <2>5, <1>4, <1>5
      <4>2. CASE m = s
        BY <3>1, <4>2, <2>5
      <4>3. CASE m = n
        BY <3>1, <4>3, <2>5, <1>1, <1>4, <1>5, BeforeFacts
      <4>4. CASE m # s /\ m # n
        <5>1. Within(D, B, m, D[n])
          BY <4>4, <3>1, <2>3, <2>5, <1>4, <1>5
        <5>2. Within(D, B, m, D[l])
          BY <5>1, <4>1, <1>0, <1>1 DEF Ordered
        <5>. QED  BY <5>2, <4>4, <1>4, <1>5
      <4>. QED  BY <4>2, <4>3, <4>4
    <3>2. CASE k = n
      <4>1. Within(D, B, n, D[l]) /\ Before(dir, D[s], D[l])
        BY <3>2, <2>5, <1>4, <1>5
      <4>2. CASE m = s
        BY <4>1, <4>2, <1>4, <1>5
      <4>3. CASE m = n
        BY <3>2, <4>3, <2>5
      <4>4. CASE m # s /\ m # n
        <5>1. Within(D, B, m, D[n])
          BY <4>4, <3>2, <2>5, <1>4, <1>5
        <5>2. Within(D, B, m, D[l])
          BY <5>1, <4>1, <1>0, <1>1 DEF Ordered
        <5>. QED  BY <5>2, <4>4, <1>4, <1>5
      <4>. QED  BY <4>2, <4>3, <4>4
    <3>3. CASE k # n /\ k # s
      <4>1. Within(D, B, k, D[l])
        BY <3>3, <2>5, <1>4, <1>5
      <4>2. CASE m = s
        <5>1. Within(D, B, n, D[k])
          BY <4>2, <2>5, <1>4, <1>5
        <5>. QED  BY <5>1, <4>1, <4>2, <1>0, <1>1, <1>4, <1>5 DEF Ordered
      <4>3. CASE m = n
        <5>1. Within(D, B, n, D[k]) /\ Before(dir, D[s], D[k])
          BY <4>3, <2>5, <1>4, <1>5
        <5>. QED  BY <5>1, <4>1, <4>3, <3>3, <2>1, <1>4, <1>5
      <4>4. CASE m # s /\ m # n
        <5>1. Within(D, B, m, D[k])
          BY <4>4, <2>5, <1>4, <1>5
        <5>2. Within(D, B, m, D[l])
          BY <5>1, <4>1, <1>0 DEF Ordered
        <5>. QED  BY <5>2, <4>4, <1>4, <1>5
      <4>. QED  BY <4>2, <4>3, <4>4
    <3>. QED  BY <3>1, <3>2, <3>3
  <2>. QED  BY <2>2, <2>4, <2>5 DEF Ordered
<1>14. Complete(L2, D, A, B2)
  <2>. SUFFICES ASSUME NEW m \in A, NEW k \in A, NEW i \in Dirs,
                       Within(D, B2, m, D[k]), Before(i, D[m], D[k])
                PROVE  L2[m][i] # NULL
    BY DEF Complete
  <2>1. CASE m = n /\ i = j
    <3>1. Within(D, B, n, D[k]) /\ Before(dir, D[s], D[k])
      BY <2>1, <1>4, <1>5
    <3>2. Within(D, B, s, D[k])
      BY <3>1, <2>1, <1>1, <1>5, ChildWithin
    <3>3. L[s][dir] # NULL
      BY <3>1, <3>2, <1>0, <1>1, <1>3 DEF Complete
    <3>. QED  BY <3>3, <2>1, <1>1, <1>2
  <2>2. CASE m = s /\ i = dir
    BY <2>2, <1>1, <1>2, <1>3, <1>5
  <2>3. CASE m = s /\ i = j
    <3>1. Within(D, B, n, D[k])
      BY <2>3, <1>4, <1>5
    <3>2. Before(j, D[n], D[k])
      BY <2>3, <1>1, <1>3, <1>5, BeforeFacts
    <3>3. Within(D, B, s, D[k])
      BY <3>1, <3>2, <1>1, <1>5, ChildWithin
    <3>4. L[s][j] # NULL
      BY <3>3, <2>3, <1>0, <1>1, <1>3 DEF Complete
    <3>. QED  BY <3>4, <2>3, <1>1, <1>2, <1>3, <1>5
  <2>4. CASE m # s /\ ~(m = n /\ i = j)
    <3>1. Within(D, B, m, D[k])
      BY <2>4, <1>4, <1>5
    <3>2. L[m][i] # NULL
      BY <3>1, <1>0 DEF Complete
    <3>. QED  BY <3>2, <2>4, <1>1, <1>2, <1>5
  <2>. QED  BY <2>1, <2>2, <2>3, <2>4, <1>1, DirFacts
<1>. QED  BY <1>9, <1>10, <1>11, <1>12, <1>13, <1>14 DEF Tree
-----------------------------------------------------------------------------
\* A node with one child at most is replaced by it.
BoundsWithout(B, q) ==
  [m \in Nodes |-> [i \in Dirs |-> IF B[m][i] = q THEN B[q][i] ELSE B[m][i]]]

IsUnlinked(L, L2, A, q, j, p, at) ==
  /\ L2 \in [Nodes \cup {HEAD} -> [Dirs -> MaybeNode]]
  /\ q \in A /\ j \in Dirs /\ L[q][j] = NULL
  /\ p \in A \cup {HEAD} /\ at \in Dirs /\ L[p][at] = q
  /\ \A m \in (A \ {q}) \cup {HEAD}, i \in Dirs :
       L2[m][i] = IF m = p /\ i = at THEN L[q][Other(j)] ELSE L[m][i]

LEMMA UnlinkTree ==
  ASSUME NEW L, NEW D, NEW A, NEW B, Tree(L, D, A, B),
         NEW L2, NEW q, NEW j, NEW p, NEW at, IsUnlinked(L, L2, A, q, j, p, at)
  PROVE  Tree(L2, D, A \ {q}, BoundsWithout(B, q))
<1>. DEFINE A2 == A \ {q}
            B2 == BoundsWithout(B, q)
            only == L[q][Other(j)]
<1>0. /\ Typed(L, D, A, B) /\ TopOf(L, A, B) /\ Bounded(L, A, B) /\ Unshared(L, A)
      /\ Ordered(D, A, B) /\ Complete(L, D, A, B)
  BY DEF Tree
<1>1. /\ L2 \in [Nodes \cup {HEAD} -> [Dirs -> MaybeNode]]
      /\ q \in A /\ j \in Dirs /\ L[q][j] = NULL
      /\ p \in A \cup {HEAD} /\ at \in Dirs /\ L[p][at] = q
      /\ Other(j) \in Dirs /\ Other(j) # j /\ Other(Other(j)) = j
  BY DirFacts DEF IsUnlinked
<1>2. \A m \in A2 \cup {HEAD}, i \in Dirs :
       L2[m][i] = IF m = p /\ i = at THEN only ELSE L[m][i]
  BY DEF IsUnlinked
<1>3. /\ A \subseteq Nodes /\ NULL \notin A /\ HEAD \notin A /\ \A m \in A : D[m] \in Int
      /\ \A m \in A \cup {HEAD}, i \in Dirs : L[m][i] # NULL => L[m][i] \in A
      /\ \A m \in A, i \in Dirs : B[m][i] # NULL => B[m][i] \in A
  BY <1>0, TreeTypes
<1>4. /\ \A m \in Nodes, i \in Dirs : B2[m][i] = IF B[m][i] = q THEN B[q][i] ELSE B[m][i]
      /\ B2 \in [Nodes -> [Dirs -> MaybeNode]]
  <2>1. B \in [Nodes -> [Dirs -> MaybeNode]] /\ q \in Nodes
    BY <1>0, <1>1, <1>3 DEF Typed
  <2>. QED  BY <2>1 DEF BoundsWithout
<1>5. Within(D, B, q, D[q]) /\ \A i \in Dirs : B[q][i] # q
  <2>1. Within(D, B, q, D[q]) /\ D[q] \in Int
    BY <1>0, <1>1, <1>3 DEF Ordered
  <2>2. \A i \in Dirs : ~Before(i, D[q], D[q])
    BY <2>1, BeforeFacts
  <2>. QED  BY <2>1, <2>2, <1>1, <1>3 DEF Within
\* p is above q, and q is the child of no other.
<1>6. p # q /\ \A m \in A \cup {HEAD}, i \in Dirs : L[m][i] = q => m = p /\ i = at
  <2>1. p \in A => Before(at, D[p], D[q]) /\ Within(D, B, p, D[q])
    BY <1>1, <1>3, <1>5, ChildWithin
  <2>2. p # q
    BY <2>1, <1>1, <1>3, BeforeFacts
  <2>. QED  BY <2>2, <1>0, <1>1, <1>3 DEF Unshared
\* Below q is only what is below its child.
<1>7. ASSUME NEW m \in A2, Within(D, B, q, D[m])
      PROVE  Before(Other(j), D[q], D[m]) /\ only \in A
  BY <1>1, <1>3, <1>7, DirFacts, Down
<1>8. ASSUME NEW m \in A2, NEW i \in Dirs, B[m][i] = q
      PROVE  i = j
  <2>1. Within(D, B, q, D[m]) /\ Before(i, D[m], D[q])
    BY <1>0, <1>1, <1>3, <1>8 DEF Ordered, Within
  <2>2. Before(Other(j), D[q], D[m])
    BY <2>1, <1>7
  <2>. QED  BY <2>1, <2>2, <1>1, <1>3, BeforeFacts, DirFacts
<1>9. ASSUME NEW m \in A2, NEW k \in A2
      PROVE  Within(D, B2, m, D[k]) <=> Within(D, B, m, D[k])
  <2>1. ASSUME NEW i \in Dirs, B[m][i] = q
        PROVE  (B[q][i] # NULL => Before(i, D[k], D[B[q][i]])) /\ Within(D, B, m, D[k])
               => Before(i, D[k], D[q])
    <3>. SUFFICES ASSUME B[q][i] # NULL => Before(i, D[k], D[B[q][i]]),
                         Within(D, B, m, D[k])
                  PROVE  Before(i, D[k], D[q])
      OBVIOUS
    <3>. QED  BY <2>1, <1>1, <1>3 DEF Within
  <2>2. ASSUME Within(D, B2, m, D[k])
        PROVE  Within(D, B, m, D[k])
    <3>. SUFFICES ASSUME NEW i \in Dirs, B[m][i] # NULL, ~Before(i, D[k], D[B[m][i]])
                  PROVE  FALSE
      BY DEF Within
    <3>1. B[m][i] = q
      BY <2>2, <1>3, <1>4 DEF Within
    <3>2. i = j
      BY <3>1, <1>8
    <3>3. Before(j, D[q], D[k])
      BY <3>1, <3>2, <1>0, <1>1, <1>3, BeforeFacts DEF Typed
    \* k would lie below q, beyond its missing child.
    <3>4. Within(D, B, q, D[k])
      <4>. SUFFICES ASSUME NEW o \in Dirs, B[q][o] # NULL
                    PROVE  Before(o, D[k], D[B[q][o]])
        BY DEF Within
      <4>1. CASE o = j
        <5>1. B2[m][j] = B[q][j]
          BY <3>1, <3>2, <1>3, <1>4
        <5>. QED  BY <4>1, <5>1, <2>2, <1>1 DEF Within
      <4>2. CASE o = Other(j)
        <5>1. D[B[q][o]] \in Int /\ Before(o, D[q], D[B[q][o]])
          BY <1>1, <1>3, <1>5 DEF Within
        <5>. QED  BY <4>2, <5>1, <3>3, <1>1, <1>3, BeforeFacts
      <4>. QED  BY <4>1, <4>2, <1>1, DirFacts
    <3>. QED  BY <3>3, <3>4, <1>0, <1>1 DEF Complete
  <2>3. ASSUME Within(D, B, m, D[k])
        PROVE  Within(D, B2, m, D[k])
    <3>. SUFFICES ASSUME NEW i \in Dirs, B2[m][i] # NULL
                  PROVE  Before(i, D[k], D[B2[m][i]])
      BY DEF Within
    <3>1. CASE B[m][i] # q
      BY <3>1, <2>3, <1>3, <1>4 DEF Within
    <3>2. CASE B[m][i] = q
      <4>1. B2[m][i] = B[q][i] /\ D[B[q][i]] \in Int
        BY <3>2, <1>1, <1>3, <1>4
      <4>2. Before(i, D[k], D[q])
        BY <3>2, <2>3, <1>1, <1>3 DEF Within
      <4>3. Before(i, D[q], D[B[q][i]])
        BY <4>1, <1>5 DEF Within
      <4>. QED  BY <4>1, <4>2, <4>3, <1>1, <1>3, BeforeFacts
    <3>. QED  BY <3>1, <3>2
  <2>. QED  BY <2>2, <2>3
<1>10. Typed(L2, D, A2, B2)
  <2>1. \A m \in A2 \cup {HEAD}, i \in Dirs : L2[m][i] \in A2 \cup {NULL}
    <3>1. only # q
      BY <1>1, <1>3, <1>6
    <3>. QED  BY <3>1, <1>1, <1>2, <1>3, <1>6
  <2>2. ASSUME NEW m \in A2, NEW i \in Dirs
        PROVE  B2[m][i] \in A2 \cup {NULL}
    BY <1>1, <1>3, <1>4, <1>5
  <2>. QED  BY <2>1, <2>2, <1>0, <1>1, <1>4 DEF Typed
<1>11. TopOf(L2, A2, B2)
  <2>1. /\ L2[HEAD][0] = IF HEAD = p /\ 0 = at THEN only ELSE L[HEAD][0]
        /\ L2[HEAD][1] = IF HEAD = p /\ 1 = at THEN only ELSE L[HEAD][1]
    BY <1>2, <1>3 DEF Dirs
  <2>2. CASE p = HEAD
    <3>1. at = 1 /\ \A i \in Dirs : B[q][i] = NULL
      BY <2>2, <1>0, <1>1, <1>3 DEF TopOf, Dirs
    <3>2. \A m \in A : Within(D, B, q, D[m])
      BY <3>1 DEF Within
    <3>3. only = NULL => A2 = {}
      BY <3>2, <1>3, <1>7
    <3>4. ASSUME only # NULL
          PROVE  \A i \in Dirs : B2[only][i] = NULL
      <4>1. /\ B[only][Other(j)] = B[q][Other(j)] /\ B[only][j] = q
        BY <3>4, <1>0, <1>1 DEF Bounded
      <4>2. only \in Nodes
        BY <3>4, <1>1, <1>3
      <4>3. B[q][Other(j)] = NULL /\ B[q][j] = NULL
        BY <3>1, <1>1
      <4>4. NULL # q
        BY <1>1, <1>3
      <4>. TAKE i \in Dirs
      <4>5. B2[only][i] = IF B[only][i] = q THEN B[q][i] ELSE B[only][i]
        BY <4>2, <1>4
      <4>. QED  BY <4>1, <4>3, <4>4, <4>5, <1>1, DirFacts
    <3>. QED  BY <2>1, <2>2, <3>1, <3>3, <3>4, <1>0 DEF TopOf
  <2>3. CASE p # HEAD
    <3>1. L[HEAD][1] # q /\ L[HEAD][1] # NULL
      BY <2>3, <1>0, <1>1, <1>3, <1>6 DEF Dirs, TopOf
    <3>2. L[HEAD][1] \in Nodes /\ \A i \in Dirs : B[L[HEAD][1]][i] = NULL
      BY <3>1, <1>0, <1>3 DEF Dirs, TopOf
    <3>3. NULL # q
      BY <1>1, <1>3
    <3>. QED  BY <2>1, <2>3, <3>1, <3>2, <3>3, <1>0, <1>4 DEF TopOf
  <2>. QED  BY <2>2, <2>3
<1>12. Bounded(L2, A2, B2)
  <2>. SUFFICES ASSUME NEW m \in A2, NEW i \in Dirs, L2[m][i] # NULL
                PROVE  B2[L2[m][i]][i] = B2[m][i] /\ B2[L2[m][i]][Other(i)] = m
    BY DEF Bounded
  <2>0. Other(i) \in Dirs /\ m \in Nodes
    BY <1>3, DirFacts
  <2>1. CASE m = p /\ i = at
    <3>1. L2[m][i] = only /\ only \in A /\ only # NULL
      BY <2>1, <1>1, <1>2, <1>3
    <3>2. B[only][Other(j)] = B[q][Other(j)] /\ B[only][j] = q
      BY <3>1, <1>0, <1>1 DEF Bounded
    <3>3. B[q][i] = B[m][i] /\ B[q][Other(i)] = m
      BY <2>1, <1>0, <1>1, <1>3 DEF Bounded
    <3>4. B2[only][j] = B[q][j] /\ B2[only][Other(j)] = B[q][Other(j)]
      BY <3>1, <3>2, <1>1, <1>3, <1>4, <1>5
    <3>5. B2[only][i] = B[q][i] /\ B2[only][Other(i)] = B[q][Other(i)]
      BY <3>4, <1>1, DirFacts
    <3>6. B2[m][i] = B[m][i]
      BY <3>3, <2>0, <1>4
    <3>. QED  BY <3>1, <3>3, <3>5, <3>6
  <2>2. CASE ~(m = p /\ i = at)
    <3>1. L2[m][i] = L[m][i] /\ L[m][i] \in A /\ L[m][i] # q
      BY <2>2, <1>2, <1>3, <1>6
    <3>2. B[L[m][i]][i] = B[m][i] /\ B[L[m][i]][Other(i)] = m
      BY <3>1, <1>0 DEF Bounded
    <3>. QED  BY <3>1, <3>2, <2>0, <1>3, <1>4
  <2>. QED  BY <2>1, <2>2
<1>13. Unshared(L2, A2)
  <2>. SUFFICES ASSUME NEW m \in A2 \cup {HEAD}, NEW k \in A2 \cup {HEAD},
                       NEW i \in Dirs, NEW l \in Dirs,
                       L2[m][i] = L2[k][l], L2[m][i] # NULL
                PROVE  m = k /\ i = l
    BY DEF Unshared
  <2>1. \A x, y \in A \cup {HEAD}, o, r \in Dirs :
            L[x][o] = L[y][r] /\ L[x][o] # NULL => x = y /\ o = r
    BY <1>0 DEF Unshared
  <2>2. \A x \in A2 \cup {HEAD}, o \in Dirs : L[x][o] = only => only = NULL
    BY <2>1, <1>1, <1>3
  <2>. QED  BY <2>1, <2>2, <1>2
<1>14. Ordered(D, A2, B2)
  <2>1. \A m \in A2 : Within(D, B2, m, D[m])
    BY <1>0, <1>9 DEF Ordered
  <2>2. ASSUME NEW m \in A2, NEW i \in Dirs, B2[m][i] # NULL
        PROVE  Within(D, B2, B2[m][i], D[m])
    <3>1. CASE B[m][i] # q
      <4>1. B2[m][i] = B[m][i] /\ B[m][i] \in A2
        BY <3>1, <2>2, <1>3, <1>4
      <4>2. Within(D, B, B[m][i], D[m])
        BY <4>1, <2>2, <1>0 DEF Ordered
      <4>. QED  BY <4>1, <4>2, <1>9
    <3>2. CASE B[m][i] = q
      <4>1. B2[m][i] = B[q][i] /\ B[q][i] \in A2
        BY <3>2, <2>2, <1>1, <1>3, <1>4, <1>5
      <4>2. Within(D, B, q, D[m]) /\ Within(D, B, B[q][i], D[q])
        BY <4>1, <3>2, <2>2, <1>0, <1>1, <1>3 DEF Ordered
      <4>3. Within(D, B, B[q][i], D[m])
        BY <4>1, <4>2, <1>0, <1>1 DEF Ordered
      <4>. QED  BY <4>1, <4>3, <1>9
    <3>. QED  BY <3>1, <3>2
  <2>3. \A m, k, l \in A2 : Within(D, B2, m, D[k]) /\ Within(D, B2, k, D[l])
                            => Within(D, B2, m, D[l])
    BY <1>0, <1>9 DEF Ordered
  <2>. QED  BY <2>1, <2>2, <2>3 DEF Ordered
<1>15. Complete(L2, D, A2, B2)
  <2>. SUFFICES ASSUME NEW m \in A2, NEW k \in A2, NEW i \in Dirs,
                       Within(D, B2, m, D[k]), Before(i, D[m], D[k])
                PROVE  L2[m][i] # NULL
    BY DEF Complete
  <2>1. Within(D, B, m, D[k]) /\ L[m][i] # NULL
    BY <1>0, <1>9 DEF Complete
  <2>2. CASE m = p /\ i = at
    <3>1. Within(D, B, q, D[k])
      BY <2>1, <2>2, <1>1, <1>3, ChildWithin
    <3>. QED  BY <3>1, <2>2, <1>2, <1>3, <1>7
  <2>3. CASE ~(m = p /\ i = at)
    BY <2>1, <2>3, <1>2
  <2>. QED  BY <2>2, <2>3
<1>. QED  BY <1>10, <1>11, <1>12, <1>13, <1>14, <1>15 DEF Tree

\* A datum gives way to another that stands in the same order to the rest.
LEMMA RelabelTree ==
  ASSUME NEW L, NEW D, NEW A, NEW B, Tree(L, D, A, B),
         NEW f \in A, NEW v \in Data, NEW D2 \in [Nodes -> Data \cup {NULL}],
         D2[f] = v, \A m \in A \ {f} : D2[m] = D[m],
         \A m \in A \ {f} : v # D[m] /\ \A i \in Dirs : Before(i, v, D[m]) <=> Before(i, D[f], D[m])
  PROVE  Tree(L, D2, A, B)
<1>0. /\ Typed(L, D, A, B) /\ TopOf(L, A, B) /\ Bounded(L, A, B) /\ Unshared(L, A)
      /\ Ordered(D, A, B) /\ Complete(L, D, A, B)
  BY DEF Tree
<1>1. /\ A \subseteq Nodes /\ NULL \notin A /\ HEAD \notin A /\ \A m \in A : D[m] \in Int
      /\ \A m \in A, i \in Dirs : B[m][i] # NULL => B[m][i] \in A
      /\ v \in Int
  BY <1>0, TreeTypes, RBTreeAssumption
<1>2. ASSUME NEW m \in A, NEW k \in A, NEW i \in Dirs
      PROVE  Before(i, D2[m], D2[k]) <=> Before(i, D[m], D[k])
  <2>1. CASE m = f /\ k = f
    BY <2>1, <1>1, BeforeFacts
  <2>2. CASE m = f /\ k # f
    BY <2>2
  <2>3. CASE m # f /\ k = f
    <3>1. Before(Other(i), v, D[m]) <=> Before(Other(i), D[f], D[m])
      BY <2>3, DirFacts
    <3>. QED  BY <3>1, <2>3, <1>1, BeforeFacts
  <2>4. CASE m # f /\ k # f
    BY <2>4
  <2>. QED  BY <2>1, <2>2, <2>3, <2>4
<1>3. \A m, k \in A : Within(D2, B, m, D2[k]) <=> Within(D, B, m, D[k])
  BY <1>1, <1>2 DEF Within
<1>4. Typed(L, D2, A, B)
  <2>1. \A m \in A : D2[m] \in Data
    BY <1>0 DEF Typed
  <2>2. \A m, k \in A : D2[m] = D2[k] => m = k
    BY <1>0 DEF Typed
  <2>. QED  BY <2>1, <2>2, <1>0 DEF Typed
<1>5. Ordered(D2, A, B)
  BY <1>0, <1>1, <1>3 DEF Ordered
<1>6. Complete(L, D2, A, B)
  BY <1>0, <1>2, <1>3 DEF Complete
<1>. QED  BY <1>0, <1>4, <1>5, <1>6 DEF Tree
-----------------------------------------------------------------------------
(* Colours                                                                 *)

\* Above a black node its red child takes its place: both swap their colours.
LEMMA RotationColours ==
  ASSUME NEW L, NEW D, NEW A, NEW B, Tree(L, D, A, B),
         NEW L2, NEW n, NEW dir, NEW s, NEW above, NEW at,
         IsRotation(L, L2, A, n, dir, s, above, at),
         NEW R, NEW R2, ~R[n], R[s], R2[n], ~R2[s], \A m \in A \ {n, s} : R2[m] = R[m],
         NEW H, Heights(L, R, A, H)
  PROVE  /\ Heights(L2, R2, A, [H EXCEPT ![n] = H[s], ![s] = H[n]])
         /\ /\ \A m \in A \ {s} : RedAlone(L, R, m)
            /\ Black(R, L[s][dir]) /\ Black(R, L[n][dir])
            => \A m \in A : RedAlone(L2, R2, m)
<1>. DEFINE j == Other(dir)
            H2 == [H EXCEPT ![n] = H[s], ![s] = H[n]]
<1>1. /\ n \in A /\ s \in A /\ n # s /\ above # n /\ above # s
      /\ \A m \in A \cup {HEAD}, i \in Dirs :
           /\ L[m][i] = n => m = above /\ i = at
           /\ L[m][i] = s => m = n /\ i = j
  BY RotationAlone
<1>2. /\ dir \in Dirs /\ j \in Dirs /\ j # dir /\ s = L[n][j]
      /\ above \in A \cup {HEAD} /\ at \in Dirs /\ L[above][at] = n
  BY DirFacts DEF IsRotation
<1>3. \A m \in A \cup {HEAD}, i \in Dirs :
       L2[m][i] = IF m = n /\ i = j THEN L[s][dir]
                  ELSE IF m = s /\ i = dir THEN n
                  ELSE IF m = above /\ i = at THEN s
                  ELSE L[m][i]
  BY DEF IsRotation
<1>4. /\ A \subseteq Nodes /\ NULL \notin A
      /\ \A m \in A, i \in Dirs : L[m][i] # NULL => L[m][i] \in A
  BY TreeTypes DEF Tree
<1>5. H \in [Nodes -> Int] /\ \A m \in A : H[m] \in Nat
  BY DEF Heights
<1>6. /\ H2 \in [Nodes -> Int] /\ H2[n] = H[s] /\ H2[s] = H[n]
      /\ \A m \in A \ {n, s} : H2[m] = H[m]
  BY <1>1, <1>4, <1>5
<1>7. \A m \in A, i \in Dirs : H[m] = HeightOf(H, L[m][i]) + (IF R[m] THEN 0 ELSE 1)
  BY DEF Heights
<1>8. /\ H[n] = H[s] + 1 /\ HeightOf(H, L[n][dir]) = H[s]
      /\ HeightOf(H, L[s][dir]) = H[s] /\ HeightOf(H, L[s][j]) = H[s]
  <2>1. H[n] = HeightOf(H, s) + 1 /\ H[n] = HeightOf(H, L[n][dir]) + 1
    BY <1>1, <1>2, <1>7
  <2>2. H[s] = HeightOf(H, L[s][dir]) + 0 /\ H[s] = HeightOf(H, L[s][j]) + 0
    BY <1>1, <1>2, <1>7
  <2>3. HeightOf(H, s) = H[s]
    BY <1>1, <1>4 DEF HeightOf
  <2>4. \A i \in Dirs : HeightOf(H, L[n][i]) \in Nat /\ HeightOf(H, L[s][i]) \in Nat
    BY <1>1, <1>4, <1>5 DEF HeightOf
  <2>. QED  BY <2>1, <2>2, <2>3, <2>4, <1>2, <1>1, <1>5
\* The other links lead to neither n nor s.
<1>9. ASSUME NEW m \in A, NEW i \in Dirs, ~(m = above /\ i = at), ~(m = n /\ i = j)
      PROVE  L[m][i] \notin {n, s} /\ HeightOf(H2, L[m][i]) = HeightOf(H, L[m][i])
  BY <1>1, <1>4, <1>6, <1>9 DEF HeightOf
<1>10. ASSUME NEW m \in A, NEW i \in Dirs
       PROVE  H2[m] = HeightOf(H2, L2[m][i]) + (IF R2[m] THEN 0 ELSE 1)
  <2>0. /\ HeightOf(H2, L[s][dir]) = H[s]
        /\ HeightOf(H2, L[s][j]) = H[s]
        /\ HeightOf(H2, L[n][dir]) = H[s]
    <3>1. s # above /\ s # n /\ n # above /\ dir # j /\ dir \in Dirs /\ j \in Dirs /\ s \in A /\ n \in A
      BY <1>1, <1>2
    <3>2. HeightOf(H2, L[s][dir]) = HeightOf(H, L[s][dir])
      BY <3>1, <1>9
    <3>3. HeightOf(H2, L[s][j]) = HeightOf(H, L[s][j])
      BY <3>1, <1>9
    <3>4. HeightOf(H2, L[n][dir]) = HeightOf(H, L[n][dir])
      BY <3>1, <1>9
    <3>. QED  BY <3>2, <3>3, <3>4, <1>8
  <2>9. H[s] \in Int /\ H[n] = H[s] + 1 /\ H2[n] = H[s] /\ H2[s] = H[n]
    BY <1>1, <1>5, <1>6, <1>8
  <2>1. CASE m = n /\ i = j
    <3>1. L2[m][i] = L[s][dir] /\ R2[m] /\ H2[m] = H[s]
      BY <2>1, <1>1, <1>3, <1>6
    <3>. QED  BY <3>1, <2>0, <2>9
  <2>2. CASE m = n /\ i = dir
    <3>1. L2[m][i] = L[n][dir] /\ R2[m] /\ H2[m] = H[s]
      BY <2>2, <1>1, <1>2, <1>3, <1>6
    <3>. QED  BY <3>1, <2>0, <2>9
  <2>3. CASE m = s /\ i = dir
    <3>1. L2[m][i] = n /\ ~R2[m] /\ H2[m] = H[n] /\ HeightOf(H2, n) = H[s]
      BY <2>3, <1>1, <1>2, <1>3, <1>4, <1>6 DEF HeightOf
    <3>. QED  BY <3>1, <2>9
  <2>4. CASE m = s /\ i = j
    <3>1. L2[m][i] = L[s][j] /\ ~R2[m] /\ H2[m] = H[n]
      BY <2>4, <1>1, <1>2, <1>3, <1>6
    <3>. QED  BY <3>1, <2>0, <2>9
  <2>5. CASE m = above /\ i = at
    <3>1. H[m] = HeightOf(H, n) + (IF R[m] THEN 0 ELSE 1)
      BY <2>5, <1>2, <1>7
    <3>2. HeightOf(H, n) = H[n] /\ HeightOf(H2, s) = H[n]
      BY <1>1, <1>4, <1>6 DEF HeightOf
    <3>3. L2[m][i] = s /\ H2[m] = H[m] /\ m # n /\ m # s
      BY <2>5, <1>1, <1>3, <1>6
    <3>4. R2[m] = R[m]
      BY <3>3
    <3>. QED  BY <3>1, <3>2, <3>3, <3>4
  <2>6. CASE m # n /\ m # s /\ ~(m = above /\ i = at)
    <3>0. m \in A \ {n, s}
      BY <2>6
    <3>1. L2[m][i] = L[m][i]
      BY <2>6, <1>3
    <3>5. H2[m] = H[m]
      BY <3>0, <1>6
    <3>2. R2[m] = R[m]
      BY <2>6
    <3>3. HeightOf(H2, L[m][i]) = HeightOf(H, L[m][i])
      BY <2>6, <1>9
    <3>4. H[m] = HeightOf(H, L[m][i]) + (IF R[m] THEN 0 ELSE 1)
      BY <1>7
    <3>. QED  BY <3>1, <3>2, <3>3, <3>4, <3>5
  <2>. QED  BY <2>1, <2>2, <2>3, <2>4, <2>5, <2>6, <1>2, DirFacts
<1>11. \A m \in A : H2[m] \in Nat
  BY <1>1, <1>5, <1>6
<1>12. ASSUME \A m \in A \ {s} : RedAlone(L, R, m),
              Black(R, L[s][dir]), Black(R, L[n][dir]),
              NEW m \in A, R2[m], NEW i \in Dirs
       PROVE  Black(R2, L2[m][i])
  <2>0. \A x \in A \ {n, s} : R[x] = R2[x]
    OBVIOUS
  <2>1. CASE m = n
    <3>1. L2[m][i] = IF i = j THEN L[s][dir] ELSE L[n][i]
      BY <2>1, <1>1, <1>3
    <3>2. L[s][dir] \notin {n, s} /\ (i # j => L[n][i] \notin {n, s})
      BY <1>1, <1>2, <1>9
    <3>. QED  BY <3>1, <3>2, <2>0, <1>12, <1>1, <1>2, <1>4, DirFacts DEF Black
  <2>2. CASE m # n /\ m = above /\ i = at
    BY <2>2, <1>1, <1>3 DEF Black
  <2>3. CASE m # n /\ ~(m = above /\ i = at)
    <3>1. m # s /\ R[m] /\ L2[m][i] = L[m][i] /\ L[m][i] \notin {n, s}
      BY <2>3, <1>12, <1>3, <1>9
    <3>2. Black(R, L[m][i])
      BY <3>1, <1>12 DEF RedAlone
    <3>. QED  BY <3>1, <3>2, <2>0, <1>4 DEF Black
  <2>. QED  BY <2>1, <2>2, <2>3
<1>. QED  BY <1>6, <1>10, <1>11, <1>12 DEF Heights, RedAlone

\* A black node takes the red of both its children.
LEMMA FlipColours ==
  ASSUME NEW L, NEW D, NEW A, NEW B, Tree(L, D, A, B), NEW q \in A,
         NEW R, NEW R2, ~R[q], BothRed(L, R, q),
         R2[q], \A i \in Dirs : ~R2[L[q][i]],
         \A m \in A : m # q /\ (\A i \in Dirs : m # L[q][i]) => R2[m] = R[m],
         NEW H, Heights(L, R, A, H)
  PROVE  \E H2 : Heights(L, R2, A, H2)
<1>. DEFINE c == L[q][0]
            k == L[q][1]
            H2 == [H EXCEPT ![c] = H[c] + 1, ![k] = H[k] + 1]
<1>1. /\ A \subseteq Nodes /\ NULL \notin A /\ HEAD \notin A
      /\ \A m \in A, i \in Dirs : L[m][i] # NULL => L[m][i] \in A
      /\ \A n, m \in A, i, j \in Dirs : L[n][i] = L[m][j] /\ L[n][i] # NULL => n = m /\ i = j
      /\ \A n \in A : D[n] \in Int /\ Within(D, B, n, D[n])
  BY TreeTypes DEF Tree, Unshared, Ordered
<1>2. c \in A /\ k \in A /\ c # k /\ R[c] /\ R[k]
  BY <1>1 DEF BothRed, Black, Dirs
<1>3. c # q /\ k # q
  BY <1>2
<1>4. H \in [Nodes -> Int] /\ \A m \in A : H[m] \in Nat
  BY DEF Heights
<1>5. /\ H2 \in [Nodes -> Int] /\ H2[c] = H[c] + 1 /\ H2[k] = H[k] + 1
      /\ \A m \in A \ {c, k} : H2[m] = H[m]
  BY <1>1, <1>2, <1>4
<1>6. \A m \in A, i \in Dirs : H[m] = HeightOf(H, L[m][i]) + (IF R[m] THEN 0 ELSE 1)
  BY DEF Heights
<1>7. ASSUME NEW m \in A, NEW i \in Dirs
      PROVE  H2[m] = HeightOf(H2, L[m][i]) + (IF R2[m] THEN 0 ELSE 1)
  <2>1. CASE m = q
    <3>1. L[q][i] \in {c, k}
      BY DEF Dirs
    <3>2. H[q] = HeightOf(H, L[q][i]) + 1
      BY <1>6
    <3>. QED  BY <2>1, <3>1, <3>2, <1>1, <1>2, <1>3, <1>4, <1>5 DEF HeightOf
  <2>2. CASE m # q
    <3>1. L[m][i] \notin {c, k}
      BY <2>2, <1>1, <1>2 DEF Dirs
    <3>2. HeightOf(H2, L[m][i]) = HeightOf(H, L[m][i])
      BY <3>1, <1>1, <1>5 DEF HeightOf
    <3>3. HeightOf(H, L[m][i]) \in Int
      BY <1>1, <1>4 DEF HeightOf
    <3>4. CASE m \in {c, k}
      <4>1. R[m] /\ ~R2[m] /\ H2[m] = H[m] + 1
        BY <3>4, <1>2, <1>5 DEF Dirs
      <4>2. H[m] = HeightOf(H, L[m][i]) + 0
        BY <4>1, <1>6
      <4>. QED  BY <4>1, <4>2, <3>2, <3>3
    <3>5. CASE m \notin {c, k}
      <4>1. R2[m] = R[m] /\ H2[m] = H[m]
        BY <2>2, <3>5, <1>5 DEF Dirs
      <4>. QED  BY <4>1, <3>2, <1>6
    <3>. QED  BY <3>4, <3>5
  <2>. QED  BY <2>1, <2>2
<1>8. ASSUME NEW m \in A PROVE H2[m] \in Nat
  <2>1. H[m] \in Nat
    BY <1>4
  <2>2. CASE m = c \/ m = k
    <3>1. H2[m] = H[m] + 1
      BY <2>2, <1>5
    <3>. HIDE DEF H2
    <3>. QED  BY <2>1, <3>1
  <2>3. CASE m # c /\ m # k
    BY <2>1, <2>3, <1>5
  <2>. QED  BY <2>2, <2>3
<1>9. Heights(L, R2, A, H2)
  BY <1>5, <1>7, <1>8 DEF Heights
<1>. QED  BY <1>9
-----------------------------------------------------------------------------
(* Nodes above others, and the heap                                        *)

\* m is below n.
Above(D, B, n, m) == Within(D, B, n, D[m]) /\ ~Within(D, B, m, D[n])

LEMMA AboveFacts ==
  ASSUME NEW L, NEW D, NEW A, NEW B, Tree(L, D, A, B)
  PROVE  /\ \A n \in A : Within(D, B, n, D[n]) /\ ~Above(D, B, n, n)
         /\ \A n \in A, i \in Dirs : L[n][i] # NULL => L[n][i] \in A /\ Above(D, B, n, L[n][i])
         /\ \A n, m, k \in A : Within(D, B, n, D[m]) /\ Above(D, B, m, k) => Above(D, B, n, k)
         /\ \A n, m, k \in A : Above(D, B, n, m) /\ Within(D, B, m, D[k]) => Above(D, B, n, k)
         /\ \A n, m, k \in A : Above(D, B, n, m) /\ Above(D, B, m, k) => Above(D, B, n, k)
<1>0. /\ Ordered(D, A, B) /\ NULL \notin A
      /\ \A n \in A : D[n] \in Int
      /\ \A n \in A, i \in Dirs : L[n][i] # NULL => L[n][i] \in A
  BY TreeTypes DEF Tree
<1>1. \A n \in A : Within(D, B, n, D[n])
  BY <1>0 DEF Ordered
<1>2. \A n, m, k \in A : Within(D, B, n, D[m]) /\ Within(D, B, m, D[k]) => Within(D, B, n, D[k])
  BY <1>0 DEF Ordered
<1>3. ASSUME NEW n \in A, NEW i \in Dirs, L[n][i] # NULL
      PROVE  Above(D, B, n, L[n][i])
  <2>1. L[n][i] \in A /\ D[n] \in Int /\ D[L[n][i]] \in Int /\ Within(D, B, L[n][i], D[L[n][i]])
    BY <1>0, <1>1, <1>3
  <2>2. Within(D, B, n, D[L[n][i]])
    BY <2>1, <1>3, ChildWithin
  <2>3. ~Within(D, B, L[n][i], D[n])
    BY <2>1, <1>3, ChildWithin, BeforeFacts
  <2>. QED  BY <2>2, <2>3 DEF Above
<1>4. ASSUME NEW n \in A, NEW m \in A, NEW k \in A, Within(D, B, n, D[m]), Above(D, B, m, k)
      PROVE  Above(D, B, n, k)
  BY <1>2, <1>4 DEF Above
<1>5. ASSUME NEW n \in A, NEW m \in A, NEW k \in A, Above(D, B, n, m), Within(D, B, m, D[k])
      PROVE  Above(D, B, n, k)
  BY <1>2, <1>5 DEF Above
<1>6. ASSUME NEW n \in A, NEW m \in A, NEW k \in A, Above(D, B, n, m), Above(D, B, m, k)
      PROVE  Above(D, B, n, k)
  BY <1>2, <1>6 DEF Above
<1>7. \A n \in A : ~Above(D, B, n, n)
  BY DEF Above
<1>. QED  BY <1>0, <1>1, <1>3, <1>4, <1>5, <1>6, <1>7

\* h2 is h after a rotation that passes the colours on.
IsSingle(h, h2, A, n, dir, s, above, at) ==
  /\ h2 \in Heaps /\ h2.data = h.data /\ h2.bug = h.bug
  /\ IsRotation(h.link, h2.link, A, n, dir, s, above, at)
  /\ h2.red[n] /\ ~h2.red[s]
  /\ \A m \in Nodes \ {n, s} : h2.red[m] = h.red[m]

LEMMA SingleIs ==
  ASSUME NEW h \in Heaps, NEW A, NEW B, Tree(h.link, h.data, A, B),
         NEW n \in A, NEW dir \in Dirs, h.link[n][Other(dir)] # NULL,
         NEW above \in A \cup {HEAD}, NEW at \in Dirs, h.link[above][at] = n
  PROVE  IsSingle(h, Single(h, n, dir, above, at), A, n, dir, h.link[n][Other(dir)], above, at)
<1>. DEFINE s == h.link[n][Other(dir)]
            h2 == Single(h, n, dir, above, at)
            j == Other(dir)
            N == Nodes \cup {HEAD}
            L2 == [m \in N |-> [i \in Dirs |->
                    IF m = n /\ i = j THEN h.link[s][dir]
                    ELSE IF m = s /\ i = dir THEN n
                    ELSE IF m = above /\ i = at THEN s
                    ELSE h.link[m][i]]]
<1>1. /\ h.link \in [N -> [Dirs -> MaybeNode]] /\ h.red \in [Nodes -> BOOLEAN]
      /\ h.data \in [Nodes -> Data \cup {NULL}]
      /\ h.bug \in {"none", "BUG_ON", "null", "freed"}
      /\ h = [red |-> h.red, data |-> h.data, link |-> h.link, bug |-> h.bug]
  BY DEF Heaps
<1>2. s \in A /\ A \subseteq Nodes /\ NULL \notin A /\ HEAD \notin A /\ j \in Dirs
  BY TreeTypes, DirFacts DEF Tree
<1>2a. n \in Nodes /\ s \in Nodes /\ n \in MaybeNode /\ s \in MaybeNode /\ n # NULL /\ s # NULL /\ above \in N
  BY <1>2 DEF MaybeNode
<1>3. L2 \in [N -> [Dirs -> MaybeNode]]
  <2>1. h.link[s][dir] \in MaybeNode
    BY <1>1, <1>2a
  <2>2. \A m \in N, i \in Dirs : h.link[m][i] \in MaybeNode
    BY <1>1
  <2>. HIDE DEF s, j, N
  <2>. QED  BY <2>1, <2>2, <1>2a
<1>4. IsRotation(h.link, L2, A, n, dir, s, above, at)
  BY <1>3, <1>2, <1>2a DEF IsRotation
<1>5. n # s /\ above # n /\ above # s
  BY <1>4, RotationAlone
<1>. DEFINE K1 == [h.link EXCEPT ![n][j] = h.link[s][dir]]
            K2 == [K1 EXCEPT ![s][dir] = n]
            K3 == [K2 EXCEPT ![above][at] = s]
            red == [[h.red EXCEPT ![n] = TRUE] EXCEPT ![s] = FALSE]
<1>6. h2 = [red |-> red, data |-> h.data, link |-> K3, bug |-> h.bug]
  BY <1>1, <1>2a DEF Single
<1>7. h.link[s][dir] \in MaybeNode
  BY <1>1, <1>2a
<1>8. K1 \in [N -> [Dirs -> MaybeNode]]
      /\ \A m \in N, i \in Dirs : K1[m][i] = IF m = n /\ i = j THEN h.link[s][dir] ELSE h.link[m][i]
  BY <1>1, <1>2, <1>2a, <1>7
<1>9. K2 \in [N -> [Dirs -> MaybeNode]]
      /\ \A m \in N, i \in Dirs : K2[m][i] = IF m = s /\ i = dir THEN n ELSE K1[m][i]
  <2>. HIDE DEF K1
  <2>. QED  BY <1>8, <1>2a
<1>10. K3 \in [N -> [Dirs -> MaybeNode]]
       /\ \A m \in N, i \in Dirs : K3[m][i] = IF m = above /\ i = at THEN s ELSE K2[m][i]
  <2>. HIDE DEF K1, K2
  <2>. QED  BY <1>9, <1>2a
<1>11. red \in [Nodes -> BOOLEAN] /\ red[n] /\ ~red[s] /\ \A m \in Nodes \ {n, s} : red[m] = h.red[m]
  BY <1>1, <1>2a, <1>5
<1>12. \A m \in N, i \in Dirs :
         K3[m][i] = IF m = n /\ i = j THEN h.link[s][dir]
                    ELSE IF m = s /\ i = dir THEN n
                    ELSE IF m = above /\ i = at THEN s
                    ELSE h.link[m][i]
  <2>. HIDE DEF K1, K2, K3, s, j
  <2>. QED  BY <1>8, <1>9, <1>10, <1>5
<1>. HIDE DEF K3, red, h2
<1>13. IsRotation(h.link, K3, A, n, dir, s, above, at)
  BY <1>12, <1>10, <1>2, <1>2a DEF IsRotation
<1>14. h2 \in Heaps
  BY <1>1, <1>6, <1>10, <1>11 DEF Heaps
<1>15. h2.red = red /\ h2.data = h.data /\ h2.link = K3 /\ h2.bug = h.bug
  BY <1>6
<1>16. /\ IsRotation(h.link, h2.link, A, n, dir, s, above, at)
       /\ h2.red[n] /\ ~h2.red[s] /\ \A m \in Nodes \ {n, s} : h2.red[m] = h.red[m]
  BY <1>11, <1>13, <1>15
<1>. QED  BY <1>14, <1>15, <1>16 DEF h2, IsSingle
\* The red of a node goes to its two black children; that of the top comes from
\* nowhere, and every way down is one black shorter.
LEMMA PushHeights ==
  ASSUME NEW L, NEW D, NEW A, NEW B, Tree(L, D, A, B),
         NEW p \in A, NEW last \in Dirs, NEW q \in A, NEW w \in A,
         q = L[p][last], w = L[p][Other(last)],
         NEW R, NEW R2, ~R[q], ~R[w], R[p] \/ p = L[HEAD][1],
         ~R2[p], R2[q], R2[w],
         \A m \in A : m # p /\ m # q /\ m # w => R2[m] = R[m],
         NEW H, Heights(L, R, A, H)
  PROVE  \E H2 : Heights(L, R2, A, H2)
<1>. DEFINE H2 == [H EXCEPT ![q] = H[q] - 1, ![w] = H[w] - 1, ![p] = H[q]]
<1>1. /\ A \subseteq Nodes /\ NULL \notin A /\ HEAD \notin A
      /\ \A m \in A, i \in Dirs : L[m][i] # NULL => L[m][i] \in A
      /\ \A n, m \in A \cup {HEAD}, i, j \in Dirs :
           L[n][i] = L[m][j] /\ L[n][i] # NULL => n = m /\ i = j
  <2>1. Typed(L, D, A, B) /\ Unshared(L, A)
    BY DEF Tree
  <2>2. \A n, m \in A \cup {HEAD}, i, j \in Dirs :
           L[n][i] = L[m][j] /\ L[n][i] # NULL => n = m /\ i = j
    BY <2>1 DEF Unshared
  <2>. QED  BY <2>1, <2>2, TreeTypes
<1>2. Other(last) \in Dirs /\ Other(last) # last
  BY DirFacts
<1>3. p # q /\ p # w /\ q # w
  <2>1. Above(D, B, p, q) /\ Above(D, B, p, w) /\ ~Above(D, B, p, p)
    BY <1>1, <1>2, AboveFacts
  <2>. QED  BY <2>1, <1>1, <1>2
<1>4. H \in [Nodes -> Int] /\ \A m \in A : H[m] \in Nat
  BY DEF Heights
<1>5. \A m \in A, i \in Dirs : H[m] = HeightOf(H, L[m][i]) + (IF R[m] THEN 0 ELSE 1)
  BY DEF Heights
<1>6. \A m \in A, i \in Dirs : HeightOf(H, L[m][i]) \in Nat
  BY <1>1, <1>4 DEF HeightOf
<1>7. /\ H[p] = H[q] + (IF R[p] THEN 0 ELSE 1) /\ H[w] = H[q]
      /\ \A i \in Dirs : H[q] = HeightOf(H, L[q][i]) + 1 /\ H[w] = HeightOf(H, L[w][i]) + 1
  <2>1. HeightOf(H, q) = H[q] /\ HeightOf(H, w) = H[w]
    BY <1>1 DEF HeightOf
  <2>2. H[p] = HeightOf(H, q) + (IF R[p] THEN 0 ELSE 1) /\ H[p] = HeightOf(H, w) + (IF R[p] THEN 0 ELSE 1)
    BY <1>2, <1>5
  <2>3. H[p] \in Nat /\ H[q] \in Nat /\ H[w] \in Nat
    BY <1>4
  <2>4. H[w] = H[q]
    BY <2>1, <2>2, <2>3
  <2>. QED  BY <2>1, <2>2, <2>4, <1>5
<1>8. /\ H2 \in [Nodes -> Int] /\ H2[p] = H[q] /\ H2[q] = H[q] - 1 /\ H2[w] = H[w] - 1
      /\ \A m \in A : m # p /\ m # q /\ m # w => H2[m] = H[m]
  BY <1>1, <1>3, <1>4
<1>. HIDE DEF H2
\* The other links lead to neither q nor w; those to p only matter when p was red.
<1>9. ASSUME NEW m \in A, NEW i \in Dirs, m # p
      PROVE  HeightOf(H2, L[m][i]) = HeightOf(H, L[m][i])
  <2>1. L[m][i] # q /\ L[m][i] # w
    BY <1>1, <1>2, <1>9
  <2>2. CASE L[m][i] = p
    <3>1. p # L[HEAD][1]
      BY <2>2, <1>1, <1>9 DEF Dirs
    <3>2. H[p] = H[q] + 0
      BY <3>1, <1>7
    <3>. QED  BY <2>2, <3>2, <1>1, <1>4, <1>8 DEF HeightOf
  <2>3. CASE L[m][i] # p
    BY <2>1, <2>3, <1>1, <1>8 DEF HeightOf
  <2>. QED  BY <2>2, <2>3
<1>10. ASSUME NEW m \in A, NEW i \in Dirs
       PROVE  H2[m] = HeightOf(H2, L[m][i]) + (IF R2[m] THEN 0 ELSE 1)
  <2>1. CASE m = p
    <3>1. HeightOf(H2, L[p][i]) = H[q] - 1
      BY <1>1, <1>2, <1>7, <1>8, DirFacts DEF HeightOf
    <3>. QED  BY <2>1, <3>1, <1>4, <1>8
  <2>2. CASE m = q \/ m = w
    <3>1. HeightOf(H2, L[m][i]) = HeightOf(H, L[m][i]) /\ R2[m]
      BY <2>2, <1>3, <1>9
    <3>2. H[m] = HeightOf(H, L[m][i]) + 1 /\ H2[m] = H[m] - 1
      BY <2>2, <1>7, <1>8
    <3>. QED  BY <3>1, <3>2, <1>6
  <2>3. CASE m # p /\ m # q /\ m # w
    <3>1. HeightOf(H2, L[m][i]) = HeightOf(H, L[m][i]) /\ R2[m] = R[m] /\ H2[m] = H[m]
      BY <2>3, <1>8, <1>9
    <3>. QED  BY <3>1, <1>5
  <2>. QED  BY <2>1, <2>2, <2>3
<1>11. ASSUME NEW m \in A PROVE H2[m] \in Nat
  <2>1. H[q] - 1 \in Nat
    <3>1. HeightOf(H, L[q][0]) \in Nat /\ H[q] = HeightOf(H, L[q][0]) + 1
      BY <1>6, <1>7 DEF Dirs
    <3>. QED  BY <3>1
  <2>2. H[q] \in Nat /\ H[m] \in Nat
    BY <1>4
  <2>. QED  BY <2>1, <2>2, <1>7, <1>8
<1>12. Heights(L, R2, A, H2)
  BY <1>8, <1>10, <1>11 DEF Heights
<1>. QED  BY <1>12

\* The top of the tree may lose its red.
LEMMA TopBlackened ==
  ASSUME NEW L, NEW D, NEW A, NEW B, Tree(L, D, A, B), NEW t \in A, t = L[HEAD][1],
         NEW R, NEW R2, ~R2[t], \A m \in A \ {t} : R2[m] = R[m],
         NEW H, Heights(L, R, A, H)
  PROVE  /\ \E H2 : Heights(L, R2, A, H2)
         /\ (\A m \in A : RedAlone(L, R, m)) => \A m \in A : RedAlone(L, R2, m)
<1>. DEFINE H2 == [H EXCEPT ![t] = H[t] + (IF R[t] THEN 1 ELSE 0)]
<1>1. /\ A \subseteq Nodes /\ NULL \notin A /\ HEAD \notin A
      /\ \A m \in A, i \in Dirs : L[m][i] # NULL => L[m][i] \in A
      /\ \A m \in A, i \in Dirs : L[m][i] # t
  <2>1. Typed(L, D, A, B) /\ Unshared(L, A)
    BY DEF Tree
  <2>2. A \subseteq Nodes /\ NULL \notin A /\ HEAD \notin A
        /\ \A m \in A, i \in Dirs : L[m][i] # NULL => L[m][i] \in A
    BY <2>1, TreeTypes
  <2>3. ASSUME NEW m \in A, NEW i \in Dirs PROVE L[m][i] # t
    BY <2>1, <2>2 DEF Unshared, Dirs
  <2>. QED  BY <2>2, <2>3
<1>2. H \in [Nodes -> Int] /\ \A m \in A : H[m] \in Nat
  BY DEF Heights
<1>3. \A m \in A, i \in Dirs : H[m] = HeightOf(H, L[m][i]) + (IF R[m] THEN 0 ELSE 1)
  BY DEF Heights
<1>4. /\ H2 \in [Nodes -> Int] /\ H2[t] = H[t] + (IF R[t] THEN 1 ELSE 0)
      /\ \A m \in A \ {t} : H2[m] = H[m]
  BY <1>1, <1>2
<1>. HIDE DEF H2
<1>5. \A m \in A, i \in Dirs : HeightOf(H2, L[m][i]) = HeightOf(H, L[m][i]) /\ HeightOf(H, L[m][i]) \in Nat
  BY <1>1, <1>2, <1>4 DEF HeightOf
<1>6. ASSUME NEW m \in A, NEW i \in Dirs
      PROVE  H2[m] = HeightOf(H2, L[m][i]) + (IF R2[m] THEN 0 ELSE 1)
  <2>0. HeightOf(H2, L[m][i]) = HeightOf(H, L[m][i]) /\ HeightOf(H, L[m][i]) \in Nat
        /\ H[m] = HeightOf(H, L[m][i]) + (IF R[m] THEN 0 ELSE 1)
    BY <1>3, <1>5
  <2>1. CASE m = t
    BY <2>0, <2>1, <1>4
  <2>2. CASE m # t
    <3>1. H2[m] = H[m] /\ R2[m] = R[m]
      BY <2>2, <1>4
    <3>. QED  BY <3>1, <2>0
  <2>. QED  BY <2>1, <2>2
<1>7. ASSUME NEW m \in A PROVE H2[m] \in Nat
  <2>1. H[m] \in Nat
    BY <1>2
  <2>2. CASE m = t
    BY <2>1, <2>2, <1>4
  <2>3. CASE m # t
    BY <2>1, <2>3, <1>4
  <2>. QED  BY <2>2, <2>3
<1>8. Heights(L, R2, A, H2)
  BY <1>4, <1>6, <1>7 DEF Heights
<1>9. ASSUME \A m \in A : RedAlone(L, R, m), NEW m \in A, R2[m], NEW i \in Dirs
      PROVE  Black(R2, L[m][i])
  <2>1. m # t /\ m \in A \ {t}
    BY <1>9
  <2>2. R[m]
    BY <2>1, <1>9
  <2>3. Black(R, L[m][i])
    BY <2>2, <1>9 DEF RedAlone
  <2>4. CASE L[m][i] # NULL
    <3>1. L[m][i] \in A \ {t}
      BY <2>4, <1>1
    <3>. QED  BY <3>1, <2>3, <2>4 DEF Black
  <2>. QED  BY <2>4 DEF Black
<1>. QED  BY <1>8, <1>9 DEF RedAlone

\* A red leaf adds nothing to a way down.
LEMMA LeafColours ==
  ASSUME NEW L, NEW D, NEW A, NEW B, Typed(L, D, A, B),
         NEW L2, NEW p, NEW dir, NEW n, IsLeaf(L, L2, A, p, dir, n),
         NEW R, NEW R2, R2[n], \A m \in A : R2[m] = R[m],
         NEW H, Heights(L, R, A, H)
  PROVE  Levelled(L2, R2, A \cup {n})
<1>. /\ p \in A /\ dir \in Dirs /\ L[p][dir] = NULL /\ n \in Nodes \ A
     /\ \A i \in Dirs : L2[n][i] = NULL
     /\ L2[p][dir] = n
     /\ \A m \in A, i \in Dirs : ~(m = p /\ i = dir) => L2[m][i] = L[m][i]
  BY DEF IsLeaf
<1>. DEFINE H2 == [H EXCEPT ![n] = 0]
<1>1. /\ A \subseteq Nodes /\ NULL \notin A /\ HEAD \notin A /\ n # NULL
      /\ \A m \in A, i \in Dirs : L[m][i] # NULL => L[m][i] \in A
  BY TreeTypes, RBTreeAssumption
<1>2. H \in [Nodes -> Int] /\ \A m \in A : H[m] \in Nat
  BY DEF Heights
<1>3. \A m \in A, i \in Dirs : H[m] = HeightOf(H, L[m][i]) + (IF R[m] THEN 0 ELSE 1)
  BY DEF Heights
<1>4. H2 \in [Nodes -> Int] /\ H2[n] = 0 /\ \A m \in A : H2[m] = H[m]
  BY <1>1, <1>2
<1>. HIDE DEF H2
<1>5. ASSUME NEW m \in A, NEW i \in Dirs
      PROVE  HeightOf(H2, L2[m][i]) = HeightOf(H, L[m][i])
  <2>1. CASE m = p /\ i = dir
    BY <2>1, <1>1, <1>4 DEF HeightOf
  <2>2. CASE ~(m = p /\ i = dir)
    <3>1. L2[m][i] = L[m][i]
      BY <2>2
    <3>. QED  BY <3>1, <1>1, <1>4 DEF HeightOf
  <2>. QED  BY <2>1, <2>2
<1>6. ASSUME NEW m \in A \cup {n}, NEW i \in Dirs
      PROVE  H2[m] = HeightOf(H2, L2[m][i]) + (IF R2[m] THEN 0 ELSE 1)
  <2>1. CASE m = n
    BY <2>1, <1>4 DEF HeightOf
  <2>2. CASE m \in A
    <3>1. R2[m] = R[m] /\ H2[m] = H[m] /\ HeightOf(H2, L2[m][i]) = HeightOf(H, L[m][i])
      BY <2>2, <1>4, <1>5
    <3>. QED  BY <2>2, <3>1, <1>3
  <2>. QED  BY <2>1, <2>2
<1>7. \A m \in A \cup {n} : H2[m] \in Nat
  BY <1>2, <1>4
<1>8. Heights(L2, R2, A \cup {n}, H2)
  BY <1>4, <1>6, <1>7 DEF Heights
<1>. QED  BY <1>8 DEF Levelled

Coloured(L, R, A, H) == Heights(L, R, A, H) /\ \A m \in A : RedAlone(L, R, m)

\* q, below p, is red or the top, and the others keep their colours without it.
CanGo(R, R2, A, p, q) == (R[q] \/ p = HEAD) /\ \A m \in A \ {q} : R2[m] = R[m]

\* A red node, or the top, with one child at most can be replaced by the child.
LEMMA UnlinkColours ==
  ASSUME NEW L, NEW D, NEW A, NEW B, Tree(L, D, A, B),
         NEW L2, NEW q, NEW j, NEW p, NEW at, IsUnlinked(L, L2, A, q, j, p, at),
         NEW R, NEW R2, CanGo(R, R2, A, p, q), NEW H, Coloured(L, R, A, H),
         NEW A1, A1 = A \ {q}
  PROVE  Coloured(L2, R2, A1, H)
<1>0. /\ \A m \in A \ {q} : R2[m] = R[m]
      /\ R[q] \/ p = HEAD
      /\ Heights(L, R, A, H)
      /\ \A m \in A : RedAlone(L, R, m)
  BY DEF CanGo, Coloured
<1>1. /\ q \in A /\ j \in Dirs /\ L[q][j] = NULL
      /\ p \in A \cup {HEAD} /\ at \in Dirs /\ L[p][at] = q
      /\ \A m \in (A \ {q}) \cup {HEAD}, i \in Dirs :
           L2[m][i] = IF m = p /\ i = at THEN L[q][Other(j)] ELSE L[m][i]
  BY DEF IsUnlinked
<1>2. /\ A \subseteq Nodes /\ NULL \notin A /\ HEAD \notin A /\ Other(j) \in Dirs
      /\ \A m \in A, i \in Dirs : L[m][i] # NULL => L[m][i] \in A
      /\ \A m \in A \cup {HEAD}, i \in Dirs : L[m][i] = q => m = p /\ i = at
  <2>1. Typed(L, D, A, B) /\ Unshared(L, A)
    BY DEF Tree
  <2>2. A \subseteq Nodes /\ NULL \notin A /\ HEAD \notin A
        /\ \A m \in A, i \in Dirs : L[m][i] # NULL => L[m][i] \in A
    BY <2>1, TreeTypes
  <2>3. ASSUME NEW m \in A \cup {HEAD}, NEW i \in Dirs, L[m][i] = q PROVE m = p /\ i = at
    BY <2>1, <2>2, <2>3, <1>1 DEF Unshared
  <2>. QED  BY <2>2, <2>3, <1>1, DirFacts
<1>3. \A m \in A, i \in Dirs : H[m] = HeightOf(H, L[m][i]) + (IF R[m] THEN 0 ELSE 1)
  BY <1>0 DEF Heights
<1>4. ASSUME NEW m \in A \ {q}, NEW i \in Dirs
      PROVE  H[m] = HeightOf(H, L2[m][i]) + (IF R2[m] THEN 0 ELSE 1)
  <2>0. R2[m] = R[m]
    BY <1>0
  <2>1. CASE m = p /\ i = at
    <3>1. R[q] /\ L2[m][i] = L[q][Other(j)]
      BY <2>1, <1>0, <1>1, <1>2
    <3>2. H[q] = HeightOf(H, L[q][Other(j)]) + 0
      BY <3>1, <1>1, <1>2, <1>3
    <3>3. HeightOf(H, L[q][Other(j)]) \in Int /\ HeightOf(H, q) = H[q]
      BY <1>0, <1>1, <1>2 DEF HeightOf, Heights
    <3>4. H[m] = HeightOf(H, q) + (IF R[m] THEN 0 ELSE 1)
      BY <2>1, <1>1, <1>3
    <3>. QED  BY <2>0, <3>1, <3>2, <3>3, <3>4
  <2>2. CASE ~(m = p /\ i = at)
    <3>1. L2[m][i] = L[m][i]
      BY <2>2, <1>1
    <3>2. H[m] = HeightOf(H, L[m][i]) + (IF R[m] THEN 0 ELSE 1)
      BY <1>3
    <3>. QED  BY <2>0, <3>1, <3>2
  <2>. QED  BY <2>1, <2>2
<1>5. Heights(L2, R2, A \ {q}, H)
  BY <1>0, <1>4 DEF Heights
<1>6. ASSUME NEW m \in A \ {q}, R2[m], NEW i \in Dirs
      PROVE  Black(R2, L2[m][i])
  <2>0. R[m]
    BY <1>0, <1>6
  <2>1. \A k \in Dirs : Black(R, L[m][k])
    BY <2>0, <1>0 DEF RedAlone
  <2>2. ~(m = p /\ i = at)
    <3>. SUFFICES ASSUME m = p, i = at PROVE FALSE
      OBVIOUS
    <3>1. R[q] /\ Black(R, L[p][at])
      BY <2>1, <1>0, <1>1, <1>2
    <3>. QED  BY <3>1, <1>1, <1>2 DEF Black
  <2>3. L2[m][i] = L[m][i]
    BY <2>2, <1>1
  <2>4. CASE L[m][i] # NULL
    <3>1. L[m][i] \in A \ {q}
      BY <2>2, <2>4, <1>2
    <3>2. R2[L[m][i]] = R[L[m][i]] /\ Black(R, L[m][i])
      BY <3>1, <2>1, <1>0
    <3>. QED  BY <3>2, <2>3, <2>4 DEF Black
  <2>. QED  BY <2>3, <2>4 DEF Black
<1>. QED  BY <1>5, <1>6 DEF RedAlone, Coloured
\* The black sibling w of a black q has a red outer child c: it is rotated over p,
\* and q, w take the red.
IsOuter(L, R, R2, A, p, last, q, w, c) ==
  /\ p \in A /\ last \in Dirs /\ q \in A /\ w \in A /\ c \in A
  /\ q = L[p][last] /\ w = L[p][Other(last)] /\ c = L[w][Other(last)]
  /\ ~R[q] /\ ~R[w] /\ R[c] /\ (R[p] \/ p = L[HEAD][1])
  /\ ~R2[p] /\ R2[q] /\ R2[w] /\ ~R2[c]
  /\ \A m \in A : m # p /\ m # q /\ m # w /\ m # c => R2[m] = R[m]

LEMMA SiblingOver ==
  ASSUME NEW L, NEW D, NEW A, NEW B, Tree(L, D, A, B), NEW R, NEW R2,
         NEW p, NEW last, NEW q, NEW w, NEW c, IsOuter(L, R, R2, A, p, last, q, w, c),
         NEW L2, NEW g, NEW at, IsRotation(L, L2, A, p, last, w, g, at),
         NEW H, Heights(L, R, A, H)
  PROVE  Levelled(L2, R2, A)
<1>0. /\ p \in A /\ last \in Dirs /\ q \in A /\ w \in A /\ c \in A
      /\ q = L[p][last] /\ w = L[p][Other(last)] /\ c = L[w][Other(last)]
      /\ ~R[q] /\ ~R[w] /\ R[c] /\ (R[p] \/ p = L[HEAD][1])
      /\ ~R2[p] /\ R2[q] /\ R2[w] /\ ~R2[c]
      /\ \A m \in A : m # p /\ m # q /\ m # w /\ m # c => R2[m] = R[m]
  BY DEF IsOuter
<1>. DEFINE R3 == [m \in A |-> IF m = p THEN FALSE ELSE IF m = q \/ m = w THEN TRUE ELSE R[m]]
            R4 == [m \in A |-> IF m = p THEN TRUE ELSE IF m = w THEN FALSE
                               ELSE IF m = q THEN TRUE ELSE R[m]]
<1>1. NULL \notin A /\ Other(last) \in Dirs /\ Other(last) # last /\ Other(Other(last)) = last
  BY <1>0, TreeTypes, DirFacts DEF Tree
<1>2. p # q /\ p # w /\ q # w /\ c # p /\ c # q /\ c # w
  <2>1. /\ Above(D, B, p, q) /\ Above(D, B, p, w) /\ Above(D, B, w, c)
        /\ Above(D, B, p, c) /\ \A m \in A : ~Above(D, B, m, m)
    <3>1. Above(D, B, p, q) /\ Above(D, B, p, w) /\ Above(D, B, w, c)
      BY <1>0, <1>1, AboveFacts
    <3>. QED  BY <1>0, <3>1, AboveFacts
  <2>2. Unshared(L, A)
    BY DEF Tree
  <2>3. q # w /\ c # q
    <3>1. c = q => w = p
      BY <2>2, <1>0, <1>1 DEF Unshared
    <3>2. q # w
      BY <2>2, <1>0, <1>1 DEF Unshared
    <3>. QED  BY <3>1, <3>2, <2>1, <1>0
  <2>. QED  BY <2>1, <2>3, <1>0
<1>3. PICK H3 : Heights(L, R3, A, H3)
  <2>1. ~R3[p] /\ R3[q] /\ R3[w] /\ \A m \in A : m # p /\ m # q /\ m # w => R3[m] = R[m]
    BY <1>0, <1>2
  <2>2. /\ Tree(L, D, A, B) /\ p \in A /\ last \in Dirs /\ q \in A /\ w \in A
        /\ q = L[p][last] /\ w = L[p][Other(last)]
        /\ ~R[q] /\ ~R[w] /\ (R[p] \/ p = L[HEAD][1]) /\ Heights(L, R, A, H)
    BY <1>0
  <2>. HIDE DEF R3
  <2>. QED  BY ONLY <2>1, <2>2, PushHeights
<1>4. Heights(L2, R4, A, [H3 EXCEPT ![p] = H3[w], ![w] = H3[p]])
  <2>1. ~R3[p] /\ R3[w] /\ R4[p] /\ ~R4[w] /\ \A m \in A \ {p, w} : R4[m] = R3[m]
    BY <1>0, <1>2
  <2>2. Tree(L, D, A, B) /\ IsRotation(L, L2, A, p, last, w, g, at)
    OBVIOUS
  <2>. HIDE DEF R3, R4
  <2>. QED  BY ONLY <2>1, <2>2, <1>3, RotationColours
<1>5. Tree(L2, D, A, BoundsRotated(B, p, last, w))
  BY RotationTree
<1>6. L2[w][last] = p /\ L2[w][Other(last)] = c
  <2>1. g # w /\ w # p
    BY RotationAlone
  <2>2. \A m \in A \cup {HEAD}, i \in Dirs :
       L2[m][i] = IF m = p /\ i = Other(last) THEN L[w][last]
                  ELSE IF m = w /\ i = last THEN p
                  ELSE IF m = g /\ i = at THEN w
                  ELSE L[m][i]
    BY DEF IsRotation
  <2>. QED  BY <2>1, <2>2, <1>0, <1>1
<1>7. /\ ~R4[w] /\ R4[p] /\ R4[c]
      /\ \A m \in A : m # p /\ m # w /\ m # c => R2[m] = R4[m]
  BY <1>0, <1>2
<1>. HIDE DEF R3, R4
<1>8. BothRed(L2, R4, w)
  <2>1. \A i \in Dirs : L2[w][i] \in {p, c}
    BY <1>0, <1>6, DirFacts
  <2>. QED  BY <2>1, <1>0, <1>1, <1>7 DEF BothRed, Black
<1>9. \A i \in Dirs : ~R2[L2[w][i]]
  BY <1>0, <1>6, DirFacts
<1>10. \A m \in A : m # w /\ (\A i \in Dirs : m # L2[w][i]) => R2[m] = R4[m]
  BY <1>0, <1>6, <1>7, <1>1
<1>11. PICK H4 : Heights(L2, R4, A, H4)
  BY <1>4
<1>12. PICK B2 : Tree(L2, D, A, B2)
  BY <1>5
<1>13. ~R4[w] /\ R2[w]
  BY <1>0, <1>7
<1>14. w \in A
  BY <1>0
<1>15. \E H2 : Heights(L2, R2, A, H2)
  BY ONLY <1>8, <1>9, <1>10, <1>11, <1>12, <1>13, <1>14, FlipColours, SMTT(30)
<1>. QED  BY <1>15 DEF Levelled

\* After it only q and the new top of the three are red, and their children are black.
IsPushed(L, L2, R, R2, A, p, last, q, top) ==
  /\ p \in A /\ last \in Dirs /\ q \in A /\ top \in A /\ q = L[p][last] /\ top # q
  /\ \A m \in A : RedAlone(L, R, m)
  /\ AllBlackAt(L, R, q)
  /\ \A m \in A : R2[m] /\ m # q /\ m # top => R[m]
  /\ ~R2[p]
  /\ \A i \in Dirs : Black(R2, L2[top][i])
  /\ \A m \in A, i \in Dirs : R2[m] /\ m # top => L2[m][i] = L[m][i] /\ L[m][i] # top

LEMMA PushedAlone ==
  ASSUME NEW L, NEW D, NEW A, NEW B, Tree(L, D, A, B), NEW L2, NEW R, NEW R2,
         NEW p, NEW last, NEW q, NEW top, IsPushed(L, L2, R, R2, A, p, last, q, top)
  PROVE  \A m \in A : RedAlone(L2, R2, m)
<1>0. /\ p \in A /\ last \in Dirs /\ q \in A /\ top \in A /\ q = L[p][last] /\ top # q
      /\ \A m \in A : RedAlone(L, R, m)
      /\ AllBlackAt(L, R, q)
      /\ \A m \in A : R2[m] /\ m # q /\ m # top => R[m]
      /\ ~R2[p]
      /\ \A i \in Dirs : Black(R2, L2[top][i])
      /\ \A m \in A, i \in Dirs : R2[m] /\ m # top => L2[m][i] = L[m][i] /\ L[m][i] # top
  BY DEF IsPushed
<1>1. /\ NULL \notin A
      /\ \A m \in A, i \in Dirs : L[m][i] # NULL => L[m][i] \in A
      /\ \A m \in A, i \in Dirs : L[m][i] = q => m = p
  <2>1. Typed(L, D, A, B) /\ Unshared(L, A)
    BY DEF Tree
  <2>2. NULL \notin A /\ \A m \in A, i \in Dirs : L[m][i] # NULL => L[m][i] \in A
    BY <2>1, TreeTypes
  <2>. QED  BY <1>0, <2>1, <2>2 DEF Unshared
<1>2. ASSUME NEW m \in A, R2[m], NEW i \in Dirs
      PROVE  Black(R2, L2[m][i])
  <2>1. CASE m # top
    <3>1. L2[m][i] = L[m][i] /\ L[m][i] # top /\ m # p
      BY <2>1, <1>2, <1>0
    <3>2. Black(R, L[m][i])
      <4>1. CASE m = q
        BY <4>1, <1>0 DEF AllBlackAt
      <4>2. CASE m # q
        <5>1. R[m]
          BY <2>1, <4>2, <1>2, <1>0
        <5>. QED  BY <5>1, <1>0 DEF RedAlone
      <4>. QED  BY <4>1, <4>2
    <3>3. L[m][i] # q
      BY <3>1, <1>1
    <3>. QED  BY <3>1, <3>2, <3>3, <1>1, <2>1, <1>0, <1>2 DEF Black
  <2>. QED  BY <2>1, <1>0
<1>. QED  BY <1>2 DEF RedAlone
-----------------------------------------------------------------------------
(* The calls                                                               *)

RefsOf(D, A) == [d \in Data |-> IF \E n \in A : D[n] = d THEN 1 ELSE 0]

\* What the heap of a call that changes the tree is like when it returns.
Returnable(h, A, i) ==
  /\ h \in Heaps /\ h.bug = "none" /\ A \subseteq Nodes
  /\ \E B \in [Nodes -> [Dirs -> MaybeNode]], H \in [Nodes -> Int] :
       /\ Tree(h.link, h.data, A, B)
       /\ Heights(h.link, h.red, A, H)
       /\ ~i => \A n \in A : RedAlone(h.link, h.red, n)

LEMMA FrameFacts ==
  /\ NoFrame \in Frames
  /\ NoFrame.call = "none"
  /\ NoIterator \in [node : MaybeNode, path : Seq(Nodes)]
  /\ NoIterator.node = NULL /\ NoIterator.path = <<>>
  /\ NoLinks \in [Dirs -> MaybeNode]
  /\ HEAD \notin Nodes /\ NULL \notin Nodes
BY RBTreeAssumption DEF NoFrame, Frames, NoIterator, MaybeNode, Pointers, Dirs, NoLinks

LEMMA ReturnSound ==
  ASSUME TypeOK, NEW h, NEW result \in {"success", "no space", "invalid argument"},
         frame.call \in {"insert", "remove"},
         Return(h, result), Returnable(h, allocated', inner'),
         size' \in -MaxRemoves .. MaxSize, inner' \in BOOLEAN,
         refs' = RefsOf(h.data, allocated')
  PROVE  IInv' /\ heap'.data = h.data /\ it'.node = NULL
<1>. USE FrameFacts
<1>1. /\ heap' = [h EXCEPT !.link[HEAD] = NoLinks]
      /\ root' = h.link[HEAD][1]
      /\ frame' = NoFrame
      /\ answer' = <<frame.call, result>>
      /\ it' = NoIterator
  BY DEF Return
<1>2. /\ h \in Heaps /\ h.bug = "none" /\ allocated' \subseteq Nodes
  BY DEF Returnable
<1>2a. PICK B \in [Nodes -> [Dirs -> MaybeNode]], H \in [Nodes -> Int] :
              /\ Tree(h.link, h.data, allocated', B)
              /\ Heights(h.link, h.red, allocated', H)
              /\ ~inner' => \A n \in allocated' : RedAlone(h.link, h.red, n)
  BY DEF Returnable
<1>3. /\ h.link \in [Nodes \cup {HEAD} -> [Dirs -> MaybeNode]]
      /\ h.red \in [Nodes -> BOOLEAN]
      /\ h.data \in [Nodes -> Data \cup {NULL}]
      /\ h = [red |-> h.red, data |-> h.data, link |-> h.link, bug |-> h.bug]
  BY <1>2 DEF Heaps
<1>4. heap' = [red |-> h.red, data |-> h.data, link |-> [h.link EXCEPT ![HEAD] = NoLinks], bug |-> h.bug]
  BY <1>1, <1>3
<1>5. heap' \in Heaps
  <2>1. [h.link EXCEPT ![HEAD] = NoLinks] \in [Nodes \cup {HEAD} -> [Dirs -> MaybeNode]]
    BY <1>3
  <2>. QED  BY <2>1, <1>2, <1>3, <1>4 DEF Heaps
<1>6. /\ heap'.data = h.data /\ heap'.red = h.red /\ heap'.bug = "none"
      /\ heap'.link = [h.link EXCEPT ![HEAD] = NoLinks]
  BY <1>2, <1>4
<1>7. root' \in MaybeNode
  <2>1. h.link[HEAD] \in [Dirs -> MaybeNode] /\ 1 \in Dirs
    BY <1>3 DEF Dirs
  <2>. QED  BY <2>1, <1>1
<1>8. Whole' = h.link
  <2>1. h.link[HEAD][0] = NULL /\ h.link[HEAD] \in [Dirs -> MaybeNode]
    BY <1>2a, <1>3 DEF Tree, TopOf
  <2>2. h.link[HEAD] = [i \in Dirs |-> IF i = 1 THEN root' ELSE NULL]
    BY <2>1, <1>1 DEF Dirs
  <2>3. Whole' = [heap'.link EXCEPT ![HEAD] = [i \in Dirs |-> IF i = 1 THEN root' ELSE NULL]]
    BY <1>1 DEF Whole
  <2>4. [[h.link EXCEPT ![HEAD] = NoLinks] EXCEPT ![HEAD] = h.link[HEAD]] = h.link
    BY <1>3
  <2>. QED  BY <2>2, <2>3, <2>4, <1>6
<1>9. TypeOK'
  <2>1. refs' \in [Data -> {0, 1}]
    BY DEF RefsOf
  <2>2. answer' \in ({"insert", "remove"} \X {"success", "no space", "invalid argument"})
    BY <1>1
  <2>. QED  BY <2>1, <2>2, <1>1, <1>2, <1>5, <1>7 DEF TypeOK
<1>10. BlackRootNeverPanics'
  BY <1>6 DEF BlackRootNeverPanics
<1>11. RefsInv'
  BY <1>6 DEF RefsInv, RefsOf
<1>12. CallInv(Whole, heap.data, heap.red, allocated, B)'
  <2>1. heap'.link[HEAD] = NoLinks
    BY <1>3, <1>6
  <2>2. IteratorInv(Whole, allocated)'
    BY <1>1 DEF IteratorInv
  <2>. QED  BY <2>1, <2>2, <1>1 DEF CallInv, InIterator, Walks
<1>13. Sound(Whole, heap.data, heap.red, allocated, B, H)'
  BY <1>2a, <1>6, <1>8, <1>12 DEF Sound
<1>14. IInv'
  BY <1>1, <1>9, <1>10, <1>11, <1>13 DEF IInv
<1>. QED  BY <1>1, <1>6, <1>14
-----------------------------------------------------------------------------
(* The part of a tree below a node                                         *)

\* The library's induction rules take an operator as a parameter, which the provers
\* cannot instantiate; the least of some numbers does as well.
LEMMA Smallest ==
  ASSUME NEW T, T # {}, NEW f, \A x \in T : f[x] \in Nat
  PROVE  \E x \in T : \A y \in T : f[x] <= f[y]
<1>. DEFINE V == {f[x] : x \in T}
<1>1. PICK v \in V : \A w \in V : ~ (<<w, v>> \in OpToRel(<, Nat))
  <2>1. V \subseteq Nat /\ V # {}
    OBVIOUS
  <2>. HIDE DEF V
  <2>. QED  BY <2>1, NatLessThanWellFounded, WFMin
<1>2. PICK x \in T : v = f[x]
  OBVIOUS
<1>3. ASSUME NEW y \in T PROVE f[x] <= f[y]
  <2>1. f[y] \in V /\ f[x] \in Nat /\ f[y] \in Nat
    OBVIOUS
  <2>2. ~(f[y] < f[x])
    BY <2>1, <1>1, <1>2 DEF OpToRel
  <2>. QED  BY <2>1, <2>2
<1>. QED  BY <1>3

\* The part of the tree from n down, and its size.
Part(D, A, B, n) == {m \in A : Within(D, B, n, D[m])}

Sizes(D, A, B) == [n \in A |-> Cardinality(Part(D, A, B, n))]

LEMMA PartsShrink ==
  ASSUME NEW L, NEW D, NEW A, NEW B, Tree(L, D, A, B)
  PROVE  /\ \A n \in A : Sizes(D, A, B)[n] \in Nat /\ Sizes(D, A, B)[n] > 0
         /\ \A n \in A, i \in Dirs : L[n][i] # NULL =>
              L[n][i] \in A /\ Sizes(D, A, B)[L[n][i]] < Sizes(D, A, B)[n]
<1>1. IsFiniteSet(A) /\ \A n \in A : D[n] \in Int
  <2>1. A \subseteq Nodes /\ IsFiniteSet(Nodes)
    BY TreeTypes, RBTreeAssumption DEF Tree
  <2>. QED  BY <2>1, FS_Subset, TreeTypes DEF Tree
<1>2. \A n \in A : n \in Part(D, A, B, n)
  BY DEF Part, Tree, Ordered
<1>3. ASSUME NEW n \in A
      PROVE  /\ IsFiniteSet(Part(D, A, B, n))
             /\ Sizes(D, A, B)[n] = Cardinality(Part(D, A, B, n)) /\ Sizes(D, A, B)[n] \in Nat
             /\ Sizes(D, A, B)[n] > 0
  <2>1. Part(D, A, B, n) \in SUBSET A
    BY DEF Part
  <2>2. IsFiniteSet(Part(D, A, B, n))
    BY <2>1, <1>1, FS_Subset
  <2>3. Cardinality(Part(D, A, B, n)) \in Nat
    BY <2>2, FS_CardinalityType
  <2>4. Cardinality(Part(D, A, B, n)) # 0
    BY <2>2, <1>2, FS_EmptySet
  <2>. QED  BY <2>2, <2>3, <2>4 DEF Sizes
<1>4. ASSUME NEW n \in A, NEW i \in Dirs, L[n][i] # NULL
      PROVE  L[n][i] \in A /\ Sizes(D, A, B)[L[n][i]] < Sizes(D, A, B)[n]
  <2>. DEFINE c == L[n][i]
              S == Part(D, A, B, n)
              T == Part(D, A, B, c)
  <2>1. c \in A
    BY <1>4, TreeTypes DEF Tree
  <2>2. \A z \in Int : Within(D, B, c, z) <=> Within(D, B, n, z) /\ Before(i, D[n], z)
    BY <1>4, ChildWithin
  <2>3. T \in SUBSET S /\ n \notin T /\ n \in S
    <3>1. n \notin T
      BY <2>2, <1>1, BeforeFacts DEF Part
    <3>2. T \in SUBSET S
      BY <2>2, <1>1 DEF Part
    <3>. QED  BY <3>1, <3>2, <1>2
  <2>4. IsFiniteSet(S) /\ Cardinality(S) \in Nat /\ Cardinality(T) \in Nat
        /\ Sizes(D, A, B)[c] = Cardinality(T) /\ Sizes(D, A, B)[n] = Cardinality(S)
    BY <2>1, <1>3
  <2>. HIDE DEF S, T
  <2>5. Cardinality(T) <= Cardinality(S) /\ Cardinality(T) # Cardinality(S)
    BY <2>3, <2>4, FS_Subset
  <2>. QED  BY <2>1, <2>4, <2>5
<1>. QED  BY <1>3, <1>4

LEMMA UnderIs ==
  ASSUME NEW L, NEW B, Tree(L, heap.data, allocated, B),
         \A m \in allocated : L[m] = heap.link[m]
  PROVE  /\ Under(NULL) = {}
         /\ \A n \in allocated : Under(n) = Part(heap.data, allocated, B, n)
<1>. DEFINE A == allocated
            D == heap.data
<1>1. /\ A \subseteq Nodes /\ NULL \notin A /\ \A m \in A : D[m] \in Int
      /\ \A m \in A, i \in Dirs : heap.link[m][i] \in A \cup {NULL} /\ heap.link[m][i] = L[m][i]
      /\ Ordered(D, A, B)
  <2>1. \A m \in A, i \in Dirs : L[m][i] \in A \cup {NULL}
    BY DEF Tree, Typed
  <2>. QED  BY <2>1, TreeTypes DEF Tree
<1>2. Under(NULL) = {}
  <2>1. {} \in SUBSET Nodes /\ {NULL} \ {NULL} \subseteq {}
    OBVIOUS
  <2>. QED  BY <2>1 DEF Under
<1>3. ASSUME NEW n \in A
      PROVE  Under(n) = Part(D, A, B, n)
  <2>1. Under(n) \subseteq Part(D, A, B, n)
    <3>. DEFINE S == Part(D, A, B, n)
    <3>1. S \in SUBSET Nodes /\ {n} \ {NULL} \subseteq S
      BY <1>1 DEF Part, Ordered
    <3>2. ASSUME NEW k \in S, NEW i \in Dirs
          PROVE  heap.link[k][i] \in S \cup {NULL}
      <4>. DEFINE c == heap.link[k][i]
      <4>. SUFFICES ASSUME c # NULL PROVE c \in S
        OBVIOUS
      <4>1. k \in A /\ Within(D, B, n, D[k])
        BY DEF Part
      <4>2. c \in A /\ c = L[k][i]
        BY <4>1, <1>1
      <4>3. Within(D, B, c, D[c])
        BY <4>2, <1>1 DEF Ordered
      <4>4. Within(D, B, k, D[c])
        BY <4>1, <4>2, <4>3, <1>1, ChildWithin
      <4>5. Within(D, B, n, D[c])
        BY <4>1, <4>2, <4>4, <1>1 DEF Ordered
      <4>. QED  BY <4>2, <4>5 DEF Part
    <3>. HIDE DEF S
    <3>. QED  BY <3>1, <3>2 DEF Under, S
  <2>2. ASSUME NEW m \in Part(D, A, B, n), NEW S \in SUBSET Nodes,
               {n} \ {NULL} \subseteq S, \A k \in S, i \in Dirs : heap.link[k][i] \in S \cup {NULL}
        PROVE  m \in S
    <3>. DEFINE T == {k \in S \cap A : Within(D, B, k, D[m])}
                f == Sizes(D, A, B)
    <3>1. n \in T /\ m \in A
      BY <2>2, <1>1 DEF Part
    <3>2. PICK k \in T : \A y \in T : f[k] <= f[y]
      <4>1. \A x \in T : f[x] \in Nat
        BY PartsShrink
      <4>. HIDE DEF T, f
      <4>. QED  BY <3>1, <4>1, Smallest
    <3>. SUFFICES ASSUME k # m PROVE FALSE
      OBVIOUS
    <3>3. PICK i \in Dirs : L[k][i] \in A /\ Within(D, B, L[k][i], D[m])
      BY <3>1, Down
    <3>4. L[k][i] \in T
      <4>1. L[k][i] \in S
        BY <3>3, <2>2, <1>1
      <4>. QED  BY <4>1, <3>3
    <3>5. f[L[k][i]] < f[k] /\ f[k] \in Nat /\ f[L[k][i]] \in Nat
      <4>1. L[k][i] # NULL
        BY <3>3, <1>1
      <4>. QED  BY <4>1, <3>3, PartsShrink
    <3>6. f[k] <= f[L[k][i]]
      BY <3>2, <3>4
    <3>. HIDE DEF f
    <3>. QED  BY <3>5, <3>6
  <2>3. Part(D, A, B, n) \subseteq Under(n)
    <3>1. Part(D, A, B, n) \subseteq Nodes
      BY <1>1 DEF Part
    <3>. QED  BY <2>2, <3>1 DEF Under
  <2>. QED  BY <2>1, <2>3
<1>. QED  BY <1>2, <1>3

\* No link leads out of the part of the tree from q down.
Kept(h, h2, A, B, q) ==
  \A m \in A, i \in Dirs :
    Within(h.data, B, q, h.data[m]) /\ h2.link[m][i] # NULL
    => h2.link[m][i] \in A /\ Within(h.data, B, q, h.data[h2.link[m][i]])

\* The links in it are the same.
LinksStay(h, h2, A, B, q) ==
  \A m \in A, i \in Dirs :
    Within(h.data, B, q, h.data[m]) => h2.link[m][i] = h.link[m][i]

LEMMA KeptIs ==
  ASSUME NEW h, NEW A, NEW B, Tree(h.link, h.data, A, B),
         NEW q \in A, NEW c \in A, Within(h.data, B, q, h.data[c]),
         NEW h2, LinksStay(h, h2, A, B, q)
  PROVE  Kept(h, h2, A, B, c)
<1>. DEFINE D == h.data
<1>1. ASSUME NEW m \in A, NEW i \in Dirs, Within(D, B, c, D[m]), h2.link[m][i] # NULL
      PROVE  h2.link[m][i] \in A /\ Within(D, B, c, D[h2.link[m][i]])
  <2>1. Within(D, B, q, D[m])
    BY <1>1 DEF Tree, Ordered
  <2>2. h2.link[m][i] = h.link[m][i]
    BY <1>1, <2>1 DEF LinksStay
  <2>3. h.link[m][i] \in A /\ Above(D, B, m, h.link[m][i])
    BY <1>1, <2>2, AboveFacts
  <2>4. Above(D, B, c, h.link[m][i])
    BY <1>1, <2>3, AboveFacts
  <2>. QED  BY <2>2, <2>3, <2>4 DEF Above
<1>. QED  BY <1>1 DEF Kept

\* What a round does to the nodes that its loop may still come to.
Shrinks ==
  frame.call # "none" /\ frame'.call # "none" /\ heap'.bug = "none" =>
    IF InIterator /\ frame.climbs THEN Len(frame'.path) < Len(frame.path)
    ELSE Remaining' \subseteq Remaining /\ Remaining' # Remaining

\* A round that goes down a link, and lets no link lead out of what is below it.
LEMMA Shrinking ==
  ASSUME NEW L, NEW B, Tree(L, heap.data, allocated, B),
         \A m \in allocated : L[m] = heap.link[m],
         frame.q \in allocated \cup {HEAD},
         frame.q = HEAD => L = heap.link,
         NEW i \in Dirs, frame'.q = heap.link[frame.q][i], frame.q = HEAD => i = 1,
         frame'.q # NULL => Kept(heap, heap', allocated, B, frame'.q)
  PROVE  Remaining' \subseteq Remaining /\ Remaining' # Remaining
<1>. DEFINE A == allocated
            D == heap.data
            q == frame.q
            c == frame'.q
<1>1. /\ A \subseteq Nodes /\ NULL \notin A /\ HEAD \notin A /\ NULL # HEAD /\ HEAD \notin Nodes
      /\ \A m \in A : D[m] \in Int /\ Within(D, B, m, D[m])
  BY TreeTypes, RBTreeAssumption DEF Tree, Ordered
<1>2. /\ Under(NULL) = {}
      /\ \A n \in A : Under(n) = Part(D, A, B, n)
  BY UnderIs
<1>3. q = HEAD => Remaining = {HEAD} \cup Under(c)
  BY DEF Remaining
<1>4. q \in A => Remaining = Part(D, A, B, q)
  BY <1>1, <1>2 DEF Remaining
<1>5. CASE c = NULL
  <2>1. Remaining' = {}
    <3>1. Remaining' = Under(frame.q)'
      BY <1>1, <1>5 DEF Remaining
    <3>2. {} \in SUBSET Nodes /\ {frame'.q} \ {NULL} \subseteq {}
      BY <1>5
    <3>. QED  BY <3>1, <3>2 DEF Under
  <2>2. Remaining # {}
    <3>1. q \in A => q \in Part(D, A, B, q)
      BY <1>1 DEF Part
    <3>. QED  BY <3>1, <1>3, <1>4
  <2>. QED  BY <2>1, <2>2
<1>6. CASE c # NULL
  <2>. DEFINE S == Part(D, A, B, c)
  <2>1. c \in A
    <3>1. L[q][i] = c
      OBVIOUS
    <3>. QED  BY <3>1, <1>6, TreeTypes DEF Tree
  <2>2. Remaining' \subseteq S
    <3>1. S \in SUBSET Nodes /\ {frame'.q} \ {NULL} \subseteq S
      BY <2>1, <1>1 DEF Part
    <3>2. \A k \in S, j \in Dirs : heap'.link[k][j] \in S \cup {NULL}
      BY <1>6 DEF Part, Kept
    <3>3. Remaining' = Under(frame.q)'
      BY <2>1, <1>1 DEF Remaining
    <3>. HIDE DEF S
    <3>. QED  BY <3>1, <3>2, <3>3 DEF Under
  <2>3. CASE q = HEAD
    <3>1. Remaining = {HEAD} \cup S
      BY <2>1, <2>3, <1>2, <1>3
    <3>2. HEAD \notin S
      BY <1>1 DEF Part
    <3>. QED  BY <3>1, <3>2, <2>2
  <2>4. CASE q \in A
    <3>1. L[q][i] = c
      BY <2>4
    <3>2. \A z \in Int : Within(D, B, c, z) <=> Within(D, B, q, z) /\ Before(i, D[q], z)
      BY <3>1, <2>4, <1>6, ChildWithin
    <3>3. S \subseteq Part(D, A, B, q)
      BY <3>2, <1>1 DEF Part
    <3>4. q \notin S
      BY <3>2, <2>4, <1>1, BeforeFacts DEF Part
    <3>5. q \in Part(D, A, B, q)
      BY <2>4, <1>1 DEF Part
    <3>. QED  BY <3>3, <3>4, <3>5, <2>2, <2>4, <1>4
  <2>. QED  BY <2>3, <2>4
<1>. QED  BY <1>5, <1>6

LEMMA ShrinkingStill ==
  ASSUME NEW L, NEW B, Tree(L, heap.data, allocated, B),
         \A m \in allocated : L[m] = heap.link[m],
         heap' = heap, frame.q \in allocated,
         NEW i \in Dirs, frame'.q = heap.link[frame.q][i]
  PROVE  Remaining' \subseteq Remaining /\ Remaining' # Remaining
<1>. DEFINE A == allocated
            D == heap.data
            c == frame'.q
<1>1. ASSUME c # NULL PROVE Kept(heap, heap', A, B, c)
  <2>1. L[frame.q][i] = c
    OBVIOUS
  <2>2. c \in A
    BY <2>1, <1>1, TreeTypes DEF Tree
  <2>3. ASSUME NEW m \in A, NEW j \in Dirs, Within(D, B, c, D[m]), heap.link[m][j] # NULL
        PROVE  heap.link[m][j] \in A /\ Within(D, B, c, D[heap.link[m][j]])
    <3>1. L[m][j] \in A /\ Above(D, B, m, L[m][j]) /\ L[m][j] = heap.link[m][j]
      BY <2>3, AboveFacts
    <3>2. Above(D, B, c, L[m][j])
      BY <2>2, <2>3, <3>1, AboveFacts
    <3>. QED  BY <3>1, <3>2 DEF Above
  <2>. QED  BY <2>3 DEF Kept
<1>2. frame.q # HEAD
  BY TreeTypes DEF Tree
<1>. QED  BY <1>1, <1>2, Shrinking
\* A call that changes the tree goes on with the data where they are.
LEMMA GoesOnSound ==
  ASSUME TypeOK, frame.call \in {"insert", "remove"}, frame' \in Frames, frame'.call = frame.call,
         heap' \in Heaps, heap'.bug = "none", heap'.data = heap.data,
         UNCHANGED <<treeVars, answer, it>>, inner' \in BOOLEAN,
         it.node \in allocated \cup {NULL}, RefsInv,
         NEW B \in [Nodes -> [Dirs -> MaybeNode]], NEW H \in [Nodes -> Int],
         Tree(heap'.link, heap'.data, allocated, B),
         Heights(heap'.link, heap'.red, allocated, H),
         ~inner' => \A n \in allocated : RedAlone(heap'.link, heap'.red, n),
         frame.call = "insert" =>
           InsertInv(heap'.link, heap'.data, heap'.red, allocated, B, frame'),
         frame.call = "remove" =>
           /\ RemoveInv(heap'.link, heap'.data, heap'.red, allocated, B, frame')
           /\ size > -MaxRemoves /\ ~inner'
  PROVE  IInv' /\ UNCHANGED Set!vars
<1>1. TypeOK'
  BY DEF TypeOK, treeVars
<1>2. BlackRootNeverPanics' /\ RefsInv' /\ it'.node \in allocated' \cup {NULL}
  <2>1. allocated' = allocated /\ refs' = refs /\ it' = it
    BY DEF treeVars
  <2>2. BlackRootNeverPanics'
    BY DEF BlackRootNeverPanics
  <2>3. RefsInv'
    BY <2>1 DEF RefsInv
  <2>. QED  BY <2>1, <2>2, <2>3
<1>3. Whole' = heap'.link
  BY DEF Whole
<1>4. CallInv(Whole, heap.data, heap.red, allocated, B)'
  BY <1>3 DEF CallInv, InIterator, Walks, treeVars
<1>5. allocated' = allocated
  BY DEF treeVars
<1>6. Sound(Whole, heap.data, heap.red, allocated, B, H)'
  BY <1>3, <1>4, <1>5 DEF Sound
<1>7. IInv'
  BY <1>1, <1>2, <1>6 DEF IInv
<1>8. UNCHANGED Set!vars
  BY <1>5 DEF Set!vars, treeVars
<1>. QED  BY <1>7, <1>8

\* h1 is h after a flip at q: the colours of the nodes above q and beside it are kept.
IsFlipped(h, h1, A, B, q) ==
  /\ h1 \in Heaps /\ h1.data = h.data /\ h1.link = h.link /\ h1.bug = h.bug
  /\ \E H1 : Heights(h.link, h1.red, A, H1)
  /\ \A m \in A : RedAlone(h.link, h.red, m) /\ (\A i \in Dirs : h.link[m][i] # q)
                  => RedAlone(h.link, h1.red, m)
  /\ RedAlone(h.link, h1.red, q)
  /\ ~BothRed(h.link, h1.red, q)
  /\ \/ h1 = h
     \/ /\ BothRed(h.link, h.red, q) /\ ~h.red[q] /\ h1.red[q]
        /\ \A i \in Dirs : AllBlackAt(h.link, h1.red, h.link[q][i])
  /\ \A m \in A : m # q /\ ~Above(h.data, B, q, m) => h1.red[m] = h.red[m]

LEMMA FlippedIs ==
  ASSUME NEW h \in Heaps, NEW A, NEW B, Tree(h.link, h.data, A, B), NEW q \in A,
         \A m \in A : Within(h.data, B, q, h.data[m]) => RedAlone(h.link, h.red, m),
         NEW H, Heights(h.link, h.red, A, H)
  PROVE  IsFlipped(h, Flipped(h, q), A, B, q)
<1>. DEFINE L == h.link
            R == h.red
            c == L[q][0]
            k == L[q][1]
            h1 == Flipped(h, q)
            R1 == [[[R EXCEPT ![q] = TRUE] EXCEPT ![c] = FALSE] EXCEPT ![k] = FALSE]
<1>1. /\ L \in [Nodes \cup {HEAD} -> [Dirs -> MaybeNode]] /\ R \in [Nodes -> BOOLEAN]
      /\ h.data \in [Nodes -> Data \cup {NULL}]
      /\ h.bug \in {"none", "BUG_ON", "null", "freed"}
      /\ h = [red |-> R, data |-> h.data, link |-> L, bug |-> h.bug]
  BY DEF Heaps
<1>2. /\ A \subseteq Nodes /\ NULL \notin A
      /\ \A m \in A, i \in Dirs : L[m][i] # NULL => L[m][i] \in A
  BY TreeTypes DEF Tree
<1>3. \A m \in A : Within(h.data, B, q, h.data[m]) => RedAlone(L, R, m)
  OBVIOUS
<1>4. /\ Within(h.data, B, q, h.data[q])
      /\ \A i \in Dirs : L[q][i] # NULL => Above(h.data, B, q, L[q][i])
      /\ ~Above(h.data, B, q, q)
  BY AboveFacts
<1>5. RedAlone(L, R, q)
  BY <1>3, <1>4
<1>6. BothRed(L, R, q) <=> IsRed(h, c) /\ IsRed(h, k)
  BY DEF BothRed, Black, IsRed, Dirs
<1>7. CASE ~BothRed(L, R, q)
  <2>1. h1 = h
    BY <1>6, <1>7 DEF Flipped
  <2>. HIDE DEF h1
  <2>. QED  BY <1>5, <1>7, <2>1 DEF h1, IsFlipped
<1>8. CASE BothRed(L, R, q)
  <2>1. c \in A /\ k \in A /\ R[c] /\ R[k] /\ ~R[q] /\ c # q /\ k # q
    <3>1. c # NULL /\ k # NULL /\ R[c] /\ R[k]
      BY <1>8 DEF BothRed, Black, Dirs
    <3>2. ~R[q]
      BY <3>1, <1>5 DEF RedAlone, Black, Dirs
    <3>. QED  BY <3>1, <3>2, <1>2 DEF Dirs
  <2>1a. \A i \in Dirs : L[q][i] = c \/ L[q][i] = k
    BY DEF Dirs
  <2>2. /\ R1 \in [Nodes -> BOOLEAN] /\ R1[q] /\ ~R1[c] /\ ~R1[k]
        /\ \A m \in Nodes : m # q /\ m # c /\ m # k => R1[m] = R[m]
    BY <1>1, <1>2, <2>1
  <2>3. h1 = [red |-> R1, data |-> h.data, link |-> L, bug |-> h.bug]
    BY <1>1, <1>6, <1>8 DEF Flipped
  <2>. HIDE DEF R1, h1
  <2>4. h1 \in Heaps /\ h1.data = h.data /\ h1.link = L /\ h1.bug = h.bug /\ h1.red = R1
    BY <1>1, <2>2, <2>3 DEF Heaps
  <2>5. \E H1 : Heights(L, R1, A, H1)
    <3>1. \A i \in Dirs : ~R1[L[q][i]]
      BY <2>1a, <2>2
    <3>2. \A m \in A : m # q /\ (\A i \in Dirs : m # L[q][i]) => R1[m] = R[m]
      BY <1>2, <2>2 DEF Dirs
    <3>3. ~R[q] /\ R1[q] /\ BothRed(L, R, q) /\ Heights(L, R, A, H) /\ q \in A
      BY <1>8, <2>1, <2>2
    <3>4. Tree(L, h.data, A, B)
      OBVIOUS
    <3>. HIDE DEF L, R
    <3>. QED  BY ONLY <3>1, <3>2, <3>3, <3>4, FlipColours, SMTT(30)
  <2>6. \A m \in A : m # q /\ R1[m] => R[m]
    BY <1>2, <2>2
  <2>7. ASSUME NEW m \in A, RedAlone(L, R, m), \A i \in Dirs : L[m][i] # q
        PROVE  RedAlone(L, R1, m)
    <3>1. CASE m = q
      BY <3>1, <2>1a, <2>2 DEF RedAlone, Black
    <3>2. CASE m # q
      <4>. SUFFICES ASSUME R1[m], NEW i \in Dirs, L[m][i] # NULL PROVE ~R1[L[m][i]]
        BY DEF RedAlone, Black
      <4>1. ~R[L[m][i]] /\ L[m][i] \in A /\ L[m][i] # q
        BY <3>2, <2>6, <2>7, <1>2 DEF RedAlone, Black
      <4>. QED  BY <4>1, <2>6
    <3>. QED  BY <3>1, <3>2
  <2>8. RedAlone(L, R1, q) /\ ~BothRed(L, R1, q)
    BY <2>1, <2>1a, <2>2, <1>2 DEF RedAlone, BothRed, Black, Dirs
  <2>9. ASSUME NEW i \in Dirs
        PROVE  AllBlackAt(L, R1, L[q][i])
    <3>. DEFINE x == L[q][i]
    <3>1. x \in A /\ x # NULL /\ R[x] /\ ~R1[x]
      BY <2>1, <2>1a, <2>2, <1>2
    <3>2. Above(h.data, B, q, x)
      BY <3>1, <1>4
    <3>3. RedAlone(L, R, x)
      BY <3>1, <3>2, <1>3 DEF Above
    <3>4. ASSUME NEW j \in Dirs PROVE Black(R1, L[x][j])
      <4>. SUFFICES ASSUME L[x][j] # NULL PROVE ~R1[L[x][j]]
        BY DEF Black
      <4>1. L[x][j] \in A /\ ~R[L[x][j]]
        BY <3>1, <3>3, <1>2 DEF RedAlone, Black
      <4>2. L[x][j] # q
        <5>1. Above(h.data, B, x, L[x][j])
          BY <3>1, AboveFacts
        <5>2. Above(h.data, B, q, L[x][j])
          BY <3>1, <3>2, <4>1, <5>1, AboveFacts
        <5>. QED  BY <5>2, <1>4
      <4>. QED  BY <4>1, <4>2, <2>6
    <3>. QED  BY <3>1, <3>4 DEF AllBlackAt
  <2>10. ASSUME NEW m \in A, m # q, ~Above(h.data, B, q, m) PROVE R1[m] = R[m]
    <3>1. Above(h.data, B, q, c) /\ Above(h.data, B, q, k)
      BY <1>2, <1>4, <2>1 DEF Dirs
    <3>. QED  BY <3>1, <2>2, <2>10, <1>2
  <2>. QED  BY <1>8, <2>1, <2>2, <2>4, <2>5, <2>7, <2>8, <2>9, <2>10 DEF h1, IsFlipped
<1>. QED  BY <1>7, <1>8
LEMMA LinkToIs ==
  ASSUME NEW h, NEW t, NEW g, NEW i \in Dirs, h.link[t][i] = g
  PROVE  LinkTo(h, t, g) \in Dirs /\ h.link[t][LinkTo(h, t, g)] = g
BY DEF LinkTo, Dirs

\* h2 is h after p, a red child, was rotated over the black g: q, a child of p, and
\* what is below it were left alone.
IsOver(h, h2, A, B, g, p, q, last) ==
  /\ h2 \in Heaps /\ h2.data = h.data /\ h2.bug = h.bug
  /\ \E B2 \in [Nodes -> [Dirs -> MaybeNode]] :
       /\ Tree(h2.link, h2.data, A, B2)
       /\ \A z \in Int : Within(h.data, B2, q, z) <=> Within(h.data, B, q, z)
  /\ \E H2 : Heights(h2.link, h2.red, A, H2)
  /\ ~h2.red[p]
  /\ \A m \in A : Within(h.data, B, q, h.data[m]) =>
       /\ h2.red[m] = h.red[m]
       /\ \A i \in Dirs : /\ h2.link[m][i] = h.link[m][i]
                          /\ h.link[m][i] # NULL =>
                               h2.red[h.link[m][i]] = h.red[h.link[m][i]]
  /\ /\ \A m \in A \ {p} : RedAlone(h.link, h.red, m)
     /\ Black(h.red, h.link[p][Other(last)]) /\ Black(h.red, h.link[g][Other(last)])
     => \A m \in A : RedAlone(h2.link, h2.red, m)

LEMMA OverIs ==
  ASSUME NEW h \in Heaps, NEW A, NEW B, Tree(h.link, h.data, A, B),
         NEW H, Heights(h.link, h.red, A, H),
         NEW g \in A, NEW p \in A, NEW q \in A, NEW t \in A \cup {HEAD},
         NEW last \in Dirs, NEW dir \in Dirs,
         h.link[g][last] = p, h.link[p][dir] = q, \E i \in Dirs : h.link[t][i] = g,
         h.red[p], ~h.red[g]
  PROVE  IsOver(h, Single(h, g, Other(last), t, LinkTo(h, t, g)), A, B, g, p, q, last)
<1>. DEFINE L == h.link
            D == h.data
            at == LinkTo(h, t, g)
            o == Other(last)
            h2 == Single(h, g, o, t, at)
            B2 == BoundsRotated(B, g, o, p)
<1>1. o \in Dirs /\ Other(o) = last /\ L[g][Other(o)] = p
  BY DirFacts
<1>2. at \in Dirs /\ L[t][at] = g
  BY LinkToIs
<1>3. p # NULL /\ q # NULL /\ A \subseteq Nodes
  BY TreeTypes DEF Tree
<1>. HIDE DEF at, o
<1>4. /\ h2 \in Heaps /\ h2.data = D /\ h2.bug = h.bug
      /\ IsRotation(L, h2.link, A, g, o, p, t, at)
      /\ h2.red[g] /\ ~h2.red[p]
      /\ \A m \in Nodes \ {g, p} : h2.red[m] = h.red[m]
  <2>1. L[g][Other(o)] # NULL /\ L[g][Other(o)] = p
    BY <1>1, <1>3
  <2>2. IsSingle(h, Single(h, g, o, t, at), A, g, o, h.link[g][Other(o)], t, at)
    <3>1. h.link[g][Other(o)] # NULL /\ h.link[t][at] = g /\ o \in Dirs /\ at \in Dirs
      BY <2>1, <1>1, <1>2
    <3>2. h \in Heaps /\ Tree(h.link, h.data, A, B) /\ g \in A /\ t \in A \cup {HEAD}
      OBVIOUS
    <3>. QED  BY ONLY <3>1, <3>2, SingleIs
  <2>. QED  BY <2>1, <2>2 DEF IsSingle
<1>. HIDE DEF h2
<1>5. Tree(h2.link, h2.data, A, B2)
  BY <1>4, RotationTree
<1>6. /\ B2 \in [Nodes -> [Dirs -> MaybeNode]]
      /\ \A m \in A \ {g, p}, z \in Int : Within(D, B2, m, z) <=> Within(D, B, m, z)
  <2>1. L[g][Other(o)] # NULL /\ L[g][Other(o)] = p
    BY <1>1, <1>3
  <2>. QED  BY <2>1, <1>1, RotationWithin
\* g, p and t are above q.
<1>7. ASSUME NEW m \in A, Within(D, B, q, D[m])
      PROVE  m # g /\ m # p /\ m # t
  <2>1. Above(D, B, g, p) /\ Above(D, B, p, q) /\ Above(D, B, g, q)
    <3>1. Above(D, B, g, p) /\ Above(D, B, p, q)
      BY <1>3, AboveFacts
    <3>. QED  BY <3>1, AboveFacts
  <2>2. m # g /\ m # p
    <3>1. Above(D, B, g, m) /\ Above(D, B, p, m)
      BY <2>1, <1>7, AboveFacts
    <3>. QED  BY <3>1, AboveFacts
  <2>3. ASSUME m = t PROVE FALSE
    <3>1. t \in A /\ L[t][at] # NULL
      BY <2>3, <1>2, TreeTypes DEF Tree
    <3>2. Above(D, B, t, g)
      BY <3>1, <1>2, AboveFacts
    <3>3. Above(D, B, t, q)
      BY <3>1, <3>2, <2>1, AboveFacts
    <3>4. Above(D, B, t, t)
      BY <2>3, <3>1, <3>3, <1>7, AboveFacts
    <3>. QED  BY <3>1, <3>4, AboveFacts
  <2>. QED  BY <2>2, <2>3
<1>8. \A z \in Int : Within(D, B2, q, z) <=> Within(D, B, q, z)
  <2>1. Within(D, B, q, D[q])
    BY AboveFacts
  <2>. QED  BY <2>1, <1>6, <1>7
<1>9. /\ Heights(h2.link, h2.red, A, [H EXCEPT ![g] = H[p], ![p] = H[g]])
      /\ /\ \A m \in A \ {p} : RedAlone(L, h.red, m)
         /\ Black(h.red, L[p][o]) /\ Black(h.red, L[g][o])
         => \A m \in A : RedAlone(h2.link, h2.red, m)
  <2>1. \A m \in A \ {g, p} : h2.red[m] = h.red[m]
    BY <1>3, <1>4
  <2>. QED  BY <2>1, <1>4, RotationColours
<1>10. ASSUME NEW m \in A, Within(D, B, q, D[m])
       PROVE  /\ h2.red[m] = h.red[m]
              /\ \A i \in Dirs : /\ h2.link[m][i] = L[m][i]
                                 /\ L[m][i] # NULL => h2.red[L[m][i]] = h.red[L[m][i]]
  <2>1. m # g /\ m # p /\ m # t
    BY <1>7, <1>10
  <2>2. h2.red[m] = h.red[m]
    BY <2>1, <1>3, <1>4
  <2>3. ASSUME NEW i \in Dirs PROVE h2.link[m][i] = L[m][i]
    <3>1. h2.link[m][i] = IF m = g /\ i = Other(o) THEN L[p][o]
                          ELSE IF m = p /\ i = o THEN g
                          ELSE IF m = t /\ i = at THEN p
                          ELSE L[m][i]
      BY <1>4 DEF IsRotation
    <3>. QED  BY <3>1, <2>1
  <2>4. ASSUME NEW i \in Dirs, L[m][i] # NULL PROVE h2.red[L[m][i]] = h.red[L[m][i]]
    <3>1. L[m][i] \in A /\ L[m][i] # g /\ L[m][i] # p
      <4>1. L[m][i] \in A
        BY <2>4, AboveFacts
      <4>2. L[m][i] = g => m = t
        BY <1>4, RotationAlone
      <4>3. L[m][i] = p => m = g
        BY <1>4, RotationAlone
      <4>. QED  BY <4>1, <4>2, <4>3, <2>1
    <3>. QED  BY <3>1, <1>3, <1>4
  <2>. QED  BY <2>2, <2>3, <2>4
<1>11. \E H2 : Heights(h2.link, h2.red, A, H2)
  BY <1>9
<1>12. \E B3 \in [Nodes -> [Dirs -> MaybeNode]] :
                  /\ Tree(h2.link, h2.data, A, B3)
                  /\ \A z \in Int : Within(h.data, B3, q, z) <=> Within(h.data, B, q, z)
  BY <1>5, <1>6, <1>8
<1>. QED  BY <1>4, <1>9, <1>10, <1>11, <1>12 DEF h2, o, at, IsOver
\* Where an insertion is that has met a node.
MeetsNode(L, D, A, B, s) ==
  /\ s.q \in A /\ NULL \notin A /\ Within(D, B, s.q, s.d) /\ s.d \in Int /\ D[s.q] \in Int
  /\ s.p = NULL => L[HEAD][1] = s.q /\ s.g = NULL /\ \A m \in A, i \in Dirs : L[m][i] # s.q
  /\ s.p # NULL => /\ s.p \in A /\ s.dir \in Dirs /\ L[s.p][s.dir] = s.q
                   /\ Above(D, B, s.p, s.q) /\ ~Above(D, B, s.q, s.p) /\ s.p # s.q
                   /\ \A m \in A \cup {HEAD}, i \in Dirs :
                        L[m][i] = s.q => m = s.p /\ i = s.dir

LEMMA InsertPlace ==
  ASSUME NEW L, NEW D, NEW R, NEW A, NEW B, Tree(L, D, A, B),
         NEW s, InsertInv(L, D, R, A, B, s), s.q # NULL
  PROVE  MeetsNode(L, D, A, B, s)
<1>1. /\ s.d \in Data /\ s.q \in A /\ s.p \in A \cup {NULL} /\ s.dir \in Dirs
      /\ IF s.p = NULL THEN s.q = L[HEAD][1] /\ s.g = NULL
         ELSE /\ L[s.p][s.dir] = s.q
              /\ Within(D, B, s.p, s.d) /\ Before(s.dir, D[s.p], s.d)
  BY DEF InsertInv
<1>2. Typed(L, D, A, B) /\ TopOf(L, A, B) /\ Unshared(L, A)
  BY DEF Tree
<1>3. NULL \notin A /\ HEAD \notin A /\ s.d \in Int /\ D[s.q] \in Int
  BY <1>1, <1>2, TreeTypes, RBTreeAssumption
<1>4. CASE s.p = NULL
  <2>1. s.q = L[HEAD][1] /\ s.g = NULL
    BY <1>1, <1>4
  <2>2. \A i \in Dirs : B[s.q][i] = NULL
    BY <2>1, <1>2 DEF TopOf
  <2>3. Within(D, B, s.q, s.d)
    BY <2>2 DEF Within
  <2>4. ASSUME NEW m \in A, NEW i \in Dirs, L[m][i] = s.q PROVE FALSE
    <3>1. m = HEAD
      BY <2>1, <2>4, <1>2 DEF Unshared, Dirs
    <3>. QED  BY <3>1, <1>3
  <2>. QED  BY <1>1, <1>3, <1>4, <2>1, <2>3, <2>4 DEF MeetsNode
<1>5. CASE s.p # NULL
  <2>1. s.p \in A /\ L[s.p][s.dir] = s.q
    BY <1>1, <1>5
  <2>2. Within(D, B, s.q, s.d)
    BY <2>1, <1>1, <1>3, <1>5, ChildWithin
  <2>3. Above(D, B, s.p, s.q)
    BY <2>1, <1>1, AboveFacts
  <2>4. ~Above(D, B, s.q, s.p) /\ s.p # s.q
    <3>1. ~Above(D, B, s.p, s.p)
      BY <2>1, AboveFacts
    <3>2. Above(D, B, s.q, s.p) => Above(D, B, s.p, s.p)
      BY <2>1, <2>3, <1>1, AboveFacts
    <3>. QED  BY <3>1, <3>2, <2>3
  <2>5. ASSUME NEW m \in A \cup {HEAD}, NEW i \in Dirs, L[m][i] = s.q
        PROVE  m = s.p /\ i = s.dir
    BY <2>1, <2>5, <1>1, <1>2 DEF Unshared
  <2>. QED  BY <1>1, <1>3, <1>5, <2>1, <2>2, <2>3, <2>4, <2>5 DEF MeetsNode
<1>. QED  BY <1>4, <1>5

\* s2 is where it is after the round at q.
MovedDown(D, L, s, s2) ==
  /\ s2.d = s.d /\ s2.black = s.black
  /\ s2.last = s.dir /\ s2.dir = (IF D[s.q] < s.d THEN 1 ELSE 0)
  /\ s2.t = (IF s.g # NULL THEN s.g ELSE s.t)
  /\ s2.g = s.p /\ s2.p = s.q /\ s2.q = L[s.q][s2.dir]

LEMMA MovedDownPlace ==
  ASSUME NEW L, NEW D, NEW R, NEW A, NEW B, Tree(L, D, A, B),
         NEW s, InsertInv(L, D, R, A, B, s), s.q # NULL, D[s.q] # s.d,
         NEW L2, NEW s2, MovedDown(D, L2, s, s2), \A i \in Dirs : L2[s.q][i] = L[s.q][i]
  PROVE  /\ s2.d \in Data /\ s2.t \in A \cup {HEAD} /\ s2.g \in A \cup {NULL}
         /\ s2.p \in A /\ s2.p # NULL /\ s2.q \in A \cup {NULL}
         /\ s2.dir \in Dirs /\ s2.last \in Dirs
         /\ A # {}
         /\ L2[s2.p][s2.dir] = s2.q /\ L[s2.p][s2.dir] = s2.q
         /\ Within(D, B, s2.p, s2.d) /\ Before(s2.dir, D[s2.p], s2.d)
<1>1. s.q \in A /\ Within(D, B, s.q, s.d) /\ s.d \in Int /\ D[s.q] \in Int /\ NULL \notin A
  BY InsertPlace DEF MeetsNode
<1>2. /\ s.d \in Data /\ s.t \in A \cup {HEAD} /\ s.g \in A \cup {NULL}
      /\ s.p \in A \cup {NULL} /\ s.dir \in Dirs /\ A # {}
  BY DEF InsertInv
<1>3. s2.dir \in Dirs /\ Before(s2.dir, D[s.q], s.d)
  BY <1>1 DEF MovedDown, Dirs, Before
<1>4. L2[s.q][s2.dir] = L[s.q][s2.dir] /\ L[s.q][s2.dir] \in A \cup {NULL}
  BY <1>1, <1>3, AboveFacts
<1>. QED  BY <1>1, <1>2, <1>3, <1>4 DEF MovedDown

\* A round without a violation.
LEMMA PlainRound ==
  ASSUME NEW h \in Heaps, NEW A, NEW B, Tree(h.link, h.data, A, B),
         NEW s, InsertInv(h.link, h.data, h.red, A, B, s), s.q # NULL,
         NEW h1, IsFlipped(h, h1, A, B, s.q),
         s.p # NULL => ~(h1.red[s.q] /\ h1.red[s.p])
  PROVE  /\ (\A m \in A : RedAlone(h.link, h.red, m)) => \A m \in A : RedAlone(h1.link, h1.red, m)
         /\ \A s2 : h.data[s.q] # s.d /\ MovedDown(h.data, h1.link, s, s2)
                    => InsertInv(h1.link, h1.data, h1.red, A, B, s2)
<1>. DEFINE L == h.link
            D == h.data
            R == h.red
            R1 == h1.red
            q == s.q
            p == s.p
<1>1. /\ q \in A /\ NULL \notin A
      /\ p = NULL => L[HEAD][1] = q /\ s.g = NULL /\ \A m \in A, i \in Dirs : L[m][i] # q
      /\ p # NULL => /\ p \in A /\ s.dir \in Dirs /\ L[p][s.dir] = q
                     /\ ~Above(D, B, q, p) /\ p # q
                     /\ Above(D, B, p, q)
                     /\ \A m \in A \cup {HEAD}, i \in Dirs : L[m][i] = q => m = p /\ i = s.dir
  <2>1. MeetsNode(L, D, A, B, s)
    BY InsertPlace
  <2>. QED  BY <2>1 DEF MeetsNode
<1>2. /\ h1.data = D /\ h1.link = L
      /\ \A m \in A : RedAlone(L, R, m) /\ (\A i \in Dirs : L[m][i] # q) => RedAlone(L, R1, m)
      /\ RedAlone(L, R1, q)
      /\ ~BothRed(L, R1, q)
      /\ \/ R1 = R
         \/ BothRed(L, R, q) /\ ~R[q] /\ R1[q] /\ \A i \in Dirs : AllBlackAt(L, R1, L[q][i])
      /\ \A m \in A : m # q /\ ~Above(D, B, q, m) => R1[m] = R[m]
  BY DEF IsFlipped
<1>3. p # NULL => R1[p] = R[p]
  BY <1>1, <1>2
<1>4. ASSUME \A m \in A : RedAlone(L, R, m), NEW m \in A
      PROVE  RedAlone(L, R1, m)
  <2>1. CASE \A i \in Dirs : L[m][i] # q
    BY <2>1, <1>2, <1>4
  <2>2. CASE ~ \A i \in Dirs : L[m][i] # q
    <3>1. p # NULL /\ m = p
      BY <2>2, <1>1
    <3>2. SUFFICES ASSUME R1[p], NEW i \in Dirs, L[p][i] # NULL
                   PROVE  ~R1[L[p][i]]
      BY <3>1 DEF RedAlone, Black
    <3>3. CASE L[p][i] = q
      BY <3>1, <3>2, <3>3
    <3>4. CASE L[p][i] # q
      <4>1. L[p][i] \in A /\ ~R[L[p][i]]
        BY <3>1, <3>2, <1>3, <1>4, AboveFacts DEF RedAlone, Black
      <4>2. ~Above(D, B, q, L[p][i])
        <5>. SUFFICES ASSUME Above(D, B, q, L[p][i]) PROVE FALSE
          OBVIOUS
        <5>1. Within(D, B, q, D[L[p][i]]) /\ q # L[p][i]
          BY <3>4 DEF Above
        <5>2. Within(D, B, q, D[p])
          BY <5>1, <3>1, <3>2, <1>1, ParentAbove
        <5>. QED  BY <5>2, <3>1, <1>1 DEF Above
      <4>. QED  BY <4>1, <4>2, <3>4, <1>2
    <3>. QED  BY <3>3, <3>4
  <2>. QED  BY <2>1, <2>2
<1>5. ASSUME NEW s2, D[q] # s.d, MovedDown(D, h1.link, s, s2)
      PROVE  InsertInv(L, D, R1, A, B, s2)
  <2>. DEFINE c == s2.q
  <2>1. /\ s2.d \in Data /\ s2.t \in A \cup {HEAD} /\ s2.g \in A \cup {NULL}
        /\ s2.p \in A /\ s2.p # NULL /\ s2.q \in A \cup {NULL}
        /\ s2.dir \in Dirs /\ s2.last \in Dirs
        /\ A # {}
        /\ L[s2.p][s2.dir] = s2.q
        /\ Within(D, B, s2.p, s2.d) /\ Before(s2.dir, D[s2.p], s2.d)
    BY <1>2, <1>5, MovedDownPlace
  <2>2. /\ s2.black = s.black /\ s2.last = s.dir
        /\ s2.t = (IF s.g # NULL THEN s.g ELSE s.t)
        /\ s2.g = p /\ s2.p = q
    BY <1>5 DEF MovedDown
  <2>3. /\ Placed(L, R, s.t, s.g, p, q, s.last)
        /\ \A m \in A : (p # NULL => Within(D, B, p, D[m])) => RedAlone(L, R, m)
        /\ p # NULL => ~BothRed(L, R, p)
        /\ s.g = NULL /\ s.black =>
             IF p = NULL THEN ~R[q] ELSE ~R[p] \/ AllBlackAt(L, R, q)
    BY DEF InsertInv
  <2>4. Placed(L, R1, s2.t, s2.g, s2.p, s2.q, s2.last)
    <3>1. CASE p = NULL
      <4>1. s.g = NULL /\ s.t = HEAD /\ L[HEAD][1] = q
        BY <3>1, <1>1, <2>3 DEF Placed
      <4>. QED  BY <4>1, <3>1, <2>2 DEF Placed
    <3>2. CASE p # NULL
      <4>1. L[p][s.dir] = q
        BY <3>2, <1>1
      <4>2. s2.t # NULL /\ (~R1[q] \/ \E i \in Dirs : L[s2.t][i] = p)
        <5>1. CASE s.g = NULL /\ s.t = HEAD /\ p = L[HEAD][1]
          BY <5>1, <2>2, RBTreeAssumption DEF Dirs
        <5>2. CASE s.g # NULL /\ L[s.g][s.last] = p
          BY <5>2, <2>2 DEF InsertInv
        <5>3. CASE s.g # NULL /\ AllBlackAt(L, R, q)
          <6>1. ~R[q] /\ ~BothRed(L, R, q)
            BY <5>3 DEF AllBlackAt, BothRed, Dirs
          <6>2. ~R1[q]
            <7>1. CASE R1 = R
              BY <6>1, <7>1
            <7>. QED  BY <6>1, <7>1, <1>2
          <6>. QED  BY <6>2, <5>3, <2>2
        <5>. QED  BY <5>1, <5>2, <5>3, <3>2, <2>3 DEF Placed
      <4>. QED  BY <4>1, <4>2, <3>2, <2>2 DEF Placed
    <3>. QED  BY <3>1, <3>2
  <2>5. ASSUME NEW m \in A, Within(D, B, q, D[m]) PROVE RedAlone(L, R1, m)
    <3>1. RedAlone(L, R, m)
      <4>1. CASE p # NULL
        <5>1. Above(D, B, p, q) /\ p \in A
          BY <4>1, <1>1
        <5>2. Within(D, B, p, D[m])
          BY <5>1, <2>5, <1>1, AboveFacts DEF Above
        <5>. QED  BY <5>2, <2>3
      <4>. QED  BY <4>1, <2>3
    <3>2. \A i \in Dirs : L[m][i] # q
      <4>1. CASE p # NULL
        <5>1. Above(D, B, p, q)
          BY <4>1, <1>1
        <5>2. m # p
          BY <5>1, <2>5 DEF Above
        <5>. QED  BY <5>2, <4>1, <1>1
      <4>. QED  BY <4>1, <1>1
    <3>. QED  BY <3>1, <3>2, <1>2
  <2>6. s2.g # NULL /\ BothRed(L, R1, s2.g) => AllBlackAt(L, R1, s2.q)
    BY <2>1, <2>2, <2>3, <1>2, <1>5 DEF MovedDown
  <2>7. s2.g = NULL /\ s2.black => ~R1[q] \/ AllBlackAt(L, R1, s2.q)
    BY <2>1, <2>2, <2>3, <1>1, <1>2, <1>5 DEF MovedDown
  <2>8. s2.g # NULL => ~(R1[s2.p] /\ R1[s2.g])
    BY <2>2
  <2>. HIDE DEF R1, L, D
  <2>. QED  BY <2>1, <2>2, <2>4, <2>5, <2>6, <2>7, <2>8, <1>2 DEF InsertInv
<1>. QED  BY <1>2, <1>4, <1>5
\* What a rotation at a node that an insertion meets leaves.
IsRound(h, h2, A, B, s) ==
  /\ h2 \in Heaps /\ h2.data = h.data /\ h2.bug = h.bug
  /\ LinksStay(h, h2, A, B, s.q)
  /\ \E B2 \in [Nodes -> [Dirs -> MaybeNode]] :
       /\ Tree(h2.link, h2.data, A, B2)
       /\ \A s2 : h.data[s.q] # s.d /\ MovedDown(h.data, h2.link, s, s2)
                  => InsertInv(h2.link, h2.data, h2.red, A, B2, s2)
  /\ \E H2 : Heights(h2.link, h2.red, A, H2)

IsRotatedRound(h, h1, h2, A, B, s) ==
  /\ s.g = NULL => ~s.black
  /\ s.g # NULL =>
       /\ IsRound(h, h2, A, B, s)
       /\ (\A m \in A : RedAlone(h.link, h.red, m)) /\ s.q = h1.link[s.p][s.last]
          => \A m \in A : RedAlone(h2.link, h2.red, m)

\* A round with a violation: there is a node to rotate if the root was black.
LEMMA RotatedRound ==
  ASSUME NEW h \in Heaps, NEW A, NEW B, Tree(h.link, h.data, A, B),
         NEW s, InsertInv(h.link, h.data, h.red, A, B, s), s.q # NULL,
         NEW h1, IsFlipped(h, h1, A, B, s.q),
         s.p # NULL, h1.red[s.q], h1.red[s.p],
         NEW h2, h2 = Single(h1, s.g, Other(s.last), s.t, LinkTo(h1, s.t, s.g))
  PROVE  IsRotatedRound(h, h1, h2, A, B, s)
<1>. DEFINE L == h.link
            D == h.data
            R == h.red
            R1 == h1.red
            q == s.q
            p == s.p
            g == s.g
<1>0. MeetsNode(L, D, A, B, s)
  BY InsertPlace
<1>1. /\ q \in A /\ NULL \notin A
      /\ p \in A /\ s.dir \in Dirs /\ L[p][s.dir] = q
      /\ ~Above(D, B, q, p) /\ p # q /\ Above(D, B, p, q)
      /\ \A m \in A \cup {HEAD}, i \in Dirs : L[m][i] = q => m = p /\ i = s.dir
  BY <1>0 DEF MeetsNode
<1>2. /\ h1 \in Heaps /\ h1.bug = h.bug /\ h1.data = D /\ h1.link = L
      /\ \E H1 : Heights(L, R1, A, H1)
      /\ \A m \in A : RedAlone(L, R, m) /\ (\A i \in Dirs : L[m][i] # q) => RedAlone(L, R1, m)
      /\ RedAlone(L, R1, q)
      /\ ~BothRed(L, R1, q)
      /\ \/ R1 = R
         \/ BothRed(L, R, q) /\ ~R[q] /\ R1[q] /\ \A i \in Dirs : AllBlackAt(L, R1, L[q][i])
      /\ \A m \in A : m # q /\ ~Above(D, B, q, m) => R1[m] = R[m]
  BY DEF IsFlipped
<1>3. /\ s.t \in A \cup {HEAD} /\ s.g \in A \cup {NULL} /\ s.last \in Dirs
      /\ Placed(L, R, s.t, g, p, q, s.last)
      /\ \A m \in A : (p # NULL => Within(D, B, p, D[m])) => RedAlone(L, R, m)
      /\ ~BothRed(L, R, p)
      /\ g # NULL => ~(R[p] /\ R[g])
      /\ g # NULL /\ BothRed(L, R, g) => AllBlackAt(L, R, q)
      /\ g = NULL /\ s.black => ~R[p] \/ AllBlackAt(L, R, q)
  BY DEF InsertInv
<1>4. R[p]
  BY <1>1, <1>2
\* The violation is new: q was flipped.
<1>5. ~R[q] /\ BothRed(L, R, q) /\ \A i \in Dirs : AllBlackAt(L, R1, L[q][i])
  <2>1. RedAlone(L, R, p)
    BY <1>1, <1>3, AboveFacts
  <2>2. ~R[q]
    BY <2>1, <1>1, <1>4 DEF RedAlone, Black
  <2>. QED  BY <2>2, <1>2
<1>6. ~AllBlackAt(L, R, q)
  BY <1>5 DEF AllBlackAt, BothRed, Dirs
<1>7. g = NULL => ~s.black
  BY <1>3, <1>4, <1>6
<1>8. ASSUME g # NULL
      PROVE  /\ IsRound(h, h2, A, B, s)
             /\ (\A m \in A : RedAlone(L, R, m)) /\ q = h1.link[p][s.last]
                => \A m \in A : RedAlone(h2.link, h2.red, m)
  <2>1. /\ g \in A /\ L[g][s.last] = p /\ \E i \in Dirs : L[s.t][i] = g
        /\ ~R[g] /\ ~BothRed(L, R, g)
    BY <1>3, <1>4, <1>6, <1>8 DEF Placed
  <2>2. Above(D, B, g, p) /\ g # q /\ ~Above(D, B, q, g)
    <3>1. Above(D, B, g, p)
      BY <2>1, <1>1, <1>3, AboveFacts
    <3>2. Above(D, B, g, q)
      BY <3>1, <2>1, <1>1, AboveFacts
    <3>. QED  BY <3>1, <3>2 DEF Above
  <2>3. ~R1[g]
    BY <2>1, <2>2, <1>2
  <2>4. IsOver(h1, h2, A, B, g, p, q, s.last)
    <3>1. PICK H1 : Heights(h1.link, h1.red, A, H1)
      BY <1>2
    <3>2. /\ h1 \in Heaps /\ Tree(h1.link, h1.data, A, B)
          /\ g \in A /\ p \in A /\ q \in A /\ s.t \in A \cup {HEAD}
          /\ s.last \in Dirs /\ s.dir \in Dirs
          /\ h1.link[g][s.last] = p /\ h1.link[p][s.dir] = q /\ \E i \in Dirs : h1.link[s.t][i] = g
          /\ h1.red[p] /\ ~h1.red[g]
      BY <2>1, <2>3, <1>1, <1>2, <1>3
    <3>. HIDE DEF g, p, q
    <3>3. IsOver(h1, Single(h1, g, Other(s.last), s.t, LinkTo(h1, s.t, g)), A, B, g, p, q, s.last)
      BY ONLY <3>1, <3>2, OverIs
    <3>. QED  BY <3>3 DEF g
  <2>5. /\ h2 \in Heaps /\ h2.data = D /\ h2.bug = h.bug
        /\ \E H2 : Heights(h2.link, h2.red, A, H2)
        /\ ~h2.red[p]
        /\ \A m \in A : Within(D, B, q, D[m]) =>
             /\ h2.red[m] = R1[m]
             /\ \A i \in Dirs : /\ h2.link[m][i] = L[m][i]
                                /\ L[m][i] # NULL => h2.red[L[m][i]] = R1[L[m][i]]
        /\ /\ \A m \in A \ {p} : RedAlone(L, R1, m)
           /\ Black(R1, L[p][Other(s.last)]) /\ Black(R1, L[g][Other(s.last)])
           => \A m \in A : RedAlone(h2.link, h2.red, m)
    BY <2>4, <1>2 DEF IsOver
  <2>6. PICK B2 \in [Nodes -> [Dirs -> MaybeNode]] :
          /\ Tree(h2.link, h2.data, A, B2)
          /\ \A z \in Int : Within(D, B2, q, z) <=> Within(D, B, q, z)
    BY <2>4, <1>2 DEF IsOver
  <2>7. ASSUME NEW s2, D[q] # s.d, MovedDown(D, h2.link, s, s2)
        PROVE  InsertInv(h2.link, D, h2.red, A, B2, s2)
    <3>1. Within(D, B, q, D[q])
      BY <1>1, AboveFacts
    <3>2. \A i \in Dirs : h2.link[q][i] = L[q][i]
      BY <3>1, <2>5, <1>1
    <3>3. /\ s2.d \in Data /\ s2.t \in A \cup {HEAD} /\ s2.g \in A \cup {NULL}
          /\ s2.p \in A /\ s2.p # NULL /\ s2.q \in A \cup {NULL}
          /\ s2.dir \in Dirs /\ s2.last \in Dirs
          /\ A # {}
          /\ h2.link[s2.p][s2.dir] = s2.q /\ L[s2.p][s2.dir] = s2.q
          /\ Within(D, B, s2.p, s2.d) /\ Before(s2.dir, D[s2.p], s2.d)
      BY <3>2, <2>7, MovedDownPlace
    <3>4. s2.g = p /\ s2.p = q
      BY <2>7 DEF MovedDown
    <3>5. Within(D, B2, s2.p, s2.d)
      BY <3>3, <3>4, <2>6, RBTreeAssumption
    \* The next node is black, and so are its children.
    <3>6. AllBlackAt(h2.link, h2.red, s2.q)
      <4>1. AllBlackAt(L, R1, s2.q)
        BY <3>3, <3>4, <1>5
      <4>2. s2.q \in A /\ Within(D, B, q, D[s2.q])
        <5>1. s2.q # NULL
          BY <4>1 DEF AllBlackAt
        <5>. QED  BY <5>1, <3>3, <3>4, <1>1, AboveFacts DEF Above
      <4>3. /\ h2.red[s2.q] = R1[s2.q]
            /\ \A i \in Dirs : /\ h2.link[s2.q][i] = L[s2.q][i]
                               /\ L[s2.q][i] # NULL => h2.red[L[s2.q][i]] = R1[L[s2.q][i]]
        BY <4>2, <2>5
      <4>. QED  BY <4>1, <4>3 DEF AllBlackAt, Black
    <3>7. ASSUME NEW m \in A, Within(D, B2, q, D[m]) PROVE RedAlone(h2.link, h2.red, m)
      <4>1. Within(D, B, q, D[m])
        BY <3>7, <2>6, TreeTypes DEF Tree
      <4>2. RedAlone(L, R1, m)
        <5>1. Within(D, B, p, D[m]) /\ ~Within(D, B, m, D[p])
          BY <4>1, <1>1, AboveFacts DEF Above
        <5>2. RedAlone(L, R, m)
          BY <5>1, <1>3
        <5>3. m # p
          BY <5>1, AboveFacts
        <5>. QED  BY <5>2, <5>3, <1>1, <1>2
      <4>3. /\ h2.red[m] = R1[m]
            /\ \A i \in Dirs : /\ h2.link[m][i] = L[m][i]
                               /\ L[m][i] # NULL => h2.red[L[m][i]] = R1[L[m][i]]
        BY <4>1, <2>5
      <4>. QED  BY <4>2, <4>3 DEF RedAlone, Black
    <3>8. ~BothRed(h2.link, h2.red, q)
      <4>1. \A i \in Dirs : h2.link[q][i] = L[q][i] /\ (L[q][i] # NULL => h2.red[L[q][i]] = R1[L[q][i]])
        BY <3>1, <2>5, <1>1
      <4>. QED  BY <4>1, <1>5 DEF BothRed, Black, AllBlackAt, Dirs
    <3>9. Placed(h2.link, h2.red, s2.t, s2.g, s2.p, s2.q, s2.last)
      BY <3>4, <3>6, <1>1 DEF Placed
    <3>. HIDE DEF D, p, q
    <3>. QED  BY <3>3, <3>4, <3>5, <3>6, <3>7, <3>8, <3>9, <2>5, <1>1 DEF InsertInv
  <2>8. ASSUME \A m \in A : RedAlone(L, R, m), q = h1.link[p][s.last]
        PROVE  \A m \in A : RedAlone(h2.link, h2.red, m)
    <3>1. s.last = s.dir /\ Other(s.last) # s.last /\ Other(s.last) \in Dirs
      <4>1. L[p][s.last] = q
        BY <2>8, <1>2
      <4>2. s.last = s.dir
        BY <4>1, <1>1, <1>3
      <4>. QED  BY <4>2, <1>3, DirFacts
    <3>2. \A m \in A \ {p} : RedAlone(L, R1, m)
      BY <2>8, <1>1, <1>2
    <3>3. Black(R, L[p][Other(s.last)]) /\ Black(R, L[g][Other(s.last)])
      <4>1. Black(R, L[p][Other(s.last)])
        BY <3>1, <2>8, <1>1, <1>4 DEF RedAlone
      <4>2. \A i \in Dirs : i = s.last \/ i = Other(s.last)
        BY <1>3, DirFacts
      <4>3. ~Black(R, L[g][s.last])
        BY <2>1, <1>1, <1>4 DEF Black
      <4>4. Black(R, L[g][Other(s.last)])
        BY <4>2, <4>3, <2>1 DEF BothRed
      <4>. QED  BY <4>1, <4>4
    <3>4. ASSUME NEW x \in {p, g}
          PROVE  Black(R1, L[x][Other(s.last)])
      <4>. DEFINE y == L[x][Other(s.last)]
      <4>. SUFFICES ASSUME y # NULL PROVE ~R1[y]
        BY DEF Black
      <4>1. x \in A /\ y \in A /\ ~R[y]
        BY <3>1, <3>3, <2>1, <1>1, AboveFacts DEF Black
      <4>2. y # q
        BY <3>1, <2>1, <1>1, <4>1
      <4>3. ~Above(D, B, q, y)
        <5>. SUFFICES ASSUME Above(D, B, q, y) PROVE FALSE
          OBVIOUS
        <5>1. Within(D, B, q, D[x])
          BY <4>1, <4>2, <3>1, <1>1, ParentAbove DEF Above
        <5>2. x # q
          BY <2>2, <1>1
        <5>3. Above(D, B, x, q)
          <6>1. Above(D, B, g, q)
            BY <2>1, <2>2, <1>1, AboveFacts
          <6>. QED  BY <6>1, <1>1
        <5>. QED  BY <5>1, <5>3 DEF Above
      <4>. QED  BY <4>1, <4>2, <4>3, <1>2
    <3>. QED  BY <3>2, <3>4, <2>5
  <2>9. LinksStay(h, h2, A, B, q)
    BY <2>5 DEF LinksStay
  <2>10. IsRound(h, h2, A, B, s)
    BY <2>5, <2>6, <2>7, <2>9 DEF IsRound
  <2>. QED  BY <2>8, <2>10
<1>. QED  BY <1>7, <1>8 DEF IsRotatedRound
Keys == {heap.data[n] : n \in allocated}

Implements == heap'.bug # "none" \/ Set!Next \/ UNCHANGED Set!vars

\* What an insertion or a removal does to the abstract set when it returns.
LEMMA SetChanges ==
  ASSUME NEW d \in Data, it'.node = NULL,
         \/ /\ answer' = <<"insert", "success">> /\ Keys' = Keys \cup {d}
         \/ /\ answer' = <<"insert", "no space">> /\ Keys' = Keys
         \/ /\ answer' = <<"remove", "success">> /\ d \in Keys /\ Keys' = Keys \ {d}
         \/ /\ answer' = <<"remove", "invalid argument">> /\ d \notin Keys /\ Keys' = Keys
  PROVE  Set!Next
<1>1. CASE answer' = <<"insert", "success">> /\ Keys' = Keys \cup {d}
  <2>1. Set!Insert(d)
    BY <1>1 DEF Set!Insert, Keys
  <2>. QED  BY <2>1 DEF Set!Next
<1>2. CASE answer' = <<"insert", "no space">> /\ Keys' = Keys
  <2>1. Set!Insert(d)
    BY <1>2 DEF Set!Insert, Keys
  <2>. QED  BY <2>1 DEF Set!Next
<1>3. CASE answer' = <<"remove", "success">> /\ d \in Keys /\ Keys' = Keys \ {d}
  <2>1. Set!Remove(d)
    BY <1>3 DEF Set!Remove, Keys
  <2>. QED  BY <2>1 DEF Set!Next
<1>4. CASE answer' = <<"remove", "invalid argument">> /\ d \notin Keys /\ Keys' = Keys
  <2>1. Keys \ {d} = Keys
    BY <1>4
  <2>2. Set!Remove(d)
    BY <1>4, <2>1 DEF Set!Remove, Keys
  <2>. QED  BY <2>2 DEF Set!Next
<1>. QED  BY <1>1, <1>2, <1>3, <1>4

LEMMA Opened ==
  ASSUME IInv, heap.bug = "none"
  PROVE  /\ TypeOK /\ RefsInv /\ it.node \in allocated \cup {NULL}
         /\ refs = RefsOf(heap.data, allocated)
         /\ \E B \in [Nodes -> [Dirs -> MaybeNode]], H \in [Nodes -> Int] :
              Sound(Whole, heap.data, heap.red, allocated, B, H)
<1>1. TypeOK /\ RefsInv /\ it.node \in allocated \cup {NULL}
  BY DEF IInv
<1>2. refs = RefsOf(heap.data, allocated)
  BY <1>1 DEF TypeOK, RefsInv, RefsOf
<1>. QED  BY <1>1, <1>2 DEF IInv

\* A step at which the machine stops.
LEMMA Stops ==
  ASSUME TypeOK, heap' \in Heaps, heap'.bug # "none", heap'.bug = "BUG_ON" => ~frame.black,
         heap'.bug = "null" => root = NULL,
         size' \in -MaxRemoves .. MaxSize, allocated' \subseteq Nodes, refs' \in [Data -> {0, 1}],
         UNCHANGED <<root, frame>>, answer' \in {answer, <<"alloc", "success">>},
         it' \in [node : MaybeNode, path : Seq(Nodes)],
         inner' \in BOOLEAN
  PROVE  IInv' /\ Implements
<1>1. TypeOK'
  <2>1. CASE answer' = answer
    BY <2>1 DEF TypeOK
  <2>2. CASE answer' = <<"alloc", "success">>
    BY <2>2 DEF TypeOK
  <2>. QED  BY <2>1, <2>2
<1>2. BlackRootNeverPanics'
  BY DEF BlackRootNeverPanics
<1>. QED  BY <1>1, <1>2 DEF IInv, Implements

LEMMA InsertPassSound ==
  ASSUME IInv, heap.bug = "none", InsertPass
  PROVE  IInv' /\ Implements /\ Shrinks
<1>. DEFINE A == allocated
            q == frame.q
            p == frame.p
            h1 == Flipped(heap, q)
            h == Rotated(h1, q)
<1>0. /\ TypeOK /\ RefsInv /\ it.node \in allocated \cup {NULL}
      /\ refs = RefsOf(heap.data, allocated)
  BY Opened
<1>1. frame.call = "insert" /\ q # NULL /\ UNCHANGED <<size, allocated, refs>>
  BY DEF InsertPass
<1>2. PICK B \in [Nodes -> [Dirs -> MaybeNode]], H \in [Nodes -> Int] :
        Sound(Whole, heap.data, heap.red, A, B, H)
  BY Opened
<1>3. /\ Tree(heap.link, heap.data, A, B) /\ Heights(heap.link, heap.red, A, H)
      /\ ~inner => \A n \in A : RedAlone(heap.link, heap.red, n)
      /\ InsertInv(heap.link, heap.data, heap.red, A, B, frame)
  <2>1. Whole = heap.link
    BY <1>1 DEF Whole
  <2>2. CallInv(heap.link, heap.data, heap.red, A, B) /\ Tree(heap.link, heap.data, A, B)
        /\ Heights(heap.link, heap.red, A, H) /\ (~inner => \A n \in A : RedAlone(heap.link, heap.red, n))
    BY <1>2, <2>1 DEF Sound
  <2>. QED  BY <2>2, <1>1 DEF CallInv
<1>4. heap \in Heaps /\ frame \in Frames /\ A \subseteq Nodes /\ inner \in BOOLEAN
      /\ size \in -MaxRemoves .. MaxSize /\ root \in MaybeNode
  BY <1>0 DEF TypeOK
<1>5. MeetsNode(heap.link, heap.data, A, B, frame)
  BY <1>1, <1>3, InsertPlace
<1>6. q \in A /\ frame.d \in Data
  BY <1>3, <1>5 DEF MeetsNode, InsertInv
<1>7. IsFlipped(heap, h1, A, B, q)
  <2>1. ASSUME NEW m \in A, Within(heap.data, B, q, heap.data[m])
        PROVE  RedAlone(heap.link, heap.red, m)
    <3>1. CASE p = NULL
      BY <3>1, <1>3 DEF InsertInv
    <3>2. CASE p # NULL
      <4>1. Above(heap.data, B, p, q) /\ p \in A
        BY <3>2, <1>5 DEF MeetsNode
      <4>2. Within(heap.data, B, p, heap.data[m])
        BY <4>1, <2>1, <1>3, <1>6, AboveFacts DEF Above
      <4>. QED  BY <4>2, <1>3 DEF InsertInv
    <3>. QED  BY <3>1, <3>2
  <2>. QED  BY <2>1, <1>3, <1>4, <1>6, FlippedIs
<1>. HIDE DEF h1, h
<1>8. h1 \in Heaps /\ h1.data = heap.data /\ h1.link = heap.link /\ h1.bug = "none"
      /\ \E H1 : Heights(heap.link, h1.red, A, H1)
  BY <1>7 DEF IsFlipped
<1>9. /\ inner' = (inner \/ (Violation(h1, q) /\ q # h1.link[p][frame.last]))
      /\ \/ /\ h.bug # "none" /\ heap' = h
            /\ UNCHANGED <<root, frame, answer, it>>
         \/ h.bug = "none" /\ h.data[q] = frame.d /\ Return(h, "success")
         \/ /\ h.bug = "none" /\ h.data[q] # frame.d
            /\ heap' = h /\ InsertMovesDown(h)
            /\ UNCHANGED <<root, answer, it>>
  BY DEF InsertPass, MeetsViolation, h1, h
<1>10. inner' \in BOOLEAN
  BY <1>9, <1>4
<1>11. Violation(h1, q) <=> h1.red[q] /\ p # NULL /\ h1.red[p]
  BY <1>1 DEF Violation, IsRed
\* The machine stops, or h is the tree after the round.
<1>12. \/ h.bug # "none" /\ h \in Heaps /\ ~frame.black /\ h.bug = "BUG_ON"
       \/ /\ h.bug = "none" /\ IsRound(heap, h, A, B, frame)
          /\ ~inner' => \A m \in A : RedAlone(h.link, h.red, m)
  <2>1. CASE ~Violation(h1, q)
    <3>1. h = h1 /\ inner' = inner
      BY <2>1, <1>9, <1>4 DEF h, Rotated
    <3>2. p # NULL => ~(h1.red[q] /\ h1.red[p])
      BY <2>1, <1>11
    <3>3. /\ (\A m \in A : RedAlone(heap.link, heap.red, m)) => \A m \in A : RedAlone(h1.link, h1.red, m)
          /\ \A s2 : heap.data[q] # frame.d /\ MovedDown(heap.data, h1.link, frame, s2)
                     => InsertInv(h1.link, h1.data, h1.red, A, B, s2)
      <4>1. heap \in Heaps /\ Tree(heap.link, heap.data, A, B)
            /\ InsertInv(heap.link, heap.data, heap.red, A, B, frame)
            /\ frame.q # NULL /\ IsFlipped(heap, h1, A, B, frame.q)
            /\ (frame.p # NULL => ~(h1.red[frame.q] /\ h1.red[frame.p]))
        BY <3>2, <1>1, <1>3, <1>4, <1>7
      <4>. QED  BY ONLY <4>1, PlainRound
    <3>4. IsRound(heap, h1, A, B, frame)
      <4>1. Tree(h1.link, h1.data, A, B) /\ h1.bug = heap.bug
        BY <1>3, <1>8
      <4>2. \E H1 : Heights(h1.link, h1.red, A, H1)
        BY <1>8
      <4>3. LinksStay(heap, h1, A, B, q)
        BY <1>8 DEF LinksStay
      <4>. QED  BY <3>3, <4>1, <4>2, <4>3, <1>8 DEF IsRound
    <3>. QED  BY <3>1, <3>3, <3>4, <1>3, <1>8
  <2>2. CASE Violation(h1, q)
    <3>. DEFINE h2 == Single(h1, frame.g, Other(frame.last), frame.t, LinkTo(h1, frame.t, frame.g))
    <3>1. h = h2
      BY <2>2 DEF h, Rotated
    <3>2. p # NULL /\ h1.red[q] /\ h1.red[p]
      BY <2>2, <1>11
    <3>3. /\ frame.g = NULL => ~frame.black
          /\ frame.g # NULL =>
               /\ IsRound(heap, h2, A, B, frame)
               /\ (\A m \in A : RedAlone(heap.link, heap.red, m)) /\ frame.q = h1.link[frame.p][frame.last]
                  => \A m \in A : RedAlone(h2.link, h2.red, m)
      <4>1. heap \in Heaps /\ Tree(heap.link, heap.data, A, B)
            /\ InsertInv(heap.link, heap.data, heap.red, A, B, frame)
            /\ frame.q # NULL /\ IsFlipped(heap, h1, A, B, frame.q)
            /\ frame.p # NULL /\ h1.red[frame.q] /\ h1.red[frame.p]
        BY <3>2, <1>1, <1>3, <1>4, <1>7
      <4>2. h2 = Single(h1, frame.g, Other(frame.last), frame.t, LinkTo(h1, frame.t, frame.g))
        OBVIOUS
      <4>. HIDE DEF h2
      <4>3. IsRotatedRound(heap, h1, h2, A, B, frame)
        BY ONLY <4>1, <4>2, RotatedRound
      <4>. QED  BY <4>3 DEF IsRotatedRound
    <3>4. CASE frame.g = NULL
      <4>1. h2 = [h1 EXCEPT !.bug = "BUG_ON"]
        BY <3>4 DEF Single
      <4>2. h2 \in Heaps /\ h2.bug = "BUG_ON"
        BY <4>1, <1>8 DEF Heaps
      <4>. QED  BY <3>1, <3>3, <3>4, <4>2
    <3>5. CASE frame.g # NULL
      <4>1. IsRound(heap, h2, A, B, frame) /\ h2.bug = "none"
        BY <3>3, <3>5 DEF IsRound
      <4>2. ~inner' => ~inner /\ frame.q = h1.link[frame.p][frame.last]
        BY <2>2, <1>9
      <4>. HIDE DEF h2
      <4>. QED  BY <3>1, <3>3, <3>5, <4>1, <4>2, <1>3
    <3>. QED  BY <3>4, <3>5
  <2>. QED  BY <2>1, <2>2
<1>13. CASE h.bug # "none"
  <2>1. h \in Heaps /\ ~frame.black /\ h.bug = "BUG_ON" /\ heap' = h /\ UNCHANGED <<root, frame, answer, it>>
    BY <1>9, <1>12, <1>13
  <2>2. allocated' \subseteq Nodes /\ refs' \in [Data -> {0, 1}] /\ size' \in -MaxRemoves .. MaxSize
        /\ it' \in [node : MaybeNode, path : Seq(Nodes)]
    BY <2>1, <1>0, <1>1 DEF TypeOK
  <2>3. Shrinks
    BY <2>1, <1>13 DEF Shrinks
  <2>. QED  BY <2>1, <2>2, <2>3, <1>0, <1>10, Stops
<1>14. CASE h.bug = "none"
  <2>1. IsRound(heap, h, A, B, frame) /\ (~inner' => \A m \in A : RedAlone(h.link, h.red, m))
    BY <1>12, <1>14
  <2>2. PICK B2 \in [Nodes -> [Dirs -> MaybeNode]] :
          /\ Tree(h.link, h.data, A, B2)
          /\ \A s2 : heap.data[q] # frame.d /\ MovedDown(heap.data, h.link, frame, s2)
                     => InsertInv(h.link, h.data, h.red, A, B2, s2)
    BY <2>1 DEF IsRound
  <2>3. PICK H2 : Heights(h.link, h.red, A, H2)
    BY <2>1 DEF IsRound
  <2>4. H2 \in [Nodes -> Int] /\ h \in Heaps /\ h.data = heap.data
    BY <2>1, <2>3 DEF Heights, IsRound
  <2>5. CASE h.data[q] = frame.d /\ Return(h, "success")
    <3>1. Returnable(h, allocated', inner')
      BY <2>1, <2>2, <2>3, <2>4, <1>1, <1>4, <1>14 DEF Returnable
    <3>2. IInv' /\ heap'.data = h.data /\ it'.node = NULL
      BY <2>4, <2>5, <3>1, <1>0, <1>1, <1>4, <1>10, ReturnSound
    <3>3. answer' = <<"insert", "success">>
      BY <2>5, <1>1 DEF Return
    <3>4. Keys' = Keys \cup {frame.d}
      BY <2>4, <2>5, <3>2, <1>1, <1>6 DEF Keys
    <3>5. Shrinks
      BY <2>5, FrameFacts DEF Return, Shrinks
    <3>. QED  BY <3>2, <3>3, <3>4, <3>5, <1>6, SetChanges DEF Implements
  <2>6. CASE h.data[q] # frame.d /\ heap' = h /\ InsertMovesDown(h) /\ UNCHANGED <<root, answer, it>>
    <3>. DEFINE dir == Side(h, q, frame.d)
    <3>1. frame' = [frame EXCEPT !.last = frame.dir, !.dir = dir,
                                 !.t = IF frame.g # NULL THEN frame.g ELSE frame.t,
                                 !.g = frame.p, !.p = frame.q, !.q = h.link[frame.q][dir]]
      BY <2>6 DEF InsertMovesDown
    <3>2. dir \in Dirs /\ dir = (IF heap.data[q] < frame.d THEN 1 ELSE 0)
      BY <2>4 DEF Side, Dirs
    <3>3. h.link[q][dir] \in MaybeNode
      BY <2>4, <3>2, <1>4, <1>6 DEF Heaps
    <3>. HIDE DEF dir
    <3>4. frame' \in Frames /\ frame'.call = "insert"
      <4>1. /\ frame.dir \in Dirs /\ (IF frame.g # NULL THEN frame.g ELSE frame.t) \in Pointers
            /\ frame.p \in Pointers /\ frame.q \in Pointers
        BY <1>4 DEF Frames
      <4>2. h.link[frame.q][dir] \in Pointers
        BY <3>3 DEF Pointers, MaybeNode
      <4>. QED  BY <4>1, <4>2, <3>1, <3>2, <1>1, <1>4 DEF Frames
    <3>5. MovedDown(heap.data, h.link, frame, frame')
      BY <3>1, <3>2, <1>4 DEF MovedDown, Frames
    <3>6. InsertInv(h.link, h.data, h.red, A, B2, frame')
      BY <2>2, <2>4, <2>6, <3>5
    <3>7. UNCHANGED <<treeVars, answer, it>>
      BY <2>6, <1>1 DEF treeVars
    <3>8. IInv' /\ UNCHANGED Set!vars
      BY <2>1, <2>2, <2>3, <2>4, <2>6, <3>4, <3>6, <3>7, <1>0, <1>1, <1>10, <1>14, GoesOnSound
    <3>9. Remaining' \subseteq Remaining /\ Remaining' # Remaining
      <4>1. LinksStay(heap, heap', A, B, q) /\ Within(heap.data, B, q, heap.data[q])
        BY <2>1, <2>6, <1>3, <1>6, AboveFacts DEF IsRound
      <4>2. frame'.q = heap.link[q][dir]
        <5>1. frame'.q = heap'.link[q][dir]
          BY <3>1, <2>6, <1>4 DEF Frames
        <5>2. heap'.link[q][dir] = heap.link[q][dir]
          BY <4>1, <3>2, <1>6 DEF LinksStay
        <5>. QED  BY <5>1, <5>2
      <4>3. ASSUME frame'.q # NULL PROVE Kept(heap, heap', A, B, frame'.q)
        <5>1. frame'.q \in A /\ Within(heap.data, B, q, heap.data[frame'.q])
          BY <4>2, <4>3, <3>2, <1>3, <1>6, AboveFacts DEF Above
        <5>. QED  BY <4>1, <5>1, <1>3, <1>6, KeptIs
      <4>4. q # HEAD
        BY <1>3, <1>6, TreeTypes DEF Tree
      <4>. QED  BY <4>2, <4>3, <4>4, <3>2, <1>3, <1>6, Shrinking
    <3>10. Shrinks
      BY <3>9, <1>1 DEF Shrinks, InIterator, Walks
    <3>. QED  BY <3>8, <3>10 DEF Implements
  <2>. QED  BY <2>5, <2>6, <1>9, <1>14
<1>. QED  BY <1>13, <1>14
\* h1 is h with a red leaf more.
IsGrown(h, h1, A, p, dir, new, d) ==
  /\ h1 \in Heaps /\ h1.bug = h.bug
  /\ h1.data = [h.data EXCEPT ![new] = d]
  /\ h1.red[new] /\ \A m \in A : h1.red[m] = h.red[m]
  /\ IsLeaf(h.link, h1.link, A, p, dir, new)

LEMMA GrownIs ==
  ASSUME NEW h \in Heaps, NEW A \in SUBSET Nodes, NEW p \in A, NEW dir \in Dirs,
         h.link[p][dir] = NULL, NEW new \in Nodes \ A, NEW d \in Data,
         NEW h1, h1 = [NewNode(h, new, d) EXCEPT !.link[p][dir] = new]
  PROVE  IsGrown(h, h1, A, p, dir, new, d)
<1>. DEFINE N == Nodes \cup {HEAD}
            K1 == [h.link EXCEPT ![new] = NoLinks]
            K2 == [K1 EXCEPT ![p][dir] = new]
            red == [h.red EXCEPT ![new] = TRUE]
            data == [h.data EXCEPT ![new] = d]
<1>1. /\ h.link \in [N -> [Dirs -> MaybeNode]] /\ h.red \in [Nodes -> BOOLEAN]
      /\ h.data \in [Nodes -> Data \cup {NULL}]
      /\ h.bug \in {"none", "BUG_ON", "null", "freed"}
      /\ h = [red |-> h.red, data |-> h.data, link |-> h.link, bug |-> h.bug]
  BY DEF Heaps
<1>2. h1 = [red |-> red, data |-> data, link |-> K2, bug |-> h.bug]
  BY <1>1 DEF NewNode
<1>3. /\ K1 \in [N -> [Dirs -> MaybeNode]]
      /\ \A i \in Dirs : K1[new][i] = NULL
      /\ \A m \in N : m # new => K1[m] = h.link[m]
  BY <1>1, FrameFacts DEF NoLinks
<1>4. /\ K2 \in [N -> [Dirs -> MaybeNode]]
      /\ \A m \in N, i \in Dirs : K2[m][i] = IF m = p /\ i = dir THEN new ELSE K1[m][i]
  <2>. HIDE DEF K1
  <2>. QED  BY <1>3 DEF MaybeNode
<1>5. red \in [Nodes -> BOOLEAN] /\ data \in [Nodes -> Data \cup {NULL}]
  BY <1>1
<1>6. red[new] /\ \A m \in A : red[m] = h.red[m]
  BY <1>1
<1>. HIDE DEF K1, K2, red, data
<1>7. h1 \in Heaps /\ h1.bug = h.bug /\ h1.data = data /\ h1.red = red /\ h1.link = K2
  <2>1. h1.red = red /\ h1.data = data /\ h1.link = K2 /\ h1.bug = h.bug
    BY <1>2
  <2>2. h1 \in Heaps
    BY ONLY <1>1, <1>2, <1>4, <1>5 DEF Heaps
  <2>. QED  BY <2>1, <2>2
<1>8. /\ \A i \in Dirs : K2[new][i] = NULL
      /\ K2[p][dir] = new
      /\ \A m \in A \cup {HEAD}, i \in Dirs : ~(m = p /\ i = dir) => K2[m][i] = h.link[m][i]
  <2>1. p \in N /\ new \in N /\ p # new /\ HEAD # new
    BY FrameFacts
  <2>2. \A i \in Dirs : K2[new][i] = NULL
    BY <2>1, <1>3, <1>4
  <2>3. ASSUME NEW m \in A \cup {HEAD}, NEW i \in Dirs, ~(m = p /\ i = dir)
        PROVE  K2[m][i] = h.link[m][i]
    <3>1. m \in N /\ m # new
      BY FrameFacts
    <3>. QED  BY <3>1, <2>3, <1>3, <1>4
  <2>. QED  BY <2>1, <2>2, <2>3, <1>4
<1>9. IsLeaf(h.link, K2, A, p, dir, new)
  BY <1>4, <1>8 DEF IsLeaf
<1>. QED  BY <1>6, <1>7, <1>9 DEF IsGrown, data

\* The tree after a leaf was added where an insertion has come to, before a rotation.
LEMMA GrownTree ==
  ASSUME NEW h \in Heaps, NEW A, NEW B \in [Nodes -> [Dirs -> MaybeNode]],
         Tree(h.link, h.data, A, B),
         NEW H, Heights(h.link, h.red, A, H),
         NEW s, InsertInv(h.link, h.data, h.red, A, B, s), s.q = NULL,
         NEW new \in Nodes \ A, NEW h1, IsGrown(h, h1, A, s.p, s.dir, new, s.d)
  PROVE  /\ s.p \in A /\ \A m \in A : h.data[m] # s.d
         /\ \E B1 \in [Nodes -> [Dirs -> MaybeNode]] : Tree(h1.link, h1.data, A \cup {new}, B1)
         /\ Levelled(h1.link, h1.red, A \cup {new})
         /\ \A m \in (A \cup {new}) \ {s.p} :
              (\A x \in A : RedAlone(h.link, h.red, x)) => RedAlone(h1.link, h1.red, m)
<1>. DEFINE L == h.link
            D == h.data
<1>1. /\ s.d \in Data /\ s.p \in A \cup {NULL} /\ s.dir \in Dirs /\ A # {}
      /\ IF s.p = NULL THEN L[HEAD][1] = NULL
         ELSE /\ L[s.p][s.dir] = NULL
              /\ Within(D, B, s.p, s.d) /\ Before(s.dir, D[s.p], s.d)
  BY DEF InsertInv
<1>2. Typed(L, D, A, B) /\ TopOf(L, A, B) /\ Complete(L, D, A, B)
  BY DEF Tree
<1>3. s.p # NULL /\ s.p \in A
  BY <1>1, <1>2 DEF TopOf
<1>4. A \subseteq Nodes /\ NULL \notin A /\ HEAD \notin A
      /\ \A m \in A, i \in Dirs : L[m][i] # NULL => L[m][i] \in A
  BY <1>2, TreeTypes
<1>5. \A m \in A : D[m] # s.d
  BY <1>1, <1>2, <1>3 DEF Complete
<1>6. /\ h1.data = [D EXCEPT ![new] = s.d]
      /\ h1.red[new] /\ \A m \in A : h1.red[m] = h.red[m]
      /\ IsLeaf(L, h1.link, A, s.p, s.dir, new)
  BY DEF IsGrown
<1>7. Tree(h1.link, h1.data, A \cup {new}, BoundsGrown(B, s.p, s.dir, new))
  <2>1. Tree(L, D, A, B) /\ s.d \in Data /\ Within(D, B, s.p, s.d) /\ Before(s.dir, D[s.p], s.d)
    BY <1>1, <1>3
  <2>. HIDE DEF L, D
  <2>. QED  BY ONLY <2>1, <1>6, LeafTree
<1>8. BoundsGrown(B, s.p, s.dir, new) \in [Nodes -> [Dirs -> MaybeNode]]
  <2>1. B[s.p][s.dir] \in MaybeNode /\ s.p \in MaybeNode
    BY <1>1, <1>3, <1>4 DEF MaybeNode
  <2>. QED  BY <2>1 DEF BoundsGrown
<1>9. Levelled(h1.link, h1.red, A \cup {new})
  <2>1. Typed(L, D, A, B) /\ Heights(L, h.red, A, H)
    BY <1>2
  <2>. HIDE DEF L, D
  <2>. QED  BY ONLY <2>1, <1>6, LeafColours
<1>10. ASSUME NEW m \in (A \cup {new}) \ {s.p}, \A x \in A : RedAlone(L, h.red, x)
       PROVE  RedAlone(h1.link, h1.red, m)
  <2>1. CASE m = new
    BY <2>1, <1>6 DEF RedAlone, Black, IsLeaf
  <2>2. CASE m \in A
    <3>1. RedAlone(L, h.red, m) /\ h1.red[m] = h.red[m]
      BY <2>2, <1>6, <1>10
    <3>2. ASSUME NEW i \in Dirs
          PROVE  h1.link[m][i] = L[m][i] /\ (L[m][i] # NULL => h1.red[L[m][i]] = h.red[L[m][i]])
      BY <2>2, <1>4, <1>6 DEF IsLeaf
    <3>. QED  BY <3>1, <3>2 DEF RedAlone, Black
  <2>. QED  BY <2>1, <2>2
<1>. QED  BY <1>3, <1>5, <1>7, <1>8, <1>9, <1>10

KeysOf(D, A) == {D[n] : n \in A}

\* D1 is D with one more node, which holds d.
IsOneMore(D, D1, A, new, d) ==
  /\ new \notin A /\ d \in Data /\ \A m \in A : D[m] # d
  /\ D1[new] = d /\ \A m \in A : D1[m] = D[m]

\* The references and the data when one more node holds d.
LEMMA OneMoreKey ==
  ASSUME NEW D, NEW A, NEW new, NEW d, NEW D1, IsOneMore(D, D1, A, new, d),
         NEW A1, A1 = A \cup {new}
  PROVE  KeysOf(D1, A1) = KeysOf(D, A) \cup {d}
BY DEF KeysOf, IsOneMore

LEMMA OneMoreRef ==
  ASSUME NEW D, NEW A, NEW new, NEW d, NEW D1, IsOneMore(D, D1, A, new, d),
         NEW A1, A1 = A \cup {new}, NEW e \in Data
  PROVE  RefsOf(D1, A1)[e] = IF e = d THEN RefsOf(D, A)[e] + 1 ELSE RefsOf(D, A)[e]
<1>1. CASE e = d
  <2>1. RefsOf(D, A)[d] = 0 /\ RefsOf(D1, A1)[d] = 1
    BY DEF RefsOf, IsOneMore
  <2>. QED  BY <1>1, <2>1
<1>2. CASE e # d
  <2>1. (\E n \in A1 : D1[n] = e) <=> \E n \in A : D[n] = e
    BY <1>2 DEF IsOneMore
  <2>. QED  BY <2>1, <1>2 DEF RefsOf
<1>. QED  BY <1>1, <1>2

LEMMA InsertNewSound ==
  ASSUME IInv, heap.bug = "none", NEW new \in Nodes \ allocated, InsertNew(new)
  PROVE  IInv' /\ Implements
<1>. DEFINE A == allocated
            A1 == allocated \cup {new}
            L == heap.link
            R == heap.red
            p == frame.p
            g == frame.g
            h1 == [NewNode(heap, new, frame.d) EXCEPT !.link[p][frame.dir] = new]
            h == Rotated(h1, new)
<1>0. /\ TypeOK /\ RefsInv /\ it.node \in allocated \cup {NULL}
      /\ refs = RefsOf(heap.data, allocated)
  BY Opened
<1>1. frame.call = "insert" /\ frame.q = NULL /\ allocated' = A1 /\ size' = size
      /\ refs' = [refs EXCEPT ![frame.d] = @ + 1]
  BY DEF InsertNew
<1>2. PICK B \in [Nodes -> [Dirs -> MaybeNode]], H \in [Nodes -> Int] :
        Sound(Whole, heap.data, heap.red, A, B, H)
  BY Opened
<1>3. /\ Tree(heap.link, heap.data, A, B) /\ Heights(heap.link, heap.red, A, H)
      /\ ~inner => \A n \in A : RedAlone(heap.link, heap.red, n)
      /\ InsertInv(heap.link, heap.data, heap.red, A, B, frame)
  <2>1. Whole = heap.link
    BY <1>1 DEF Whole
  <2>2. CallInv(heap.link, heap.data, heap.red, A, B) /\ Tree(heap.link, heap.data, A, B)
        /\ Heights(heap.link, heap.red, A, H) /\ (~inner => \A n \in A : RedAlone(heap.link, heap.red, n))
    BY <1>2, <2>1 DEF Sound
  <2>. QED  BY <2>2, <1>1 DEF CallInv
<1>4. heap \in Heaps /\ frame \in Frames /\ A \subseteq Nodes /\ inner \in BOOLEAN
      /\ size \in -MaxRemoves .. MaxSize /\ root \in MaybeNode
  BY <1>0 DEF TypeOK
<1>5. /\ frame.d \in Data /\ frame.t \in A \cup {HEAD} /\ g \in A \cup {NULL}
      /\ frame.dir \in Dirs /\ frame.last \in Dirs
      /\ Placed(L, R, frame.t, g, p, NULL, frame.last)
      /\ p # NULL => L[p][frame.dir] = NULL
      /\ g # NULL => ~(R[p] /\ R[g])
      /\ g # NULL /\ BothRed(L, R, g) => AllBlackAt(L, R, NULL)
      /\ g = NULL /\ frame.black /\ p # NULL => ~R[p] \/ AllBlackAt(L, R, NULL)
      /\ p = NULL => L[HEAD][1] = NULL /\ A # {}
      /\ p \in A \cup {NULL}
  BY <1>1, <1>3 DEF InsertInv
<1>6. p \in A /\ p # NULL /\ L[p][frame.dir] = NULL
  BY <1>3, <1>5 DEF Tree, TopOf
<1>7. IsGrown(heap, h1, A, p, frame.dir, new, frame.d)
  <2>1. heap \in Heaps /\ A \in SUBSET Nodes /\ p \in A /\ frame.dir \in Dirs
        /\ heap.link[p][frame.dir] = NULL /\ new \in Nodes \ A /\ frame.d \in Data
    BY <1>4, <1>5, <1>6
  <2>2. h1 = [NewNode(heap, new, frame.d) EXCEPT !.link[p][frame.dir] = new]
    OBVIOUS
  <2>. HIDE DEF h1, p, A
  <2>. QED  BY ONLY <2>1, <2>2, GrownIs
<1>. HIDE DEF h1
<1>8. /\ \A m \in A : heap.data[m] # frame.d
      /\ \E B1 \in [Nodes -> [Dirs -> MaybeNode]] : Tree(h1.link, h1.data, A1, B1)
      /\ Levelled(h1.link, h1.red, A1)
      /\ \A m \in A1 \ {p} :
           (\A x \in A : RedAlone(heap.link, heap.red, x)) => RedAlone(h1.link, h1.red, m)
  <2>1. heap \in Heaps /\ Tree(heap.link, heap.data, A, B) /\ Heights(heap.link, heap.red, A, H)
        /\ InsertInv(heap.link, heap.data, heap.red, A, B, frame) /\ frame.q = NULL
        /\ new \in Nodes \ A /\ IsGrown(heap, h1, A, frame.p, frame.dir, new, frame.d)
    BY <1>1, <1>3, <1>4, <1>7
  <2>2. /\ frame.p \in A /\ \A m \in A : heap.data[m] # frame.d
        /\ \E B1 \in [Nodes -> [Dirs -> MaybeNode]] : Tree(h1.link, h1.data, A \cup {new}, B1)
        /\ Levelled(h1.link, h1.red, A \cup {new})
        /\ \A m \in (A \cup {new}) \ {frame.p} :
             (\A x \in A : RedAlone(heap.link, heap.red, x)) => RedAlone(h1.link, h1.red, m)
    <3>. HIDE DEF A
    <3>. QED  BY ONLY <1>2, <2>1, GrownTree
  <2>. QED  BY <2>2
<1>9. PICK B1 \in [Nodes -> [Dirs -> MaybeNode]] : Tree(h1.link, h1.data, A1, B1)
  BY <1>8
<1>10. PICK H1 : Heights(h1.link, h1.red, A1, H1)
  BY <1>8 DEF Levelled
<1>11. /\ h1 \in Heaps /\ h1.bug = "none"
       /\ h1.data = [heap.data EXCEPT ![new] = frame.d]
       /\ h1.red[new] /\ \A m \in A : h1.red[m] = R[m]
       /\ h1.link[p][frame.dir] = new
       /\ \A m \in A \cup {HEAD}, i \in Dirs :
            ~(m = p /\ i = frame.dir) => h1.link[m][i] = L[m][i]
  BY <1>7 DEF IsGrown, IsLeaf
<1>12. /\ inner' = (inner \/ (Violation(h1, new) /\ new # h1.link[p][frame.last]))
       /\ \/ /\ h.bug # "none" /\ heap' = h
             /\ UNCHANGED <<root, frame, answer, it>>
          \/ h.bug = "none" /\ Return(h, "success")
  BY DEF InsertNew, MeetsViolation, h1, h
<1>. HIDE DEF h
<1>13. inner' \in BOOLEAN
  BY <1>12, <1>4
<1>14. A \subseteq Nodes /\ NULL \notin A /\ HEAD \notin A /\ new # NULL
       /\ \A m \in A, i \in Dirs : L[m][i] # NULL => L[m][i] \in A
  <2>1. A \subseteq Nodes /\ NULL \notin A /\ HEAD \notin A
        /\ \A m \in A, i \in Dirs : L[m][i] # NULL => L[m][i] \in A
    BY <1>3, TreeTypes DEF Tree
  <2>. QED  BY <2>1, FrameFacts
<1>15. Violation(h1, new) <=> R[p]
  BY <1>6, <1>11, <1>14 DEF Violation, IsRed
<1>16. /\ refs' = RefsOf(h1.data, A1)
       /\ {h1.data[n] : n \in A1} = Keys \cup {frame.d}
  <2>1. heap.data \in [Nodes -> Data \cup {NULL}]
    BY <1>4 DEF Heaps
  <2>2. IsOneMore(heap.data, h1.data, A, new, frame.d)
    BY <2>1, <1>4, <1>5, <1>8, <1>11 DEF IsOneMore
  <2>3. \A e \in Data : RefsOf(h1.data, A1)[e]
                           = IF e = frame.d THEN RefsOf(heap.data, A)[e] + 1 ELSE RefsOf(heap.data, A)[e]
    <3>1. A1 = A \cup {new}
      OBVIOUS
    <3>. HIDE DEF A, A1
    <3>. QED  BY ONLY <2>2, <3>1, OneMoreRef
  <2>4. KeysOf(h1.data, A1) = KeysOf(heap.data, A) \cup {frame.d}
    <3>1. A1 = A \cup {new}
      OBVIOUS
    <3>. HIDE DEF A, A1
    <3>. QED  BY ONLY <2>2, <3>1, OneMoreKey
  <2>5. refs' = RefsOf(h1.data, A1)
    <3>. DEFINE r == RefsOf(heap.data, A)
                r1 == RefsOf(h1.data, A1)
    <3>1. refs' = [r EXCEPT ![frame.d] = r[frame.d] + 1]
      BY <1>0, <1>1
    <3>2. r \in [Data -> Int] /\ r1 \in [Data -> Int]
      BY DEF RefsOf
    <3>3. \A e \in Data : r1[e] = IF e = frame.d THEN r[e] + 1 ELSE r[e]
      BY <2>3
    <3>. HIDE DEF r, r1
    <3>4. refs' \in [Data -> Int] /\ \A e \in Data : refs'[e] = r1[e]
      BY ONLY <3>1, <3>2, <3>3, <1>5
    <3>5. refs' = r1
      BY ONLY <3>2, <3>4
    <3>. QED  BY <3>5 DEF r1
  <2>. QED  BY <2>4, <2>5 DEF Keys, KeysOf
<1>17. refs' \in [Data -> {0, 1}]
  BY <1>16 DEF RefsOf
\* The machine stops, or h is the tree with the new node.
<1>18. \/ h.bug = "BUG_ON" /\ h \in Heaps /\ ~frame.black
       \/ Returnable(h, A1, inner') /\ h.data = h1.data
  <2>1. CASE ~R[p]
    <3>1. h = h1 /\ inner' = inner
      BY <2>1, <1>4, <1>12, <1>15 DEF h, Rotated
    <3>2. ~inner => \A m \in A1 : RedAlone(h1.link, h1.red, m)
      <4>1. RedAlone(h1.link, h1.red, p)
        BY <2>1, <1>6, <1>11 DEF RedAlone
      <4>. QED  BY <4>1, <1>3, <1>8
    <3>3. H1 \in [Nodes -> Int] /\ A1 \subseteq Nodes
      BY <1>10, <1>4 DEF Heights
    <3>. QED  BY <3>1, <3>2, <3>3, <1>9, <1>10, <1>11 DEF Returnable
  <2>2. CASE R[p] /\ g = NULL
    <3>1. ~frame.black
      BY <2>2, <1>5, <1>6 DEF AllBlackAt
    <3>2. h = [h1 EXCEPT !.bug = "BUG_ON"]
      BY <2>2, <1>15 DEF h, Rotated, Single
    <3>3. h \in Heaps /\ h.bug = "BUG_ON"
      BY <3>2, <1>11 DEF Heaps
    <3>. QED  BY <3>1, <3>3
  <2>3. CASE R[p] /\ g # NULL
    <3>1. /\ g \in A /\ L[g][frame.last] = p /\ (\E i \in Dirs : L[frame.t][i] = g)
          /\ ~R[g] /\ ~BothRed(L, R, g)
      BY <2>3, <1>5 DEF Placed, AllBlackAt
    <3>2. g # p /\ g \in A1 /\ p \in A1 /\ new \in A1 /\ frame.t \in A1 \cup {HEAD}
      BY <2>3, <3>1, <1>5, <1>6
    <3>3. \A i \in Dirs : h1.link[g][i] = L[g][i]
      BY <3>1, <3>2, <1>11
    <3>4. \E i \in Dirs : h1.link[frame.t][i] = g
      BY <3>1, <1>5, <1>6, <1>11, <1>14
    <3>5. IsOver(h1, h, A1, B1, g, p, new, frame.last)
      <4>1. h = Single(h1, g, Other(frame.last), frame.t, LinkTo(h1, frame.t, g))
        BY <2>3, <1>15 DEF h, Rotated
      <4>2. /\ h1 \in Heaps /\ Tree(h1.link, h1.data, A1, B1) /\ Heights(h1.link, h1.red, A1, H1)
            /\ g \in A1 /\ p \in A1 /\ new \in A1 /\ frame.t \in A1 \cup {HEAD}
            /\ frame.last \in Dirs /\ frame.dir \in Dirs
            /\ h1.link[g][frame.last] = p /\ h1.link[p][frame.dir] = new
            /\ (\E i \in Dirs : h1.link[frame.t][i] = g)
            /\ h1.red[p] /\ ~h1.red[g]
        BY <2>3, <3>1, <3>2, <3>3, <3>4, <1>5, <1>6, <1>9, <1>10, <1>11
      <4>. HIDE DEF A1, g, p
      <4>3. IsOver(h1, Single(h1, g, Other(frame.last), frame.t, LinkTo(h1, frame.t, g)), A1, B1, g, p, new, frame.last)
        BY ONLY <4>2, OverIs
      <4>. QED  BY <4>1, <4>3
    <3>6. /\ h \in Heaps /\ h.data = h1.data /\ h.bug = "none"
          /\ \E B2 \in [Nodes -> [Dirs -> MaybeNode]] : Tree(h.link, h.data, A1, B2)
          /\ \E H2 : Heights(h.link, h.red, A1, H2)
          /\ /\ \A m \in A1 \ {p} : RedAlone(h1.link, h1.red, m)
             /\ Black(h1.red, h1.link[p][Other(frame.last)])
             /\ Black(h1.red, h1.link[g][Other(frame.last)])
             => \A m \in A1 : RedAlone(h.link, h.red, m)
      BY <3>5, <1>11 DEF IsOver
    <3>7. ASSUME ~inner'
          PROVE  \A m \in A1 : RedAlone(h.link, h.red, m)
      <4>1. ~inner /\ h1.link[p][frame.last] = new
        BY <2>3, <3>7, <1>12, <1>15
      <4>2. frame.last = frame.dir
        <5>1. CASE frame.last # frame.dir
          <6>1. h1.link[p][frame.last] = L[p][frame.last]
            BY <5>1, <1>5, <1>6, <1>11
          <6>. QED  BY <6>1, <4>1, <1>5, <1>6, <1>14
        <5>. QED  BY <5>1
      <4>3. Other(frame.last) \in Dirs /\ Other(frame.last) # frame.dir
            /\ \A i \in Dirs : i = frame.last \/ i = Other(frame.last)
        BY <4>2, <1>5, DirFacts
      <4>4. \A m \in A1 \ {p} : RedAlone(h1.link, h1.red, m)
        BY <4>1, <1>3, <1>8
      <4>5. Black(h1.red, h1.link[p][Other(frame.last)])
        <5>1. RedAlone(L, R, p)
          BY <4>1, <1>3, <1>6
        <5>2. Black(R, L[p][Other(frame.last)])
          BY <5>1, <4>3, <2>3 DEF RedAlone
        <5>3. h1.link[p][Other(frame.last)] = L[p][Other(frame.last)]
          BY <4>3, <1>6, <1>11
        <5>. QED  BY <5>2, <5>3, <4>3, <1>6, <1>11, <1>14 DEF Black
      <4>6. Black(h1.red, h1.link[g][Other(frame.last)])
        <5>1. ~Black(R, L[g][frame.last])
          BY <2>3, <3>1, <1>6 DEF Black
        <5>2. Black(R, L[g][Other(frame.last)])
          BY <5>1, <3>1, <4>3 DEF BothRed
        <5>. QED  BY <5>2, <3>1, <3>3, <4>3, <1>11, <1>14 DEF Black
      <4>. QED  BY <4>4, <4>5, <4>6, <3>6
    <3>8. \A H2 : Heights(h.link, h.red, A1, H2) => H2 \in [Nodes -> Int]
      BY DEF Heights
    <3>9. A1 \subseteq Nodes
      BY <1>4
    <3>. HIDE DEF A1
    <3>. QED  BY <3>6, <3>7, <3>8, <3>9 DEF Returnable
  <2>. QED  BY <2>1, <2>2, <2>3
<1>19. CASE h.bug # "none"
  <2>1. h \in Heaps /\ h.bug = "BUG_ON" /\ ~frame.black
    BY <1>18, <1>19 DEF Returnable
  <2>2. heap' = h /\ UNCHANGED <<root, frame, answer, it>>
    BY <1>12, <1>19
  <2>3. allocated' \subseteq Nodes /\ size' \in -MaxRemoves .. MaxSize
        /\ it' \in [node : MaybeNode, path : Seq(Nodes)]
    BY <2>2, <1>0, <1>1, <1>4 DEF TypeOK
  <2>. QED  BY <2>1, <2>2, <2>3, <1>0, <1>13, <1>17, Stops
<1>20. CASE h.bug = "none"
  <2>1. Returnable(h, allocated', inner') /\ h.data = h1.data /\ Return(h, "success")
    BY <1>1, <1>12, <1>18, <1>20
  <2>2. IInv' /\ heap'.data = h.data /\ it'.node = NULL
    BY <2>1, <1>0, <1>1, <1>4, <1>13, <1>16, ReturnSound
  <2>3. answer' = <<"insert", "success">>
    BY <2>1, <1>1 DEF Return
  <2>4. Keys' = Keys \cup {frame.d}
    <3>1. Keys' = {heap'.data[n] : n \in allocated'}
      BY DEF Keys
    <3>. QED  BY <3>1, <2>1, <2>2, <1>1, <1>16
  <2>. QED  BY <2>2, <2>3, <2>4, <1>5, SetChanges DEF Implements
<1>. QED  BY <1>19, <1>20

LEMMA BlackenedReturnable ==
  ASSUME NEW h, NEW A, NEW i, Returnable(h, A, i), NEW h1, h1 = RootBlackened(h)
  PROVE  Returnable(h1, A, i) /\ h1.data = h.data
<1>. DEFINE t == h.link[HEAD][1]
<1>1. CASE t = NULL
  BY <1>1 DEF RootBlackened
<1>2. CASE t # NULL
  <2>1. h \in Heaps /\ h.bug = "none" /\ A \subseteq Nodes
    BY DEF Returnable
  <2>2. PICK B \in [Nodes -> [Dirs -> MaybeNode]], H \in [Nodes -> Int] :
          /\ Tree(h.link, h.data, A, B) /\ Heights(h.link, h.red, A, H)
          /\ ~i => \A n \in A : RedAlone(h.link, h.red, n)
    BY DEF Returnable
  <2>3. t \in A
    <3>1. 1 \in Dirs
      BY DEF Dirs
    <3>. QED  BY <3>1, <2>2, <1>2, TreeTypes DEF Tree
  <2>4. h1 = [h EXCEPT !.red[t] = FALSE]
    BY <1>2 DEF RootBlackened
  <2>. HIDE DEF t
  <2>5. /\ h1 \in Heaps /\ h1.link = h.link /\ h1.data = h.data /\ h1.bug = "none"
        /\ ~h1.red[t] /\ \A m \in A \ {t} : h1.red[m] = h.red[m]
    <3>. DEFINE red == [h.red EXCEPT ![t] = FALSE]
    <3>1. /\ h.link \in [Nodes \cup {HEAD} -> [Dirs -> MaybeNode]] /\ h.red \in [Nodes -> BOOLEAN]
          /\ h.data \in [Nodes -> Data \cup {NULL}]
          /\ h = [red |-> h.red, data |-> h.data, link |-> h.link, bug |-> h.bug]
      BY <2>1 DEF Heaps
    <3>2. h1 = [red |-> red, data |-> h.data, link |-> h.link, bug |-> h.bug]
      BY <3>1, <2>4
    <3>3. red \in [Nodes -> BOOLEAN] /\ ~red[t] /\ \A m \in A \ {t} : red[m] = h.red[m]
      BY <3>1, <2>1, <2>3
    <3>. HIDE DEF red
    <3>4. h1.red = red /\ h1.link = h.link /\ h1.data = h.data /\ h1.bug = "none"
      BY <3>2, <2>1
    <3>5. h1 \in Heaps
      BY ONLY <3>1, <3>2, <3>3, <2>1 DEF Heaps
    <3>. QED  BY <3>3, <3>4, <3>5
  <2>6. /\ \E H2 : Heights(h.link, h1.red, A, H2)
        /\ (\A m \in A : RedAlone(h.link, h.red, m)) => \A m \in A : RedAlone(h.link, h1.red, m)
    <3>1. t = h.link[HEAD][1]
      BY DEF t
    <3>. QED  BY ONLY <3>1, <2>2, <2>3, <2>5, TopBlackened
  <2>7. PICK H2 : Heights(h1.link, h1.red, A, H2)
    BY <2>5, <2>6
  <2>8. H2 \in [Nodes -> Int]
    BY <2>7 DEF Heights
  <2>. QED  BY <2>1, <2>2, <2>5, <2>6, <2>7, <2>8 DEF Returnable
<1>. QED  BY <1>1, <1>2

LEMMA InsertFailsSound ==
  ASSUME IInv, heap.bug = "none", InsertFails
  PROVE  IInv' /\ Implements
<1>. DEFINE h == [heap EXCEPT !.red[heap.link[HEAD][1]] = FALSE]
<1>0. /\ TypeOK /\ refs = RefsOf(heap.data, allocated)
  BY Opened
<1>1. /\ frame.call = "insert" /\ size < MaxSize /\ size' = size + 1
      /\ Return(h, "no space") /\ UNCHANGED <<allocated, refs, inner>>
  BY DEF InsertFails
<1>2. PICK B \in [Nodes -> [Dirs -> MaybeNode]], H \in [Nodes -> Int] :
        Sound(Whole, heap.data, heap.red, allocated, B, H)
  BY Opened
<1>3. /\ Tree(heap.link, heap.data, allocated, B) /\ Heights(heap.link, heap.red, allocated, H)
      /\ ~inner => \A n \in allocated : RedAlone(heap.link, heap.red, n)
      /\ InsertInv(heap.link, heap.data, heap.red, allocated, B, frame)
  <2>1. Whole = heap.link
    BY <1>1 DEF Whole
  <2>2. CallInv(heap.link, heap.data, heap.red, allocated, B) /\ Tree(heap.link, heap.data, allocated, B)
        /\ Heights(heap.link, heap.red, allocated, H)
        /\ (~inner => \A n \in allocated : RedAlone(heap.link, heap.red, n))
    BY <1>2, <2>1 DEF Sound
  <2>. QED  BY <2>2, <1>1 DEF CallInv
<1>4. heap \in Heaps /\ frame.d \in Data /\ allocated \subseteq Nodes /\ inner \in BOOLEAN
      /\ size \in Int /\ -MaxRemoves <= size
  <2>1. heap \in Heaps /\ allocated \subseteq Nodes /\ inner \in BOOLEAN /\ size \in -MaxRemoves .. MaxSize
    BY <1>0 DEF TypeOK
  <2>2. frame.d \in Data
    BY <1>3 DEF InsertInv
  <2>3. MaxRemoves \in Nat /\ MaxSize \in Nat
    BY RBTreeAssumption
  <2>. QED  BY <2>1, <2>2, <2>3
<1>5. heap.link[HEAD][1] # NULL
  BY <1>3 DEF InsertInv, Tree, TopOf
<1>6. h = RootBlackened(heap)
  BY <1>5 DEF RootBlackened
<1>7. Returnable(heap, allocated, inner)
  BY <1>3, <1>4 DEF Returnable
<1>. HIDE DEF h
<1>8. Returnable(h, allocated, inner) /\ h.data = heap.data
  BY <1>6, <1>7, BlackenedReturnable
<1>9. size' \in -MaxRemoves .. MaxSize
  <2>1. MaxRemoves \in Nat /\ MaxSize \in Nat
    BY RBTreeAssumption
  <2>2. size < MaxSize /\ size' = size + 1 /\ size \in Int /\ -MaxRemoves <= size
    BY <1>1, <1>4
  <2>. QED  BY ONLY <2>1, <2>2
<1>10. IInv' /\ heap'.data = h.data /\ it'.node = NULL
  <2>1. refs' = RefsOf(h.data, allocated') /\ Returnable(h, allocated', inner')
        /\ inner' \in BOOLEAN
    BY <1>0, <1>1, <1>4, <1>8
  <2>. QED  BY <2>1, <1>0, <1>1, <1>9, ReturnSound
<1>11. answer' = <<"insert", "no space">> /\ Keys' = Keys
  BY <1>1, <1>8, <1>10 DEF Return, Keys
<1>. QED  BY <1>4, <1>10, <1>11, SetChanges DEF Implements

\* Where a removal is when it has moved down to a node.
Arrived(L, D, R, A, B, s) ==
  /\ s.d \in Data /\ s.dir \in Dirs /\ s.last \in Dirs
  /\ s.q \in A /\ s.p \in A \cup {HEAD} /\ s.f \in A \cup {NULL}
  /\ L[s.p][s.last] = s.q
  /\ s.dir = IF D[s.q] < s.d THEN 1 ELSE 0
  /\ IF s.f = NULL THEN Within(D, B, s.q, s.d) /\ D[s.q] # s.d
     ELSE D[s.f] = s.d /\ (s.f = s.q \/ B[s.q][1] = s.f)
  /\ s.p = HEAD => s.last = 1
  /\ s.p # HEAD => /\ s.g \in A \cup {HEAD} /\ \E i \in Dirs : L[s.g][i] = s.p
                   /\ R[s.p] \/ R[s.q] \/ (s.g = HEAD /\ AllBlackAt(L, R, s.p))

MovedOn(D, L, s, s2) ==
  /\ s2.d = s.d /\ s2.last = s.dir /\ s2.g = s.p /\ s2.p = s.q
  /\ s2.q = L[s.q][s.dir]
  /\ s2.dir = (IF D[s2.q] < s.d THEN 1 ELSE 0)
  /\ s2.f = IF D[s2.q] = s.d THEN s2.q ELSE s.f

LEMMA Arrives ==
  ASSUME NEW L, NEW D, NEW R, NEW A, NEW B, Tree(L, D, A, B),
         NEW s, RemoveInv(L, D, R, A, B, s), L[s.q][s.dir] # NULL,
         NEW s2, MovedOn(D, L, s, s2)
  PROVE  Arrived(L, D, R, A, B, s2)
<1>. DEFINE q == s.q
            q2 == s2.q
<1>0. Typed(L, D, A, B) /\ TopOf(L, A, B) /\ Bounded(L, A, B) /\ Ordered(D, A, B)
  BY DEF Tree
<1>1. A \subseteq Nodes /\ NULL \notin A /\ HEAD \notin A
      /\ (\A n \in A : D[n] \in Int)
      /\ \A n \in A \cup {HEAD}, i \in Dirs : L[n][i] # NULL => L[n][i] \in A
  BY <1>0, TreeTypes
<1>2. s.d \in Data /\ s.dir \in Dirs /\ s.d \in Int
  BY RBTreeAssumption DEF RemoveInv
<1>3. /\ s2.d = s.d /\ s2.last = s.dir /\ s2.g = s.p /\ s2.p = q
      /\ q2 = L[q][s.dir]
      /\ s2.dir = (IF D[q2] < s.d THEN 1 ELSE 0)
      /\ s2.f = IF D[q2] = s.d THEN q2 ELSE s.f
  BY DEF MovedOn
<1>4. s2.dir \in Dirs
  BY <1>3, DirFacts
<1>5. q \in A \cup {HEAD} /\ q2 \in A
  BY <1>1, <1>2, <1>3 DEF RemoveInv
<1>6. CASE q = HEAD
  <2>1. s.p = NULL /\ s.f = NULL /\ s.dir = 1
    BY <1>6 DEF RemoveInv
  <2>2. Within(D, B, q2, s.d)
    BY <2>1, <1>0, <1>1, <1>3, <1>5, <1>6 DEF TopOf, Within
  <2>3. L[s2.p][s2.last] = q2 /\ s2.p = HEAD /\ s2.last = 1
    BY <2>1, <1>3, <1>6
  <2>4. IF s2.f = NULL THEN Within(D, B, q2, s.d) /\ D[q2] # s.d
        ELSE D[s2.f] = s.d /\ s2.f = q2
    BY <2>1, <2>2, <1>1, <1>3, <1>5
  <2>5. s2.f \in A \cup {NULL}
    BY <2>1, <1>3, <1>5
  <2>. QED  BY <2>3, <2>4, <2>5, <1>2, <1>3, <1>4, <1>5 DEF Arrived
<1>7. CASE q # HEAD
  <2>1. /\ q \in A /\ s.p \in A \cup {HEAD} /\ s.f \in A \cup {NULL}
        /\ s.dir = (IF D[q] < s.d THEN 1 ELSE 0)
        /\ \E i \in Dirs : L[s.p][i] = q
        /\ IF s.f = NULL THEN Within(D, B, q, s.d) /\ D[q] # s.d
           ELSE D[s.f] = s.d /\ (s.f = q \/ B[q][1] = s.f)
        /\ R[q] \/ ~Black(R, L[q][s.dir]) \/ (s.p = HEAD /\ AllBlackAt(L, R, q))
    BY <1>7 DEF RemoveInv
  <2>2. R[q] \/ R[q2] \/ (s.p = HEAD /\ AllBlackAt(L, R, q))
    BY <2>1, <1>3 DEF Black
  <2>3. s2.f \in A \cup {NULL}
    BY <2>1, <1>3, <1>5
  <2>4. IF s2.f = NULL THEN Within(D, B, q2, s.d) /\ D[q2] # s.d
        ELSE D[s2.f] = s.d /\ (s2.f = q2 \/ B[q2][1] = s2.f)
    <3>1. CASE D[q2] = s.d
      BY <3>1, <1>1, <1>3, <1>5
    <3>2. CASE D[q2] # s.d /\ s.f = NULL
      <4>1. Before(s.dir, D[q], s.d)
        BY <3>2, <2>1, <1>1, <1>2 DEF Before
      <4>2. Within(D, B, q2, s.d)
        BY <4>1, <3>2, <2>1, <1>1, <1>2, <1>3, <1>5, ChildWithin
      <4>. QED  BY <4>2, <3>2, <1>3
    <3>3. CASE D[q2] # s.d /\ s.f = q
      <4>1. s.dir = 0 /\ D[s.f] = s.d /\ s.f # NULL
        BY <3>3, <2>1, <1>1, <1>2
      <4>2. B[q2][1] = q
        <5>1. L[q][s.dir] # NULL /\ 0 \in Dirs /\ Other(0) = 1
          BY <1>1, <1>3, <1>5, DirFacts DEF Other
        <5>. QED  BY <5>1, <4>1, <2>1, <1>0, <1>3 DEF Bounded
      <4>. QED  BY <3>3, <4>1, <4>2, <1>3
    <3>4. CASE D[q2] # s.d /\ s.f # NULL /\ B[q][1] = s.f
      <4>1. D[q] < s.d
        <5>1. Within(D, B, q, D[q]) /\ 1 \in Dirs
          BY <2>1, <1>0, DirFacts DEF Ordered
        <5>. QED  BY <5>1, <3>4, <2>1 DEF Within, Before
      <4>2. s.dir = 1
        BY <4>1, <2>1
      <4>3. B[q2][1] = B[q][1]
        <5>1. L[q][s.dir] # NULL /\ 1 \in Dirs
          BY <1>1, <1>3, <1>5, DirFacts
        <5>. QED  BY <5>1, <4>2, <2>1, <1>0, <1>3 DEF Bounded
      <4>. QED  BY <3>4, <4>3, <2>1, <1>3
    <3>. QED  BY <3>1, <3>2, <3>3, <3>4, <2>1
  <2>5. L[s2.p][s2.last] = q2
    BY <1>3
  <2>. HIDE DEF q, q2
  <2>6. s2.q = q2
    BY DEF q2
  <2>. QED  BY <2>1, <2>2, <2>3, <2>4, <2>5, <2>6, <1>1, <1>2, <1>3, <1>4, <1>5 DEF Arrived
<1>. QED  BY <1>6, <1>7

\* The heap from which a removal goes on in s.
Continues(h, A, s) ==
  /\ h \in Heaps /\ h.bug = "none"
  /\ \E B \in [Nodes -> [Dirs -> MaybeNode]], H \in [Nodes -> Int] :
       /\ Tree(h.link, h.data, A, B) /\ Heights(h.link, h.red, A, H)
       /\ \A n \in A : RedAlone(h.link, h.red, n)
       /\ RemoveInv(h.link, h.data, h.red, A, B, s)

\* The heap in which it has arrived there.
Arrival(h, A, B, H, s) ==
  /\ h \in Heaps /\ h.bug = "none"
  /\ B \in [Nodes -> [Dirs -> MaybeNode]]
  /\ Tree(h.link, h.data, A, B) /\ Heights(h.link, h.red, A, H)
  /\ \A n \in A : RedAlone(h.link, h.red, n)
  /\ Arrived(h.link, h.data, h.red, A, B, s)

LEMMA ArrivedContinues ==
  ASSUME NEW h, NEW A, NEW B, NEW H, NEW s, Arrival(h, A, B, H, s),
         h.red[s.q] \/ ~Black(h.red, h.link[s.q][s.dir])
         \/ (s.p = HEAD /\ AllBlackAt(h.link, h.red, s.q))
  PROVE  Continues(h, A, s)
<1>1. H \in [Nodes -> Int]
  BY DEF Heights, Arrival
<1>2. HEAD \notin A
  BY TreeTypes DEF Tree, Arrival
<1>3. RemoveInv(h.link, h.data, h.red, A, B, s)
  BY <1>2 DEF Arrived, RemoveInv, Arrival
<1>. QED  BY <1>1, <1>3 DEF Continues, Arrival

\* A black node without a sibling has a black child or is the top.
LEMMA OnlyTopAlone ==
  ASSUME NEW h, NEW A, NEW B, NEW H, NEW s, Arrival(h, A, B, H, s),
         ~h.red[s.q], h.link[s.p][Other(s.last)] = NULL
  PROVE  s.p = HEAD
<1>. SUFFICES ASSUME s.p # HEAD PROVE FALSE
  OBVIOUS
<1>. DEFINE L == h.link
            R == h.red
            p == s.p
            q == s.q
<1>1. /\ p \in A /\ q \in A /\ s.last \in Dirs /\ L[p][s.last] = q
      /\ Tree(L, h.data, A, B) /\ Heights(L, R, A, H)
  BY DEF Arrival, Arrived
<1>2. NULL \notin A /\ Other(s.last) \in Dirs /\ \A n \in A, i \in Dirs : L[n][i] # NULL => L[n][i] \in A
  BY <1>1, TreeTypes, DirFacts DEF Tree
<1>3. /\ H[p] = HeightOf(H, L[p][s.last]) + (IF R[p] THEN 0 ELSE 1)
      /\ H[p] = HeightOf(H, L[p][Other(s.last)]) + (IF R[p] THEN 0 ELSE 1)
      /\ H[q] = HeightOf(H, L[q][s.last]) + (IF R[q] THEN 0 ELSE 1)
      /\ \A n \in A : H[n] \in Nat
  BY <1>1, <1>2 DEF Heights
<1>4. HeightOf(H, L[p][Other(s.last)]) = 0 /\ HeightOf(H, L[p][s.last]) = H[q]
  BY <1>1, <1>2 DEF HeightOf
<1>5. H[q] = 0
  BY <1>1, <1>3, <1>4
<1>6. HeightOf(H, L[q][s.last]) \in Nat
  BY <1>1, <1>2, <1>3 DEF HeightOf
<1>. QED  BY <1>3, <1>5, <1>6

\* The red child c of a black node takes its place.
LEMMA ChildRotatedContinues ==
  ASSUME NEW h, NEW A, NEW B, NEW H, NEW s, Arrival(h, A, B, H, s),
         ~h.red[s.q], Black(h.red, h.link[s.q][s.dir]), ~Black(h.red, h.link[s.q][Other(s.dir)]),
         NEW h2, h2 = Single(h, s.q, s.dir, s.p, s.last),
         NEW s2, s2.p = h2.link[s.p][s.last],
         s2.d = s.d /\ s2.dir = s.dir /\ s2.q = s.q /\ s2.f = s.f
  PROVE  Continues(h2, A, s2) /\ h2.data = h.data /\ Kept(h, h2, A, B, s.q)
<1>. DEFINE L == h.link
            D == h.data
            R == h.red
            q == s.q
            dir == s.dir
            c == h.link[s.q][Other(s.dir)]
            B2 == BoundsRotated(B, q, dir, c)
<1>1. /\ h \in Heaps /\ h.bug = "none" /\ Tree(L, D, A, B) /\ Heights(L, R, A, H)
      /\ \A n \in A : RedAlone(L, R, n)
      /\ Arrived(L, D, R, A, B, s)
  BY DEF Arrival
<1>2. /\ s.d \in Data /\ dir \in Dirs /\ s.last \in Dirs
      /\ q \in A /\ s.p \in A \cup {HEAD} /\ s.f \in A \cup {NULL}
      /\ L[s.p][s.last] = q
      /\ dir = (IF D[q] < s.d THEN 1 ELSE 0)
      /\ IF s.f = NULL THEN Within(D, B, q, s.d) /\ D[q] # s.d
         ELSE D[s.f] = s.d /\ (s.f = q \/ B[q][1] = s.f)
  BY <1>1 DEF Arrived
<1>3. c # NULL /\ R[c] /\ c \in A /\ Other(dir) \in Dirs /\ dir # Other(dir)
  <2>1. Other(dir) \in Dirs /\ dir # Other(dir)
    BY <1>2, DirFacts
  <2>2. c # NULL /\ R[c]
    BY DEF Black
  <2>. QED  BY <2>1, <2>2, <1>1, <1>2, TreeTypes DEF Tree
<1>4. IsSingle(h, h2, A, q, dir, c, s.p, s.last)
  <2>1. /\ h \in Heaps /\ Tree(h.link, h.data, A, B)
        /\ q \in A /\ dir \in Dirs /\ h.link[q][Other(dir)] # NULL
        /\ s.p \in A \cup {HEAD} /\ s.last \in Dirs /\ h.link[s.p][s.last] = q
    BY <1>1, <1>2, <1>3
  <2>. HIDE DEF q, dir
  <2>2. IsSingle(h, Single(h, q, dir, s.p, s.last), A, q, dir, h.link[q][Other(dir)], s.p, s.last)
    BY ONLY <2>1, SingleIs
  <2>. QED  BY <2>2 DEF q, dir
<1>5. /\ h2 \in Heaps /\ h2.data = D /\ h2.bug = "none"
      /\ IsRotation(L, h2.link, A, q, dir, c, s.p, s.last)
      /\ h2.red[q] /\ ~h2.red[c]
      /\ \A m \in Nodes \ {q, c} : h2.red[m] = R[m]
  BY <1>1, <1>4 DEF IsSingle
<1>6. /\ Heights(h2.link, h2.red, A, [H EXCEPT ![q] = H[c], ![c] = H[q]])
      /\ \A m \in A : RedAlone(h2.link, h2.red, m)
  <2>1. \A m \in A \ {q, c} : h2.red[m] = R[m]
    BY <1>1, <1>5, TreeTypes DEF Tree
  <2>2. Black(R, L[c][dir]) /\ Black(R, L[q][dir]) /\ \A m \in A \ {c} : RedAlone(L, R, m)
    BY <1>1, <1>2, <1>3 DEF RedAlone
  <2>3. /\ Tree(L, D, A, B) /\ IsRotation(L, h2.link, A, q, dir, c, s.p, s.last)
        /\ ~R[q] /\ R[c] /\ h2.red[q] /\ ~h2.red[c] /\ Heights(L, R, A, H)
    BY <1>1, <1>3, <1>5
  <2>. HIDE DEF L, D, R, q, dir, c
  <2>. QED  BY ONLY <2>1, <2>2, <2>3, RotationColours
<1>7. Tree(h2.link, D, A, B2)
  <2>1. Tree(L, D, A, B) /\ IsRotation(L, h2.link, A, q, dir, c, s.p, s.last)
    BY <1>1, <1>5
  <2>. HIDE DEF L, D, q, dir, c
  <2>. QED  BY ONLY <2>1, RotationTree DEF B2
<1>8. /\ c # q /\ Before(dir, D[c], D[q])
      /\ B2 \in [Nodes -> [Dirs -> MaybeNode]]
      /\ B2[q][dir] = B[q][dir]
      /\ \A z \in Int : Within(D, B2, q, z) <=> Within(D, B, q, z) /\ Before(dir, D[c], z)
  <2>1. Tree(L, D, A, B) /\ q \in A /\ dir \in Dirs /\ L[q][Other(dir)] # NULL /\ c = L[q][Other(dir)]
    BY <1>1, <1>2, <1>3
  <2>. HIDE DEF L, D, q, dir, c
  <2>. QED  BY ONLY <2>1, RotationWithin DEF B2
<1>9. s2.p = c /\ h2.link[c][dir] = q
  <2>1. s.p # q /\ s.p # c
    BY <1>1, <1>5, RotationAlone
  <2>2. h2.link[s.p][s.last] = c /\ h2.link[c][dir] = q
    BY <2>1, <1>2, <1>3, <1>5, <1>8 DEF IsRotation
  <2>. QED  BY <2>2
<1>10. IF s.f = NULL THEN Within(D, B2, q, s.d) /\ D[q] # s.d
       ELSE D[s.f] = s.d /\ (s.f = q \/ B2[q][1] = s.f)
  <2>0. D[q] \in Int /\ D[c] \in Int /\ s.d \in Int
    BY <1>1, <1>2, <1>3, TreeTypes, RBTreeAssumption DEF Tree
  <2>1. CASE s.f = NULL
    <3>1. Before(dir, D[q], s.d)
      BY <2>0, <2>1, <1>2 DEF Before
    <3>2. Before(dir, D[c], s.d)
      <4>1. Before(dir, D[c], D[q])
        BY <1>8
      <4>. HIDE DEF D, c, q, dir
      <4>. QED  BY ONLY <3>1, <4>1, <2>0 DEF Before
    <3>. QED  BY <3>2, <2>0, <2>1, <1>2, <1>8
  <2>2. CASE s.f # NULL /\ s.f # q
    <3>1. D[s.f] = s.d /\ B[q][1] = s.f
      BY <2>2, <1>2
    <3>2. D[q] < s.d
      <4>1. Within(D, B, q, D[q]) /\ 1 \in Dirs
        BY <1>1, <1>2, DirFacts DEF Ordered, Tree
      <4>. QED  BY <4>1, <3>1, <2>2 DEF Within, Before
    <3>3. dir = 1
      BY <3>2, <1>2
    <3>. QED  BY <3>1, <3>3, <2>2, <1>8
  <2>. QED  BY <2>1, <2>2, <1>2
<1>11. RemoveInv(h2.link, D, h2.red, A, B2, s2)
  <2>1. \E i \in Dirs : h2.link[s2.p][i] = s2.q
    BY <1>2, <1>9
  <2>2. s2.p \in A \cup {HEAD} /\ s2.q # HEAD
    BY <1>1, <1>2, <1>3, <1>9, TreeTypes DEF Tree
  <2>3. h2.red[s2.q]
    BY <1>5
  <2>. HIDE DEF D
  <2>. QED  BY <2>1, <2>2, <2>3, <1>2, <1>10 DEF RemoveInv
<1>12. PICK H2 : Heights(h2.link, h2.red, A, H2)
  BY <1>6
<1>13. H2 \in [Nodes -> Int]
  BY <1>12 DEF Heights
<1>14. Continues(h2, A, s2)
  BY <1>5, <1>6, <1>7, <1>8, <1>11, <1>12, <1>13 DEF Continues
<1>15. Kept(h, h2, A, B, q)
  <2>1. q \in A /\ c \in A /\ Within(D, B, q, D[q]) /\ Within(D, B, q, D[c]) /\ NULL \notin A
    <3>1. Above(D, B, q, c) /\ Within(D, B, q, D[q])
      BY <1>1, <1>2, <1>3, AboveFacts
    <3>. QED  BY <3>1, <1>1, <1>2, <1>3, TreeTypes DEF Above, Tree
  <2>2. \A m \in A, i \in Dirs : L[m][i] # NULL /\ Within(D, B, q, D[m])
                                => L[m][i] \in A /\ Within(D, B, q, D[L[m][i]])
    <3>1. \A m \in A, i \in Dirs : L[m][i] # NULL => L[m][i] \in A /\ Above(D, B, m, L[m][i])
      BY <1>1, AboveFacts
    <3>2. \A m, k \in A : Within(D, B, q, D[m]) /\ Above(D, B, m, k) => Above(D, B, q, k)
      BY <1>1, <1>2, AboveFacts
    <3>. QED  BY <3>1, <3>2 DEF Above
  <2>3. \A m \in A, i \in Dirs : \/ h2.link[m][i] = L[m][i] \/ h2.link[m][i] = L[c][dir]
                                  \/ h2.link[m][i] = q \/ h2.link[m][i] = c
    BY <1>5 DEF IsRotation
  <2>. HIDE DEF L, D, q, c, dir
  <2>4. ASSUME NEW m \in A, NEW i \in Dirs, Within(D, B, q, D[m]), h2.link[m][i] # NULL
        PROVE  h2.link[m][i] \in A /\ Within(D, B, q, D[h2.link[m][i]])
    <3>1. CASE h2.link[m][i] = L[m][i]
      BY <2>2, <2>4, <3>1
    <3>2. CASE h2.link[m][i] = L[c][dir]
      BY <1>2, <2>1, <2>2, <2>4, <3>2
    <3>3. CASE h2.link[m][i] = q \/ h2.link[m][i] = c
      BY <2>1, <3>3
    <3>. QED  BY <2>3, <3>1, <3>2, <3>3
  <2>. QED  BY <2>4 DEF Kept, D
<1>. QED  BY <1>5, <1>14, <1>15

\* Around a black node with black children and a sibling w.
IsBeside(h, A, s, w) ==
  /\ s.p \in A /\ s.q \in A /\ w \in A /\ s.last \in Dirs
  /\ s.q = h.link[s.p][s.last] /\ w = h.link[s.p][Other(s.last)]
  /\ s.p # s.q /\ s.p # w /\ s.q # w
  /\ ~h.red[s.q] /\ ~h.red[w]
  /\ h.red[s.p] \/ s.p = h.link[HEAD][1]
  /\ s.g \in A \cup {HEAD} /\ \E i \in Dirs : h.link[s.g][i] = s.p
  /\ s.g \in A => ~h.red[s.g]
  /\ s.g # s.p /\ s.g # s.q /\ s.g # w

LEMMA BesideIs ==
  ASSUME NEW h, NEW A, NEW B, NEW H, NEW s, Arrival(h, A, B, H, s),
         AllBlackAt(h.link, h.red, s.q),
         NEW w, w = h.link[s.p][Other(s.last)], w # NULL
  PROVE  IsBeside(h, A, s, w)
<1>. DEFINE L == h.link
            D == h.data
            R == h.red
            p == s.p
            q == s.q
            g == s.g
<1>1. /\ Tree(L, D, A, B) /\ Typed(L, D, A, B) /\ TopOf(L, A, B) /\ Unshared(L, A)
      /\ \A n \in A : RedAlone(L, R, n)
      /\ Arrived(L, D, R, A, B, s)
  BY DEF Arrival, Tree
<1>2. /\ s.last \in Dirs /\ q \in A /\ p \in A \cup {HEAD} /\ L[p][s.last] = q
      /\ p = HEAD => s.last = 1
      /\ p # HEAD => /\ g \in A \cup {HEAD} /\ \E i \in Dirs : L[g][i] = p
                     /\ R[p] \/ R[q] \/ (g = HEAD /\ AllBlackAt(L, R, p))
  BY <1>1 DEF Arrived
<1>3. Other(s.last) \in Dirs /\ Other(s.last) # s.last /\ Other(1) = 0 /\ 0 \in Dirs /\ 1 \in Dirs
      /\ \A i \in Dirs : i = 0 \/ i = 1
  BY <1>2, DirFacts DEF Other
<1>4. p # HEAD
  BY <1>1, <1>2, <1>3 DEF TopOf
<1>5. /\ NULL \notin A /\ HEAD \notin A /\ HEAD # NULL
      /\ \A n \in A \cup {HEAD}, i \in Dirs : L[n][i] # NULL => L[n][i] \in A
  BY <1>1, TreeTypes, RBTreeAssumption
<1>6. p \in A /\ w \in A
  BY <1>2, <1>3, <1>4, <1>5
<1>7. g \in A \cup {HEAD} /\ (\E i \in Dirs : L[g][i] = p) /\ ~R[q]
      /\ (R[p] \/ (g = HEAD /\ AllBlackAt(L, R, p)))
  BY <1>2, <1>4 DEF AllBlackAt
<1>8. q # w
  BY <1>1, <1>2, <1>3, <1>5, <1>6 DEF Unshared
<1>9. p # q /\ p # w /\ Above(D, B, p, q) /\ Above(D, B, p, w)
  <2>1. Above(D, B, p, q) /\ Above(D, B, p, w)
    BY <1>1, <1>2, <1>3, <1>5, <1>6, AboveFacts
  <2>. QED  BY <2>1, <1>1, <1>6, AboveFacts
<1>10. g # p /\ g # q /\ g # w
  <2>1. CASE g = HEAD
    BY <2>1, <1>2, <1>5, <1>6
  <2>2. CASE g \in A
    <3>1. Above(D, B, g, p)
      BY <2>2, <1>1, <1>5, <1>6, <1>7, AboveFacts
    <3>2. Above(D, B, g, q) /\ Above(D, B, g, w)
      BY <3>1, <2>2, <1>1, <1>2, <1>6, <1>9, AboveFacts
    <3>. QED  BY <3>1, <3>2, <2>2, <1>1, AboveFacts
  <2>. QED  BY <2>1, <2>2, <1>7
<1>11. ~R[w]
  BY <1>1, <1>3, <1>6, <1>7 DEF RedAlone, AllBlackAt, Black
<1>12. R[p] \/ p = L[HEAD][1]
  <2>1. CASE g = HEAD
    BY <2>1, <1>1, <1>3, <1>5, <1>6, <1>7 DEF TopOf
  <2>. QED  BY <2>1, <1>7
<1>13. g \in A => ~R[g]
  BY <1>1, <1>5, <1>6, <1>7 DEF RedAlone, Black
<1>. QED  BY <1>2, <1>6, <1>7, <1>8, <1>9, <1>10, <1>11, <1>12, <1>13 DEF IsBeside

\* The red of p goes to q and its sibling.
Pushed(h, p, w, q) == [h EXCEPT !.red[p] = FALSE, !.red[w] = TRUE, !.red[q] = TRUE]

LEMMA ColoursFlippedContinues ==
  ASSUME NEW h, NEW A, NEW B, NEW H, NEW s, Arrival(h, A, B, H, s),
         AllBlackAt(h.link, h.red, s.q),
         NEW w, w = h.link[s.p][Other(s.last)], w # NULL,
         \A i \in Dirs : Black(h.red, h.link[w][i]),
         NEW h2, h2 = Pushed(h, s.p, w, s.q)
  PROVE  Continues(h2, A, s) /\ h2.data = h.data /\ h2.link = h.link
<1>. DEFINE L == h.link
            D == h.data
            R == h.red
            p == s.p
            q == s.q
            R2 == [[[R EXCEPT ![p] = FALSE] EXCEPT ![w] = TRUE] EXCEPT ![q] = TRUE]
<1>1. /\ p \in A /\ q \in A /\ w \in A /\ s.last \in Dirs
      /\ q = L[p][s.last] /\ w = L[p][Other(s.last)]
      /\ p # q /\ p # w /\ q # w
      /\ ~R[q] /\ ~R[w] /\ (R[p] \/ p = L[HEAD][1])
  BY BesideIs DEF IsBeside
<1>2. /\ h \in Heaps /\ h.bug = "none" /\ Tree(L, D, A, B) /\ Unshared(L, A) /\ Typed(L, D, A, B)
      /\ Heights(L, R, A, H)
      /\ \A n \in A : RedAlone(L, R, n)
  BY DEF Arrival, Tree
<1>3. A \subseteq Nodes /\ NULL \notin A /\ Other(s.last) \in Dirs
      /\ \A n \in A, i \in Dirs : L[n][i] # NULL => L[n][i] \in A
  BY <1>1, <1>2, TreeTypes, DirFacts
<1>4. /\ R \in [Nodes -> BOOLEAN] /\ L \in [Nodes \cup {HEAD} -> [Dirs -> MaybeNode]]
      /\ D \in [Nodes -> Data \cup {NULL}]
      /\ h = [red |-> R, data |-> D, link |-> L, bug |-> h.bug]
  BY <1>2 DEF Heaps
<1>5. h2 = [red |-> R2, data |-> D, link |-> L, bug |-> h.bug]
  BY <1>4 DEF Pushed
<1>6. R2 \in [Nodes -> BOOLEAN]
  BY <1>4
<1>7. ~R2[p] /\ R2[w] /\ R2[q] /\ \A m \in A : m # p /\ m # q /\ m # w => R2[m] = R[m]
  BY <1>1, <1>3, <1>4
<1>. HIDE DEF R2, L, D, R
<1>8. h2.red = R2 /\ h2.data = D /\ h2.link = L /\ h2.bug = "none"
  <2>1. h.bug = "none"
    BY <1>2
  <2>. QED  BY ONLY <2>1, <1>5
<1>9. h2 \in Heaps
  BY ONLY <1>2, <1>4, <1>5, <1>6 DEF Heaps
<1>10. \E H2 : Heights(L, R2, A, H2)
  <2>. HIDE DEF p, q
  <2>. QED  BY ONLY <1>1, <1>2, <1>7, PushHeights
<1>11. ASSUME NEW m \in A
       PROVE  RedAlone(L, R2, m)
  <2>. SUFFICES ASSUME R2[m], NEW i \in Dirs, L[m][i] # NULL
                PROVE  ~R2[L[m][i]]
    BY DEF RedAlone, Black
  <2>1. L[m][i] \in A /\ m # p
    BY <1>3, <1>7
  <2>2. L[m][i] # q /\ L[m][i] # w
    BY <2>1, <1>1, <1>2, <1>3 DEF Unshared
  <2>3. ~R[L[m][i]]
    <3>1. CASE m = q
      BY <3>1, <2>1 DEF AllBlackAt, Black, L, R
    <3>2. CASE m = w
      BY <3>2, <2>1 DEF Black, L, R
    <3>3. CASE m # q /\ m # w
      BY <3>3, <2>1, <1>2, <1>7 DEF RedAlone, Black
    <3>. QED  BY <3>1, <3>2, <3>3
  <2>. QED  BY <2>1, <2>2, <2>3, <1>7
<1>12. PICK H2 : Heights(L, R2, A, H2)
  BY <1>10
<1>13. Arrival(h2, A, B, H2, s)
  <2>1. Arrived(L, D, R, A, B, s)
    BY DEF Arrival, L, D, R
  <2>2. Arrived(L, D, R2, A, B, s)
    <3>1. R2[s.q]
      BY <1>7
    <3>. QED  BY <3>1, <2>1 DEF Arrived
  <2>. QED  BY <2>2, <1>2, <1>8, <1>9, <1>11, <1>12 DEF Arrival
<1>. QED  BY <1>7, <1>8, <1>13, ArrivedContinues DEF D, L

\* h2 is h after the red of a rotation's top and of q was set.
Painted(h, q, top) ==
  [h EXCEPT !.red[q] = TRUE, !.red[top] = TRUE,
            !.red[h.link[top][0]] = FALSE, !.red[h.link[top][1]] = FALSE]

IsPainted(h, h2, q, top) ==
  /\ h2 \in Heaps /\ h2.link = h.link /\ h2.data = h.data /\ h2.bug = h.bug
  /\ h2.red[q] /\ h2.red[top]
  /\ \A i \in Dirs : ~h2.red[h.link[top][i]]
  /\ \A m \in Nodes : m # q /\ m # top /\ (\A i \in Dirs : m # h.link[top][i])
                      => h2.red[m] = h.red[m]

LEMMA PaintedIs ==
  ASSUME NEW h \in Heaps, NEW q \in Nodes, NEW top \in Nodes,
         \A i \in Dirs : h.link[top][i] \in Nodes \ {q, top},
         NEW h2, h2 = Painted(h, q, top)
  PROVE  IsPainted(h, h2, q, top)
<1>. DEFINE a == h.link[top][0]
            b == h.link[top][1]
            r == h.red
            r1 == [[r EXCEPT ![q] = TRUE] EXCEPT ![top] = TRUE]
            r2 == [[r1 EXCEPT ![a] = FALSE] EXCEPT ![b] = FALSE]
<1>1. /\ r \in [Nodes -> BOOLEAN]
      /\ h.data \in [Nodes -> Data \cup {NULL}]
      /\ h.link \in [Nodes \cup {HEAD} -> [Dirs -> MaybeNode]]
      /\ h.bug \in {"none", "BUG_ON", "null", "freed"}
      /\ h = [red |-> r, data |-> h.data, link |-> h.link, bug |-> h.bug]
  BY DEF Heaps
<1>2. /\ a \in Nodes \ {q, top} /\ b \in Nodes \ {q, top}
      /\ \A i \in Dirs : h.link[top][i] = a \/ h.link[top][i] = b
      /\ \A m : (\A i \in Dirs : m # h.link[top][i]) => m # a /\ m # b
  BY DEF Dirs
<1>3. h2 = [red |-> r2, data |-> h.data, link |-> h.link, bug |-> h.bug]
  BY <1>1 DEF Painted
<1>4. r1 \in [Nodes -> BOOLEAN] /\ r1[q] /\ r1[top]
      /\ \A m \in Nodes : m # q /\ m # top => r1[m] = r[m]
  BY <1>1
<1>5. r2 \in [Nodes -> BOOLEAN] /\ r2[q] /\ r2[top] /\ ~r2[a] /\ ~r2[b]
      /\ \A m \in Nodes : m # q /\ m # top /\ m # a /\ m # b => r2[m] = r[m]
  <2>. HIDE DEF a, b, r, r1
  <2>. QED  BY <1>2, <1>4
<1>. HIDE DEF r2
<1>6. h2.red = r2 /\ h2.data = h.data /\ h2.link = h.link /\ h2.bug = h.bug
  BY ONLY <1>3
<1>7. h2 \in Heaps
  BY ONLY <1>1, <1>3, <1>5 DEF Heaps
<1>8. \A i \in Dirs : ~r2[h.link[top][i]]
  BY ONLY <1>2, <1>5
<1>9. \A m \in Nodes : m # q /\ m # top /\ (\A i \in Dirs : m # h.link[top][i])
                      => r2[m] = r[m]
  <2>. SUFFICES ASSUME NEW m \in Nodes, m # q, m # top, \A i \in Dirs : m # h.link[top][i]
                PROVE  r2[m] = r[m]
    OBVIOUS
  <2>1. m # a /\ m # b
    BY DEF Dirs
  <2>. HIDE DEF a, b, r
  <2>. QED  BY <2>1, <1>5
<1>. QED  BY ONLY <1>5, <1>6, <1>7, <1>8, <1>9 DEF IsPainted

\* h1 is h, or h after the sibling of q was rotated: top can be rotated over p, and
\* its outer child c is red.
IsMiddle(h, h1, A, B, s, at, top, c) ==
  /\ h1 \in Heaps /\ h1.data = h.data /\ h1.bug = "none"
  /\ \E B1 \in [Nodes -> [Dirs -> MaybeNode]] :
       /\ Tree(h1.link, h1.data, A, B1)
       /\ B1[s.q] = B[s.q]
       /\ \A z \in Int : Within(h.data, B1, s.q, z) <=> Within(h.data, B, s.q, z)
  /\ Levelled(h1.link, h1.red, A)
  /\ top \in A /\ c \in A /\ top # s.q /\ s.g # top
  /\ at \in Dirs /\ h1.link[s.g][at] = s.p
  /\ h1.link[s.p][s.last] = s.q
  /\ h1.link[s.p][Other(s.last)] = top /\ h1.link[top][Other(s.last)] = c
  /\ ~h1.red[s.q] /\ ~h1.red[top] /\ h1.red[c]
  /\ h1.red[s.p] \/ s.p = h1.link[HEAD][1]
  /\ \A m \in A : m # s.p /\ m # s.q /\ m # top /\ m # c => h1.red[m] = h.red[m]
  /\ \A m \in A, i \in Dirs : m # s.p /\ m # top /\ m # c => h1.link[m][i] = h.link[m][i]
  /\ \A m \in A, i \in Dirs : h.link[m][i] = top => m = s.p \/ m = c

LEMMA MiddleContinues ==
  ASSUME NEW h, NEW A, NEW B, NEW H, NEW s, Arrival(h, A, B, H, s),
         AllBlackAt(h.link, h.red, s.q), NEW w, IsBeside(h, A, s, w),
         NEW h1, NEW at, NEW top, NEW c, IsMiddle(h, h1, A, B, s, at, top, c),
         NEW hs, hs = Single(h1, s.p, s.last, s.g, at),
         NEW h2, h2 = Painted(hs, s.q, top)
  PROVE  Continues(h2, A, s) /\ h2.data = h.data /\ hs.link[s.g][at] = top
         /\ LinksStay(h, h2, A, B, s.q)
<1>. DEFINE L == h.link
            D == h.data
            R == h.red
            p == s.p
            q == s.q
            g == s.g
<1>1. /\ Tree(L, D, A, B) /\ \A n \in A : RedAlone(L, R, n)
      /\ Arrived(L, D, R, A, B, s)
  BY DEF Arrival
<1>2. /\ p \in A /\ q \in A /\ s.last \in Dirs /\ q = L[p][s.last]
      /\ p # q /\ g \in A \cup {HEAD} /\ (g \in A => ~R[g]) /\ g # p /\ g # q
  BY DEF IsBeside
<1>3. /\ h1 \in Heaps /\ h1.data = D /\ h1.bug = "none"
      /\ Levelled(h1.link, h1.red, A)
      /\ top \in A /\ c \in A /\ top # q /\ g # top
      /\ at \in Dirs /\ h1.link[g][at] = p /\ h1.link[p][s.last] = q
      /\ h1.link[p][Other(s.last)] = top /\ h1.link[top][Other(s.last)] = c
      /\ ~h1.red[q] /\ ~h1.red[top] /\ h1.red[c]
      /\ h1.red[p] \/ p = h1.link[HEAD][1]
      /\ \A m \in A : m # p /\ m # q /\ m # top /\ m # c => h1.red[m] = R[m]
      /\ \A m \in A, i \in Dirs : m # p /\ m # top /\ m # c => h1.link[m][i] = L[m][i]
      /\ \A m \in A, i \in Dirs : L[m][i] = top => m = p \/ m = c
  BY DEF IsMiddle
<1>4. PICK B1 \in [Nodes -> [Dirs -> MaybeNode]] :
        /\ Tree(h1.link, D, A, B1)
        /\ B1[q] = B[q]
        /\ \A z \in Int : Within(D, B1, q, z) <=> Within(D, B, q, z)
  BY <1>3 DEF IsMiddle
<1>5. PICK H1 : Heights(h1.link, h1.red, A, H1)
  BY <1>3 DEF Levelled
<1>6. A \subseteq Nodes /\ NULL \notin A /\ HEAD \notin A /\ s.d \in Int
      /\ s.last # Other(s.last) /\ Other(s.last) \in Dirs
      /\ \A i \in Dirs : i = s.last \/ i = Other(s.last)
  BY <1>1, <1>2, TreeTypes, DirFacts, RBTreeAssumption DEF Tree, Arrived
<1>7. c # p /\ c # q /\ c # top /\ top # p
  <2>0. /\ Tree(h1.link, D, A, B1) /\ p \in A /\ q \in A /\ top \in A /\ c \in A /\ NULL \notin A
        /\ Other(s.last) \in Dirs
        /\ h1.link[p][Other(s.last)] = top /\ h1.link[top][Other(s.last)] = c
    BY <1>2, <1>3, <1>4, <1>6
  <2>. HIDE DEF D, p, q
  <2>1. Above(D, B1, p, top) /\ Above(D, B1, top, c)
    BY ONLY <2>0, AboveFacts
  <2>2. Above(D, B1, p, c) /\ ~Above(D, B1, p, p) /\ ~Above(D, B1, top, top)
    BY ONLY <2>0, <2>1, AboveFacts
  <2>3. c # p /\ c # top /\ top # p
    BY ONLY <2>1, <2>2
  <2>. QED  BY <2>3, <1>3
<1>8. IsSingle(h1, hs, A, p, s.last, top, g, at)
  <2>1. /\ h1 \in Heaps /\ Tree(h1.link, h1.data, A, B1)
        /\ p \in A /\ s.last \in Dirs /\ h1.link[p][Other(s.last)] # NULL
        /\ g \in A \cup {HEAD} /\ at \in Dirs /\ h1.link[g][at] = p
    BY <1>2, <1>3, <1>4, <1>6
  <2>. HIDE DEF p, g
  <2>2. IsSingle(h1, Single(h1, p, s.last, g, at), A, p, s.last, h1.link[p][Other(s.last)], g, at)
    BY ONLY <2>1, SingleIs
  <2>. QED  BY <2>2, <1>3 DEF p, g
<1>9. /\ hs \in Heaps /\ hs.data = D /\ hs.bug = "none"
      /\ IsRotation(h1.link, hs.link, A, p, s.last, top, g, at)
      /\ \A m \in Nodes \ {p, top} : hs.red[m] = h1.red[m]
  BY <1>3, <1>8 DEF IsSingle
<1>10. /\ hs.link[g][at] = top
       /\ hs.link[top][s.last] = p /\ hs.link[top][Other(s.last)] = c
       /\ hs.link[p][s.last] = q
       /\ \A m \in A, i \in Dirs : m # p /\ m # top /\ m # g => hs.link[m][i] = h1.link[m][i]
  <2>1. \A m \in A \cup {HEAD}, i \in Dirs :
          hs.link[m][i] = IF m = p /\ i = Other(s.last) THEN h1.link[top][s.last]
                          ELSE IF m = top /\ i = s.last THEN p
                          ELSE IF m = g /\ i = at THEN top
                          ELSE h1.link[m][i]
    BY <1>9 DEF IsRotation
  <2>. HIDE DEF L, D, R, p, q, g
  <2>. QED  BY ONLY <2>1, <1>2, <1>3, <1>6, <1>7
<1>11. IsPainted(hs, h2, q, top)
  <2>1. \A i \in Dirs : hs.link[top][i] \in Nodes \ {q, top}
    <3>1. \A i \in Dirs : hs.link[top][i] = p \/ hs.link[top][i] = c
      BY <1>6, <1>10
    <3>2. {p, c} \subseteq Nodes \ {q, top}
      BY <1>2, <1>3, <1>6, <1>7
    <3>. QED  BY ONLY <3>1, <3>2
  <2>2. hs \in Heaps /\ q \in Nodes /\ top \in Nodes
    BY <1>2, <1>3, <1>6, <1>9
  <2>3. h2 = Painted(hs, q, top)
    OBVIOUS
  <2>. HIDE DEF q
  <2>. QED  BY ONLY <2>1, <2>2, <2>3, PaintedIs
<1>12. /\ h2 \in Heaps /\ h2.link = hs.link /\ h2.data = D /\ h2.bug = "none"
       /\ h2.red[q] /\ h2.red[top] /\ ~h2.red[p] /\ ~h2.red[c]
       /\ \A m \in A : m # q /\ m # top /\ m # p /\ m # c => h2.red[m] = h1.red[m]
  <2>1. /\ h2 \in Heaps /\ h2.link = hs.link /\ h2.data = hs.data /\ h2.bug = hs.bug
        /\ h2.red[q] /\ h2.red[top]
        /\ \A i \in Dirs : ~h2.red[hs.link[top][i]]
        /\ \A m \in Nodes : m # q /\ m # top /\ (\A i \in Dirs : m # hs.link[top][i])
                            => h2.red[m] = hs.red[m]
    BY <1>11 DEF IsPainted
  <2>2. ~h2.red[p] /\ ~h2.red[c]
    BY <2>1, <1>2, <1>6, <1>10
  <2>3. \A m \in A : m # q /\ m # top /\ m # p /\ m # c => h2.red[m] = h1.red[m]
    <3>. SUFFICES ASSUME NEW m \in A, m # q, m # top, m # p, m # c
                  PROVE  h2.red[m] = h1.red[m]
      OBVIOUS
    <3>1. \A i \in Dirs : m # hs.link[top][i]
      BY <1>6, <1>10
    <3>2. m \in Nodes /\ hs.red[m] = h1.red[m]
      BY <1>6, <1>9
    <3>. QED  BY <3>1, <3>2, <2>1
  <2>. QED  BY <2>1, <2>2, <2>3, <1>9
<1>13. Levelled(h2.link, h2.red, A)
  <2>1. \A m \in A : m # p /\ m # q /\ m # top /\ m # c => h2.red[m] = h1.red[m]
    BY <1>12
  <2>2. /\ Tree(h1.link, D, A, B1) /\ Heights(h1.link, h1.red, A, H1)
        /\ p \in A /\ s.last \in Dirs /\ q \in A /\ top \in A /\ c \in A
        /\ q = h1.link[p][s.last] /\ top = h1.link[p][Other(s.last)]
        /\ c = h1.link[top][Other(s.last)]
        /\ IsRotation(h1.link, hs.link, A, p, s.last, top, g, at)
        /\ ~h1.red[q] /\ ~h1.red[top] /\ h1.red[c] /\ (h1.red[p] \/ p = h1.link[HEAD][1])
        /\ ~h2.red[p] /\ h2.red[q] /\ h2.red[top] /\ ~h2.red[c]
    BY <1>2, <1>3, <1>4, <1>5, <1>9, <1>12
  <2>. HIDE DEF p, q, g, D
  <2>3. Levelled(hs.link, h2.red, A)
    <3>1. IsOuter(h1.link, h1.red, h2.red, A, p, s.last, q, top, c)
      BY ONLY <2>1, <2>2 DEF IsOuter
    <3>. QED  BY ONLY <2>2, <3>1, SiblingOver
  <2>. QED  BY <2>3, <1>12
<1>14. \A m \in A : RedAlone(h2.link, h2.red, m)
  <2>1. \A m \in A : h2.red[m] /\ m # q /\ m # top => R[m]
    BY <1>3, <1>12
  <2>2. \A i \in Dirs : Black(h2.red, h2.link[top][i])
    BY <1>6, <1>10, <1>12 DEF Black
  <2>3. ASSUME NEW m \in A, NEW i \in Dirs, h2.red[m], m # top
        PROVE  h2.link[m][i] = L[m][i] /\ L[m][i] # top
    <3>1. m # p /\ m # c
      BY <2>3, <1>12
    <3>2. m # g
      BY <2>1, <2>3, <1>2
    <3>3. h2.link[m][i] = h1.link[m][i]
      <4>1. hs.link[m][i] = h1.link[m][i]
        BY <3>1, <3>2, <2>3, <1>10
      <4>. QED  BY <4>1, <1>12
    <3>4. h1.link[m][i] = L[m][i] /\ L[m][i] # top
      BY <3>1, <2>3, <1>3
    <3>. QED  BY <3>3, <3>4
  <2>4. /\ Tree(L, D, A, B) /\ p \in A /\ s.last \in Dirs /\ q \in A /\ top \in A
        /\ q = L[p][s.last] /\ top # q /\ (\A m \in A : RedAlone(L, R, m)) /\ AllBlackAt(L, R, q)
        /\ ~h2.red[p]
    BY <1>1, <1>2, <1>3, <1>12
  <2>5. \A m \in A, i \in Dirs : h2.red[m] /\ m # top => h2.link[m][i] = L[m][i] /\ L[m][i] # top
    BY <2>3
  <2>. HIDE DEF p, q, D, L, R
  <2>6. IsPushed(L, h2.link, R, h2.red, A, p, s.last, q, top)
    BY ONLY <2>1, <2>2, <2>4, <2>5 DEF IsPushed
  <2>. QED  BY ONLY <2>4, <2>6, PushedAlone
<1>. DEFINE B2 == BoundsRotated(B1, p, s.last, top)
<1>15. Tree(h2.link, D, A, B2)
  <2>1. Tree(h1.link, D, A, B1) /\ IsRotation(h1.link, hs.link, A, p, s.last, top, g, at)
    BY <1>4, <1>9
  <2>. HIDE DEF D, p, g
  <2>2. Tree(hs.link, D, A, B2)
    BY ONLY <2>1, RotationTree DEF B2
  <2>. QED  BY <2>2, <1>12
<1>16. /\ B2 \in [Nodes -> [Dirs -> MaybeNode]]
       /\ B2[q] = B[q]
       /\ \A z \in Int : Within(D, B2, q, z) <=> Within(D, B, q, z)
  <2>1. /\ Tree(h1.link, D, A, B1) /\ p \in A /\ s.last \in Dirs /\ h1.link[p][Other(s.last)] # NULL
        /\ top = h1.link[p][Other(s.last)]
    BY <1>2, <1>3, <1>4, <1>6
  <2>2. /\ B2 \in [Nodes -> [Dirs -> MaybeNode]]
        /\ \A m \in Nodes \ {p, top} : B2[m] = B1[m]
        /\ \A m \in A \ {p, top}, z \in Int : Within(D, B2, m, z) <=> Within(D, B1, m, z)
    <3>. HIDE DEF D, p
    <3>. QED  BY ONLY <2>1, RotationWithin DEF B2
  <2>3. q \in A \ {p, top} /\ q \in Nodes
    BY <1>2, <1>3, <1>6
  <2>. HIDE DEF B2
  <2>. QED  BY <2>2, <2>3, <1>4
<1>. HIDE DEF B2
<1>17. RemoveInv(h2.link, D, h2.red, A, B2, s)
  <2>1. /\ s.d \in Data /\ s.dir \in Dirs /\ s.f \in A \cup {NULL}
        /\ s.dir = (IF D[q] < s.d THEN 1 ELSE 0)
        /\ IF s.f = NULL THEN Within(D, B, q, s.d) /\ D[q] # s.d
           ELSE D[s.f] = s.d /\ (s.f = q \/ B[q][1] = s.f)
    BY <1>1 DEF Arrived
  <2>2. \E i \in Dirs : h2.link[p][i] = q
    BY <1>2, <1>10, <1>12
  <2>3. IF s.f = NULL THEN Within(D, B2, q, s.d) /\ D[q] # s.d
        ELSE D[s.f] = s.d /\ (s.f = q \/ B2[q][1] = s.f)
    BY <2>1, <1>6, <1>16
  <2>4. q # HEAD /\ h2.red[q]
    BY <1>2, <1>6, <1>12
  <2>. HIDE DEF D
  <2>. QED  BY <2>1, <2>2, <2>3, <2>4, <1>2 DEF RemoveInv
<1>18. PICK H2 : Heights(h2.link, h2.red, A, H2)
  BY <1>13 DEF Levelled
<1>19. H2 \in [Nodes -> Int]
  BY <1>18 DEF Heights
<1>20. Continues(h2, A, s)
  BY <1>12, <1>14, <1>15, <1>16, <1>17, <1>18, <1>19 DEF Continues
\* None of the nodes that got other links is below q.
<1>21. ASSUME NEW m \in A, NEW i \in Dirs, Within(D, B, q, D[m])
       PROVE  h2.link[m][i] = L[m][i]
  <2>1. Within(D, B1, q, D[m])
    BY <1>1, <1>4, <1>21, TreeTypes DEF Tree
  <2>2. m # p /\ m # top /\ m # c
    <3>0. /\ Tree(h1.link, D, A, B1) /\ p \in A /\ q \in A /\ top \in A /\ c \in A /\ NULL \notin A
          /\ s.last \in Dirs /\ Other(s.last) \in Dirs /\ top # q /\ c # q
          /\ h1.link[p][s.last] = q
          /\ h1.link[p][Other(s.last)] = top /\ h1.link[top][Other(s.last)] = c
      BY <1>2, <1>3, <1>4, <1>6, <1>7
    <3>. HIDE DEF D, p, q
    <3>1. ~Within(D, B1, q, D[p])
      BY ONLY <3>0, AboveFacts DEF Above
    <3>2. ~Within(D, B1, q, D[top])
      BY ONLY <3>0, <3>1, ParentAbove
    <3>3. ~Within(D, B1, q, D[c])
      BY ONLY <3>0, <3>2, ParentAbove
    <3>. QED  BY ONLY <3>1, <3>2, <3>3, <2>1
  <2>3. m # g
    <3>. SUFFICES ASSUME m = g, g \in A PROVE FALSE
      BY <1>21
    <3>0. /\ Tree(h1.link, D, A, B1) /\ p \in A /\ q \in A /\ g \in A /\ NULL \notin A
          /\ s.last \in Dirs /\ at \in Dirs /\ h1.link[p][s.last] = q /\ h1.link[g][at] = p
          /\ Within(D, B1, q, D[g])
      BY <2>1, <1>2, <1>3, <1>4, <1>6
    <3>. HIDE DEF D, p, q, g
    <3>1. Above(D, B1, g, p) /\ Above(D, B1, p, q)
      BY ONLY <3>0, AboveFacts
    <3>2. Above(D, B1, g, q)
      BY ONLY <3>0, <3>1, AboveFacts
    <3>. QED  BY ONLY <3>0, <3>2 DEF Above
  <2>4. hs.link[m][i] = h1.link[m][i] /\ h1.link[m][i] = L[m][i]
    BY <2>2, <2>3, <1>3, <1>10
  <2>. QED  BY <2>4, <1>12
<1>22. LinksStay(h, h2, A, B, q)
  BY <1>21 DEF LinksStay
<1>. QED  BY <1>10, <1>12, <1>20, <1>22

LEMMA SingleMiddle ==
  ASSUME NEW h, NEW A, NEW B, NEW H, NEW s, Arrival(h, A, B, H, s),
         NEW w, IsBeside(h, A, s, w), NEW at \in Dirs, h.link[s.g][at] = s.p,
         NEW c, c = h.link[w][Other(s.last)], ~Black(h.red, c)
  PROVE  IsMiddle(h, h, A, B, s, at, w, c)
<1>1. /\ h \in Heaps /\ h.bug = "none" /\ B \in [Nodes -> [Dirs -> MaybeNode]]
      /\ Tree(h.link, h.data, A, B) /\ Heights(h.link, h.red, A, H) /\ Unshared(h.link, A)
  BY DEF Arrival, Tree
<1>2. /\ s.p \in A /\ s.q \in A /\ w \in A /\ s.last \in Dirs
      /\ s.q = h.link[s.p][s.last] /\ w = h.link[s.p][Other(s.last)]
      /\ s.p # s.q /\ s.p # w /\ s.q # w
      /\ ~h.red[s.q] /\ ~h.red[w]
      /\ h.red[s.p] \/ s.p = h.link[HEAD][1]
      /\ s.g # w
  BY DEF IsBeside
<1>3. Other(s.last) \in Dirs
  BY <1>2, DirFacts
<1>4. c # NULL /\ h.red[c]
  BY DEF Black
<1>5. c \in A /\ NULL \notin A
  BY <1>1, <1>2, <1>3, <1>4, TreeTypes DEF Tree
<1>6. \A m \in A, i \in Dirs : h.link[m][i] = w => m = s.p
  BY <1>1, <1>2, <1>3, <1>5 DEF Unshared
<1>7. Levelled(h.link, h.red, A)
  BY <1>1 DEF Levelled
<1>. QED  BY <1>1, <1>2, <1>4, <1>5, <1>6, <1>7 DEF IsMiddle

LEMMA DoubleMiddle ==
  ASSUME NEW h, NEW A, NEW B, NEW H, NEW s, Arrival(h, A, B, H, s),
         NEW w, IsBeside(h, A, s, w), NEW at \in Dirs, h.link[s.g][at] = s.p,
         NEW r, r = h.link[w][s.last], ~Black(h.red, r),
         NEW h1, h1 = Single(h, w, Other(s.last), s.p, Other(s.last))
  PROVE  IsMiddle(h, h1, A, B, s, at, r, w)
<1>. DEFINE L == h.link
            D == h.data
            R == h.red
            p == s.p
            q == s.q
            g == s.g
            back == Other(s.last)
            B1 == BoundsRotated(B, w, back, r)
<1>1. /\ h \in Heaps /\ h.bug = "none" /\ B \in [Nodes -> [Dirs -> MaybeNode]]
      /\ Tree(L, D, A, B) /\ Heights(L, R, A, H) /\ Unshared(L, A)
  BY DEF Arrival, Tree
<1>2. /\ p \in A /\ q \in A /\ w \in A /\ s.last \in Dirs
      /\ q = L[p][s.last] /\ w = L[p][back]
      /\ p # q /\ p # w /\ q # w
      /\ ~R[q] /\ ~R[w] /\ (R[p] \/ p = L[HEAD][1])
      /\ g \in A \cup {HEAD} /\ (g \in A => ~R[g])
      /\ g # p /\ g # q /\ g # w
  BY DEF IsBeside
<1>3. back \in Dirs /\ back # s.last /\ Other(back) = s.last
  BY <1>2, DirFacts
<1>4. r # NULL /\ R[r]
  BY DEF Black
<1>5. r \in A /\ NULL \notin A /\ HEAD \notin A /\ A \subseteq Nodes
  BY <1>1, <1>2, <1>3, <1>4, TreeTypes DEF Tree
<1>6. r # p /\ r # q /\ r # w /\ g # r
  <2>1. Tree(L, D, A, B) /\ p \in A /\ w \in A /\ r \in A /\ back \in Dirs /\ s.last \in Dirs
        /\ L[p][back] = w /\ L[w][s.last] = r /\ NULL \notin A
    BY <1>1, <1>2, <1>3, <1>5
  <2>. HIDE DEF L, D, p, back
  <2>2. Above(D, B, p, w) /\ Above(D, B, w, r)
    BY ONLY <2>1, AboveFacts
  <2>3. Above(D, B, p, r) /\ ~Above(D, B, p, p)
    BY ONLY <2>1, <2>2, AboveFacts
  <2>. QED  BY <2>3, <1>2, <1>4, <1>5
<1>7. IsSingle(h, h1, A, w, back, r, p, back)
  <2>1. /\ h \in Heaps /\ Tree(h.link, h.data, A, B)
        /\ w \in A /\ back \in Dirs /\ h.link[w][Other(back)] # NULL
        /\ p \in A \cup {HEAD} /\ h.link[p][back] = w
    BY <1>1, <1>2, <1>3, <1>4
  <2>2. h1 = Single(h, w, back, p, back)
    OBVIOUS
  <2>. HIDE DEF p, back
  <2>3. IsSingle(h, Single(h, w, back, p, back), A, w, back, h.link[w][Other(back)], p, back)
    BY ONLY <2>1, SingleIs
  <2>. QED  BY <2>2, <2>3, <1>3
<1>8. /\ h1 \in Heaps /\ h1.data = D /\ h1.bug = "none"
      /\ IsRotation(L, h1.link, A, w, back, r, p, back)
      /\ h1.red[w] /\ ~h1.red[r]
      /\ \A m \in Nodes \ {w, r} : h1.red[m] = R[m]
  BY <1>1, <1>7 DEF IsSingle
<1>9. \A m \in A \cup {HEAD}, i \in Dirs :
        h1.link[m][i] = IF m = w /\ i = s.last THEN L[r][back]
                        ELSE IF m = r /\ i = back THEN w
                        ELSE IF m = p /\ i = back THEN r
                        ELSE L[m][i]
  BY <1>3, <1>8 DEF IsRotation
<1>10. /\ h1.link[g][at] = p /\ h1.link[p][s.last] = q /\ h1.link[p][back] = r /\ h1.link[r][back] = w
       /\ h1.link[HEAD][1] = L[HEAD][1]
       /\ \A m \in A, i \in Dirs : m # p /\ m # r /\ m # w => h1.link[m][i] = L[m][i]
  <2>1. L[g][at] = p /\ 1 \in Dirs
    BY DirFacts
  <2>. HIDE DEF L, p, q, g, back
  <2>. QED  BY ONLY <2>1, <1>2, <1>3, <1>5, <1>6, <1>9
<1>11. Levelled(h1.link, h1.red, A)
  <2>1. \A m \in A \ {w, r} : h1.red[m] = R[m]
    BY <1>5, <1>8
  <2>2. /\ Tree(L, D, A, B) /\ IsRotation(L, h1.link, A, w, back, r, p, back)
        /\ ~R[w] /\ R[r] /\ h1.red[w] /\ ~h1.red[r] /\ Heights(L, R, A, H)
    BY <1>1, <1>2, <1>4, <1>8
  <2>. HIDE DEF L, D, R, p, back
  <2>3. Heights(h1.link, h1.red, A, [H EXCEPT ![w] = H[r], ![r] = H[w]])
    BY ONLY <2>1, <2>2, RotationColours
  <2>. QED  BY <2>3 DEF Levelled
<1>12. Tree(h1.link, D, A, B1)
  <2>1. Tree(L, D, A, B) /\ IsRotation(L, h1.link, A, w, back, r, p, back)
    BY <1>1, <1>8
  <2>. HIDE DEF L, D, p, back
  <2>. QED  BY ONLY <2>1, RotationTree DEF B1
<1>13. /\ B1 \in [Nodes -> [Dirs -> MaybeNode]]
       /\ B1[q] = B[q]
       /\ \A z \in Int : Within(D, B1, q, z) <=> Within(D, B, q, z)
  <2>1. Tree(L, D, A, B) /\ w \in A /\ back \in Dirs /\ L[w][Other(back)] # NULL /\ r = L[w][Other(back)]
    BY <1>1, <1>2, <1>3, <1>4
  <2>2. q \in A \ {w, r} /\ q \in Nodes
    BY <1>2, <1>5, <1>6
  <2>. HIDE DEF L, D, q, back
  <2>3. /\ B1 \in [Nodes -> [Dirs -> MaybeNode]]
        /\ \A m \in Nodes \ {w, r} : B1[m] = B[m]
        /\ \A m \in A \ {w, r}, z \in Int : Within(D, B1, m, z) <=> Within(D, B, m, z)
    BY ONLY <2>1, RotationWithin DEF B1
  <2>. HIDE DEF B1
  <2>. QED  BY <2>2, <2>3
<1>. HIDE DEF B1
<1>14. \A m \in A, i \in Dirs : L[m][i] = r => m = w
  BY <1>1, <1>2, <1>5 DEF Unshared
<1>15. ~h1.red[q] /\ (h1.red[p] \/ p = h1.link[HEAD][1])
       /\ \A m \in A : m # p /\ m # q /\ m # r /\ m # w => h1.red[m] = R[m]
  BY <1>2, <1>5, <1>6, <1>8, <1>10
<1>16. \E B2 \in [Nodes -> [Dirs -> MaybeNode]] :
         /\ Tree(h1.link, h1.data, A, B2) /\ B2[s.q] = B[s.q]
         /\ \A z \in Int : Within(h.data, B2, s.q, z) <=> Within(h.data, B, s.q, z)
  BY <1>8, <1>12, <1>13
<1>. QED  BY <1>2, <1>5, <1>6, <1>8, <1>10, <1>11, <1>14, <1>15, <1>16 DEF IsMiddle

LEMMA RemoveOpened ==
  ASSUME IInv, heap.bug = "none", frame.call = "remove"
  PROVE  /\ size > -MaxRemoves /\ ~inner
         /\ \E B \in [Nodes -> [Dirs -> MaybeNode]], H \in [Nodes -> Int] :
              /\ Tree(heap.link, heap.data, allocated, B)
              /\ Heights(heap.link, heap.red, allocated, H)
              /\ \A n \in allocated : RedAlone(heap.link, heap.red, n)
              /\ RemoveInv(heap.link, heap.data, heap.red, allocated, B, frame)
<1>1. PICK B \in [Nodes -> [Dirs -> MaybeNode]], H \in [Nodes -> Int] :
        Sound(Whole, heap.data, heap.red, allocated, B, H)
  BY Opened
<1>2. Whole = heap.link
  BY DEF Whole
<1>3. CallInv(heap.link, heap.data, heap.red, allocated, B)
      /\ Tree(heap.link, heap.data, allocated, B)
      /\ Heights(heap.link, heap.red, allocated, H)
      /\ (~inner => \A n \in allocated : RedAlone(heap.link, heap.red, n))
  BY <1>1, <1>2 DEF Sound
<1>4. /\ size > -MaxRemoves /\ ~inner
      /\ RemoveInv(heap.link, heap.data, heap.red, allocated, B, frame)
  BY <1>3 DEF CallInv
<1>. QED  BY <1>3, <1>4

LEMMA RemovePassSound ==
  ASSUME IInv, heap.bug = "none", RemovePass
  PROVE  IInv' /\ Implements /\ Shrinks
<1>. DEFINE A == allocated
            s == RemoveMovedDown
            w == Sibling(s)
<1>0. TypeOK /\ RefsInv /\ it.node \in allocated \cup {NULL}
  BY Opened
<1>1. /\ frame.call = "remove" /\ heap.link[frame.q][frame.dir] # NULL
      /\ NothingPushed(s) \/ ChildRotated(s) \/ ColoursFlipped(s) \/ SiblingRotated(s)
      /\ UNCHANGED <<treeVars, answer, it, inner>>
  BY DEF RemovePass
<1>2. size > -MaxRemoves /\ ~inner
  BY <1>1, RemoveOpened
<1>3. PICK B \in [Nodes -> [Dirs -> MaybeNode]], H \in [Nodes -> Int] :
        /\ Tree(heap.link, heap.data, A, B)
        /\ Heights(heap.link, heap.red, A, H)
        /\ \A n \in A : RedAlone(heap.link, heap.red, n)
        /\ RemoveInv(heap.link, heap.data, heap.red, A, B, frame)
  BY <1>1, RemoveOpened
<1>4. heap \in Heaps /\ frame \in Frames /\ A \subseteq Nodes
  BY <1>0 DEF TypeOK
<1>5. /\ s.d = frame.d /\ s.last = frame.dir /\ s.g = frame.p /\ s.p = frame.q
      /\ s.q = heap.link[frame.q][frame.dir]
      /\ s.dir = (IF heap.data[s.q] < frame.d THEN 1 ELSE 0)
      /\ s.f = (IF heap.data[s.q] = frame.d THEN s.q ELSE frame.f)
      /\ s.call = "remove" /\ s.t = frame.t /\ s.path = frame.path /\ s.climbs = frame.climbs
      /\ s.black = frame.black
  BY <1>1, <1>4 DEF RemoveMovedDown, Side, Frames
<1>6. Arrived(heap.link, heap.data, heap.red, A, B, s)
  <2>1. MovedOn(heap.data, heap.link, frame, s)
    BY <1>5 DEF MovedOn
  <2>. HIDE DEF s, A
  <2>. QED  BY <2>1, <1>1, <1>3, Arrives
<1>7. Arrival(heap, A, B, H, s)
  BY <1>3, <1>4, <1>6 DEF Arrival
<1>8. /\ s.d \in Data /\ s.dir \in Dirs /\ s.last \in Dirs /\ s.q \in A /\ s.p \in A \cup {HEAD}
      /\ s.f \in A \cup {NULL}
  BY <1>6 DEF Arrived
<1>9. NULL \notin A /\ Other(s.dir) \in Dirs /\ \A i \in Dirs : i = s.dir \/ i = Other(s.dir)
  BY <1>3, <1>8, TreeTypes, DirFacts DEF Tree
<1>10. s \in Frames
  <2>. DEFINE q2 == heap.link[frame.q][frame.dir]
              dir2 == Side(heap, q2, frame.d)
              f2 == IF heap.data[q2] = frame.d THEN q2 ELSE frame.f
  <2>1. s = [frame EXCEPT !.last = frame.dir, !.g = frame.p, !.p = frame.q, !.q = q2,
                          !.dir = dir2, !.f = f2]
    BY DEF RemoveMovedDown
  <2>2. q2 \in Pointers /\ dir2 \in Dirs /\ f2 \in Pointers
    BY <1>4, <1>5, <1>8 DEF Pointers, Side, Frames
  <2>3. frame.dir \in Dirs /\ frame.p \in Pointers /\ frame.q \in Pointers
    BY <1>4 DEF Frames
  <2>. HIDE DEF s, q2, dir2, f2
  <2>. QED  BY ONLY <2>1, <2>2, <2>3, <1>4 DEF Frames
<1>11. AllBlack(s) <=> AllBlackAt(heap.link, heap.red, s.q)
  BY <1>8, <1>9 DEF AllBlack, AllBlackAt, IsRed, Black
<1>12. \A n : IsRed(heap, n) <=> ~Black(heap.red, n)
  BY DEF IsRed, Black
<1>. HIDE DEF s, A
<1>12a. ASSUME NEW h2, h2.link = heap.link
       PROVE  Kept(heap, h2, A, B, s.q)
  <2>1. Tree(heap.link, heap.data, A, B) /\ Within(heap.data, B, s.q, heap.data[s.q])
    BY <1>3, <1>8, AboveFacts
  <2>2. LinksStay(heap, h2, A, B, s.q)
    BY <1>12a DEF LinksStay
  <2>. QED  BY <2>1, <2>2, <1>8, KeptIs
<1>13. /\ Continues(heap', A, frame') /\ heap'.data = heap.data
       /\ frame' \in Frames /\ frame'.call = "remove"
       /\ frame'.q = s.q /\ Kept(heap, heap', A, B, s.q)
  <2>1. CASE NothingPushed(s)
    <3>1. heap' = heap /\ frame' = s
      BY <2>1 DEF NothingPushed
    <3>2. heap.red[s.q] \/ ~Black(heap.red, heap.link[s.q][s.dir])
          \/ (s.p = HEAD /\ AllBlackAt(heap.link, heap.red, s.q))
      <4>1. IsRed(heap, s.q) \/ IsRed(heap, heap.link[s.q][s.dir]) \/ (AllBlack(s) /\ Sibling(s) = NULL)
        BY <2>1 DEF NothingPushed
      <4>2. CASE AllBlack(s) /\ Sibling(s) = NULL
        <5>1. s.p = HEAD
          BY <4>2, <1>7, <1>11, OnlyTopAlone DEF Sibling, AllBlackAt
        <5>. QED  BY <5>1, <4>2, <1>11
      <4>. QED  BY <4>1, <4>2, <1>12 DEF Black
    <3>3. Continues(heap, A, s)
      BY <3>2, <1>7, ArrivedContinues
    <3>. QED  BY <3>1, <3>3, <1>5, <1>10, <1>12a
  <2>2. CASE ChildRotated(s)
    <3>1. /\ ~heap.red[s.q] /\ Black(heap.red, heap.link[s.q][s.dir])
          /\ ~Black(heap.red, heap.link[s.q][Other(s.dir)])
          /\ heap' = Single(heap, s.q, s.dir, s.p, s.last)
          /\ frame' = [s EXCEPT !.p = heap'.link[s.p][s.last]]
      BY <2>2, <1>8, <1>9, <1>12 DEF ChildRotated, IsRed
    <3>2. /\ frame'.p = heap'.link[s.p][s.last] /\ frame'.d = s.d /\ frame'.dir = s.dir
          /\ frame'.q = s.q /\ frame'.f = s.f /\ frame'.call = s.call
      BY <3>1, <1>10 DEF Frames
    <3>3. Continues(heap', A, frame') /\ heap'.data = heap.data /\ Kept(heap, heap', A, B, s.q)
      <4>1. ASSUME NEW h2, h2 = Single(heap, s.q, s.dir, s.p, s.last),
                   NEW s2, s2.p = h2.link[s.p][s.last],
                   s2.d = s.d /\ s2.dir = s.dir /\ s2.q = s.q /\ s2.f = s.f
            PROVE  Continues(h2, A, s2) /\ h2.data = heap.data /\ Kept(heap, h2, A, B, s.q)
        BY <4>1, <3>1, <1>7, ChildRotatedContinues
      <4>. QED  BY <4>1, <3>1, <3>2
    <3>4. frame' \in Frames
      <4>1. heap'.link[s.p][s.last] \in Pointers
        <5>1. heap' \in Heaps
          BY <3>3 DEF Continues
        <5>. QED  BY <5>1, <1>4, <1>8 DEF Heaps, Pointers, MaybeNode, A
      <4>. QED  BY <4>1, <3>1, <1>10 DEF Frames
    <3>. QED  BY <3>2, <3>3, <3>4, <1>5
  <2>3. CASE ColoursFlipped(s)
    <3>1. /\ AllBlackAt(heap.link, heap.red, s.q)
          /\ w = heap.link[s.p][Other(s.last)] /\ w # NULL
          /\ \A i \in Dirs : Black(heap.red, heap.link[w][i])
          /\ heap' = Pushed(heap, s.p, w, s.q)
          /\ frame' = s
      BY <2>3, <1>11, <1>12 DEF ColoursFlipped, Sibling, Pushed
    <3>. HIDE DEF w
    <3>2. ASSUME NEW h2, h2 = Pushed(heap, s.p, w, s.q)
          PROVE  Continues(h2, A, s) /\ h2.data = heap.data /\ h2.link = heap.link
      BY <3>1, <3>2, <1>7, ColoursFlippedContinues
    <3>3. Continues(heap', A, s) /\ heap'.data = heap.data /\ heap'.link = heap.link
      BY <3>1, <3>2
    <3>. QED  BY <3>1, <3>3, <1>5, <1>10, <1>12a
  <2>4. CASE SiblingRotated(s)
    <3>. DEFINE at == LinkTo(heap, s.g, s.p)
                r == heap.link[w][s.last]
                c == heap.link[w][Other(s.last)]
                h1 == Single(heap, w, Other(s.last), s.p, Other(s.last))
                hs == IF IsRed(heap, r) THEN Double(heap, s.p, s.last, s.g, at)
                      ELSE Single(heap, s.p, s.last, s.g, at)
                top == hs.link[s.g][at]
    <3>1. /\ AllBlackAt(heap.link, heap.red, s.q) /\ frame' = s
          /\ w = heap.link[s.p][Other(s.last)] /\ w # NULL
          /\ (\E i \in Dirs : ~Black(heap.red, heap.link[w][i]))
          /\ heap' = Painted(hs, s.q, top)
      BY <2>4, <1>11, <1>12 DEF SiblingRotated, Sibling, Painted
    <3>. HIDE DEF w, hs
    <3>2. IsBeside(heap, A, s, w)
      BY <3>1, <1>7, BesideIs
    <3>3. at \in Dirs /\ heap.link[s.g][at] = s.p
      <4>1. \E i \in Dirs : heap.link[s.g][i] = s.p
        BY <3>2 DEF IsBeside
      <4>. QED  BY <4>1, LinkToIs
    <3>4. PICK hm, tp, cc : IsMiddle(heap, hm, A, B, s, at, tp, cc) /\ hs = Single(hm, s.p, s.last, s.g, at)
      <4>1. CASE IsRed(heap, r)
        <5>1. ~Black(heap.red, r)
          BY <4>1, <1>12
        <5>2. hs = Single(h1, s.p, s.last, s.g, at)
          BY <4>1, <3>1 DEF hs, Double
        <5>3. r = heap.link[w][s.last] /\ h1 = Single(heap, w, Other(s.last), s.p, Other(s.last))
          OBVIOUS
        <5>. HIDE DEF r, h1, at
        <5>4. IsMiddle(heap, h1, A, B, s, at, r, w)
          BY ONLY <5>1, <5>3, <3>2, <3>3, <1>7, DoubleMiddle
        <5>. QED  BY <5>2, <5>4
      <4>2. CASE ~IsRed(heap, r)
        <5>1. ~Black(heap.red, c)
          <6>1. \A i \in Dirs : i = s.last \/ i = Other(s.last)
            BY <1>8, DirFacts
          <6>. QED  BY <6>1, <4>2, <3>1, <1>12
        <5>2. hs = Single(heap, s.p, s.last, s.g, at)
          BY <4>2 DEF hs
        <5>3. c = heap.link[w][Other(s.last)]
          OBVIOUS
        <5>. HIDE DEF c, at, r
        <5>4. IsMiddle(heap, heap, A, B, s, at, w, c)
          BY ONLY <5>1, <5>3, <3>2, <3>3, <1>7, SingleMiddle
        <5>. QED  BY <5>2, <5>4
      <4>. QED  BY <4>1, <4>2
    <3>. HIDE DEF at
    <3>5. ASSUME NEW h2, h2 = Painted(hs, s.q, tp)
          PROVE  Continues(h2, A, s) /\ h2.data = heap.data /\ hs.link[s.g][at] = tp
                 /\ LinksStay(heap, h2, A, B, s.q)
      BY ONLY <3>1, <3>2, <3>4, <3>5, <1>7, MiddleContinues
    <3>6. hs.link[s.g][at] = tp
      BY <3>5
    <3>7. Continues(heap', A, s) /\ heap'.data = heap.data /\ LinksStay(heap, heap', A, B, s.q)
      BY <3>1, <3>5, <3>6
    <3>8. Kept(heap, heap', A, B, s.q)
      <4>1. Tree(heap.link, heap.data, A, B) /\ Within(heap.data, B, s.q, heap.data[s.q])
        BY <1>3, <1>8, AboveFacts
      <4>. QED  BY <4>1, <3>7, <1>8, KeptIs
    <3>. QED  BY <3>1, <3>7, <3>8, <1>5, <1>10
  <2>. QED  BY <2>1, <2>2, <2>3, <2>4, <1>1
<1>14. PICK B2 \in [Nodes -> [Dirs -> MaybeNode]], H2 \in [Nodes -> Int] :
         /\ Tree(heap'.link, heap'.data, A, B2) /\ Heights(heap'.link, heap'.red, A, H2)
         /\ \A n \in A : RedAlone(heap'.link, heap'.red, n)
         /\ RemoveInv(heap'.link, heap'.data, heap'.red, A, B2, frame')
  BY <1>13 DEF Continues
<1>15. /\ heap' \in Heaps /\ heap'.bug = "none" /\ inner' \in BOOLEAN /\ ~inner'
       /\ UNCHANGED <<treeVars, answer, it>>
  <2>1. inner' = inner /\ inner \in BOOLEAN
    BY <1>0, <1>1 DEF TypeOK
  <2>3. inner' \in BOOLEAN /\ ~inner'
    BY ONLY <2>1, <1>2
  <2>2. heap' \in Heaps /\ heap'.bug = "none"
    BY <1>13 DEF Continues
  <2>. QED  BY <2>2, <2>3, <1>1
<1>16. IInv' /\ UNCHANGED Set!vars
  BY <1>0, <1>1, <1>2, <1>13, <1>14, <1>15, GoesOnSound DEF A
<1>17. Remaining' \subseteq Remaining /\ Remaining' # Remaining
  <2>1. frame.q \in A \cup {HEAD} /\ frame.dir \in Dirs /\ (frame.q = HEAD => frame.dir = 1)
    BY <1>3 DEF RemoveInv
  <2>2. frame'.q = heap.link[frame.q][frame.dir] /\ Kept(heap, heap', A, B, frame'.q)
    BY <1>5, <1>13
  <2>. QED  BY <2>1, <2>2, <1>3, Shrinking DEF A
<1>18. Shrinks
  BY <1>1, <1>17 DEF Shrinks, InIterator, Walks
<1>. QED  BY <1>16, <1>18 DEF Implements

\* Where a node has no link, its data and the bound on that side are neighbours.
LEMMA NoneBetween ==
  ASSUME NEW L, NEW D, NEW A, NEW B, Tree(L, D, A, B),
         NEW n \in A, NEW i \in Dirs, L[n][i] = NULL,
         NEW m \in A, Before(i, D[n], D[m])
  PROVE  /\ B[n][i] \in A
         /\ m = B[n][i] \/ Before(i, D[B[n][i]], D[m])
<1>1. Typed(L, D, A, B) /\ Complete(L, D, A, B) /\ Ordered(D, A, B)
  BY DEF Tree
<1>2. /\ \A x \in A : D[x] \in Int
      /\ \A x \in A, j \in Dirs : B[x][j] # NULL => B[x][j] \in A
      /\ \A x, y \in A : D[x] = D[y] => x = y
  <2>1. \A x, y \in A : D[x] = D[y] => x = y
    BY <1>1 DEF Typed
  <2>. QED  BY <2>1, <1>1, TreeTypes
<1>3. ~Within(D, B, n, D[m])
  BY <1>1 DEF Complete
<1>4. PICK j \in Dirs : B[n][j] # NULL /\ ~Before(j, D[m], D[B[n][j]])
  BY <1>3 DEF Within
<1>. DEFINE b == B[n][j]
<1>5. b \in A /\ Before(j, D[n], D[b])
  <2>1. Within(D, B, n, D[n])
    BY <1>1 DEF Ordered
  <2>. QED  BY <2>1, <1>2, <1>4 DEF Within
<1>6. D[n] \in Int /\ D[m] \in Int /\ D[b] \in Int
  BY <1>2, <1>5
<1>7. ~Before(j, D[m], D[b])
  BY <1>4
<1>. HIDE DEF b
<1>8. i = j
  <2>. SUFFICES ASSUME i # j PROVE FALSE
    OBVIOUS
  <2>1. i \in {0, 1} /\ j \in {0, 1}
    BY DirFacts
  <2>. QED  BY <2>1, <1>5, <1>6, <1>7 DEF Before
<1>9. D[m] = D[b] \/ Before(j, D[b], D[m])
  BY <1>6, <1>7 DEF Before
<1>10. m = b \/ Before(i, D[b], D[m])
  BY <1>2, <1>5, <1>8, <1>9
<1>. QED  BY <1>5, <1>8, <1>10 DEF b

\* The data of nodes that are not in the tree do not matter.
LEMMA ElsewhereTree ==
  ASSUME NEW L, NEW D, NEW A, NEW B, Tree(L, D, A, B),
         NEW D2 \in [Nodes -> Data \cup {NULL}], \A m \in A : D2[m] = D[m]
  PROVE  Tree(L, D2, A, B)
<1>1. CASE A = {}
  <2>1. Typed(L, D, A, B) /\ TopOf(L, A, B) /\ Bounded(L, A, B) /\ Unshared(L, A)
    BY DEF Tree
  <2>2. Typed(L, D2, A, B)
    BY <2>1, <1>1 DEF Typed
  <2>3. Ordered(D2, A, B) /\ Complete(L, D2, A, B)
    BY <1>1 DEF Ordered, Complete
  <2>. QED  BY <2>1, <2>2, <2>3 DEF Tree
<1>2. CASE A # {}
  <2>1. PICK f \in A : TRUE
    BY <1>2
  <2>2. \A m, k \in A : D[m] = D[k] => m = k
    BY DEF Tree, Typed
  <2>3. /\ f \in A /\ D[f] \in Data /\ D2[f] = D[f]
        /\ \A m \in A \ {f} : D2[m] = D[m]
        /\ \A m \in A \ {f} : D[f] # D[m] /\ \A i \in Dirs : Before(i, D[f], D[m]) <=> Before(i, D[f], D[m])
    BY <2>2 DEF Tree, Typed
  <2>. QED  BY <2>3, RelabelTree
<1>. QED  BY <1>1, <1>2

\* The data d are gone: q is, and f has its data if it is another node.
IsOneLess(D, D1, A, q, f, d) ==
  /\ q \in A /\ f \in A /\ d \in Data /\ D[f] = d
  /\ \A m, n \in A : D[m] = D[n] => m = n
  /\ \A m \in A \ {q} : D1[m] = IF m = f THEN D[q] ELSE D[m]

LEMMA OneLessKey ==
  ASSUME NEW D, NEW A, NEW q, NEW f, NEW d, NEW D1, IsOneLess(D, D1, A, q, f, d),
         NEW A1, A1 = A \ {q}
  PROVE  KeysOf(D1, A1) = KeysOf(D, A) \ {d} /\ d \in KeysOf(D, A)
<1>1. /\ q \in A /\ f \in A /\ D[f] = d
      /\ \A m, n \in A : D[m] = D[n] => m = n
      /\ \A m \in A \ {q} : D1[m] = IF m = f THEN D[q] ELSE D[m]
  BY DEF IsOneLess
<1>2. ASSUME NEW m \in A1 PROVE D1[m] \in KeysOf(D, A) \ {d}
  BY <1>1 DEF KeysOf
<1>3. ASSUME NEW m \in A, D[m] # d PROVE D[m] \in KeysOf(D1, A1)
  <2>1. CASE m = q
    BY <2>1, <1>1, <1>3 DEF KeysOf
  <2>2. CASE m # q
    BY <2>2, <1>1, <1>3 DEF KeysOf
  <2>. QED  BY <2>1, <2>2
<1>. QED  BY <1>1, <1>2, <1>3 DEF KeysOf

LEMMA OneLessRef ==
  ASSUME NEW D, NEW A, NEW q, NEW f, NEW d, NEW D1, IsOneLess(D, D1, A, q, f, d),
         NEW A1, A1 = A \ {q}, NEW e \in Data
  PROVE  RefsOf(D1, A1)[e] = IF e = d THEN RefsOf(D, A)[e] - 1 ELSE RefsOf(D, A)[e]
<1>1. KeysOf(D1, A1) = KeysOf(D, A) \ {d} /\ d \in KeysOf(D, A)
  BY OneLessKey
<1>2. /\ RefsOf(D, A)[e] = IF e \in KeysOf(D, A) THEN 1 ELSE 0
      /\ RefsOf(D1, A1)[e] = IF e \in KeysOf(D1, A1) THEN 1 ELSE 0
  BY DEF RefsOf, KeysOf
<1>. QED  BY <1>1, <1>2

\* h1 is h without q, whose data are in f and whose child is where q was.
IsTaken(h, h1, A, p, at, q, f, j) ==
  /\ h1 \in Heaps /\ h1.bug = h.bug
  /\ IsUnlinked(h.link, h1.link, A, q, j, p, at)
  /\ \A m \in A \ {q} : h1.red[m] = h.red[m]
  /\ \A m \in A \ {q} : h1.data[m] = IF m = f THEN h.data[q] ELSE h.data[m]

LEMMA TakenIs ==
  ASSUME NEW h \in Heaps, NEW A \in SUBSET Nodes,
         NEW q \in A, NEW j \in Dirs, h.link[q][j] = NULL,
         NEW p \in A \cup {HEAD}, p # q, NEW at \in Dirs, h.link[p][at] = q, NEW f \in A,
         NEW child, child = h.link[q][Other(j)],
         NEW h1, h1 = Freed([h EXCEPT !.data[f] = h.data[q], !.link[p][at] = child], q)
  PROVE  IsTaken(h, h1, A, p, at, q, f, j)
<1>. DEFINE N == Nodes \cup {HEAD}
            D1 == [[h.data EXCEPT ![f] = h.data[q]] EXCEPT ![q] = NULL]
            R1 == [h.red EXCEPT ![q] = FALSE]
            K1 == [h.link EXCEPT ![p][at] = child]
            K2 == [K1 EXCEPT ![q] = NoLinks]
<1>1. /\ h.link \in [N -> [Dirs -> MaybeNode]] /\ h.red \in [Nodes -> BOOLEAN]
      /\ h.data \in [Nodes -> Data \cup {NULL}]
      /\ h.bug \in {"none", "BUG_ON", "null", "freed"}
      /\ h = [red |-> h.red, data |-> h.data, link |-> h.link, bug |-> h.bug]
  BY DEF Heaps
<1>2. h1 = [red |-> R1, data |-> D1, link |-> K2, bug |-> h.bug]
  BY <1>1 DEF Freed
<1>3. child \in MaybeNode /\ q \in N /\ p \in N /\ NoLinks \in [Dirs -> MaybeNode] /\ HEAD \notin A
  <2>1. Other(j) \in Dirs
    BY DirFacts
  <2>. QED  BY <2>1, <1>1, FrameFacts
<1>4. /\ K1 \in [N -> [Dirs -> MaybeNode]]
      /\ \A m \in N, i \in Dirs : K1[m][i] = IF m = p /\ i = at THEN child ELSE h.link[m][i]
  <2>. HIDE DEF N
  <2>. QED  BY <1>1, <1>3
<1>5. /\ K2 \in [N -> [Dirs -> MaybeNode]]
      /\ \A m \in N, i \in Dirs : m # q => K2[m][i] = IF m = p /\ i = at THEN child ELSE h.link[m][i]
  <2>. HIDE DEF K1, N
  <2>. QED  BY <1>3, <1>4
<1>6. R1 \in [Nodes -> BOOLEAN] /\ \A m \in A \ {q} : R1[m] = h.red[m]
  BY <1>1
<1>7. D1 \in [Nodes -> Data \cup {NULL}]
      /\ \A m \in A \ {q} : D1[m] = IF m = f THEN h.data[q] ELSE h.data[m]
  BY <1>1
<1>. HIDE DEF K1, K2, R1, D1
<1>8. h1.red = R1 /\ h1.data = D1 /\ h1.link = K2 /\ h1.bug = h.bug
  BY ONLY <1>2
<1>9. h1 \in Heaps
  BY ONLY <1>1, <1>2, <1>5, <1>6, <1>7 DEF Heaps
<1>10. IsUnlinked(h.link, K2, A, q, j, p, at)
  <2>1. \A m \in (A \ {q}) \cup {HEAD} : m \in N /\ m # q
    BY <1>3
  <2>. QED  BY <2>1, <1>5 DEF IsUnlinked
<1>. QED  BY <1>6, <1>7, <1>8, <1>9, <1>10 DEF IsTaken

LEMMA TakenReturnable ==
  ASSUME NEW h \in Heaps, h.bug = "none", NEW A, NEW B \in [Nodes -> [Dirs -> MaybeNode]],
         Tree(h.link, h.data, A, B), NEW H, Heights(h.link, h.red, A, H),
         \A m \in A : RedAlone(h.link, h.red, m),
         NEW h1, NEW p, NEW at, NEW q, NEW f, NEW j, IsTaken(h, h1, A, p, at, q, f, j),
         f \in A, h.red[q] \/ p = HEAD, f = q \/ (B[q][1] = f /\ h.link[q][1] = NULL),
         NEW i
  PROVE  Returnable(h1, A \ {q}, i)
<1>. DEFINE L == h.link
            D == h.data
            A1 == A \ {q}
            B1 == BoundsWithout(B, q)
<1>1. /\ h1 \in Heaps /\ h1.bug = "none"
      /\ IsUnlinked(L, h1.link, A, q, j, p, at)
      /\ \A m \in A1 : h1.red[m] = h.red[m]
      /\ \A m \in A1 : h1.data[m] = IF m = f THEN D[q] ELSE D[m]
  BY DEF IsTaken
<1>2. q \in A /\ j \in Dirs /\ L[q][j] = NULL
  BY <1>1 DEF IsUnlinked
<1>3. /\ A \subseteq Nodes
      /\ \A x \in A : D[x] \in Int /\ D[x] \in Data
      /\ \A x, y \in A : D[x] = D[y] => x = y
  <2>1. Typed(L, D, A, B)
    BY DEF Tree
  <2>2. \A x \in A : D[x] \in Data
    BY <2>1 DEF Typed
  <2>3. \A x, y \in A : D[x] = D[y] => x = y
    BY <2>1 DEF Typed
  <2>. QED  BY <2>1, <2>2, <2>3, TreeTypes
<1>4. Tree(h1.link, D, A1, B1)
  <2>1. Tree(L, D, A, B) /\ IsUnlinked(L, h1.link, A, q, j, p, at)
    BY <1>1
  <2>. HIDE DEF L, D
  <2>. QED  BY ONLY <2>1, UnlinkTree
<1>5. Coloured(h1.link, h1.red, A1, H)
  <2>1. Tree(L, D, A, B) /\ IsUnlinked(L, h1.link, A, q, j, p, at)
    BY <1>1
  <2>2. CanGo(h.red, h1.red, A, p, q) /\ Coloured(L, h.red, A, H) /\ A1 = A \ {q}
    BY <1>1 DEF CanGo, Coloured
  <2>. HIDE DEF L, D, A1
  <2>. QED  BY ONLY <2>1, <2>2, UnlinkColours
<1>6. B1 \in [Nodes -> [Dirs -> MaybeNode]]
  BY <1>2, <1>3 DEF BoundsWithout
<1>7. h1.data \in [Nodes -> Data \cup {NULL}]
  BY <1>1 DEF Heaps
<1>. HIDE DEF B1
<1>8. Tree(h1.link, h1.data, A1, B1)
  <2>1. CASE f = q
    <3>1. \A m \in A1 : h1.data[m] = D[m]
      BY <2>1, <1>1
    <3>. HIDE DEF D, A1
    <3>. QED  BY ONLY <3>1, <1>4, <1>7, ElsewhereTree
  <2>2. CASE f # q
    <3>1. f \in A1 /\ B[q][1] = f /\ L[q][1] = NULL /\ 1 \in Dirs
      BY <2>2, DirFacts
    <3>2. D[q] < D[f]
      <4>1. Within(D, B, q, D[q]) /\ f # NULL
        BY <3>1, <1>2, TreeTypes DEF Tree, Ordered
      <4>. QED  BY <4>1, <3>1 DEF Within, Before
    <3>3. ASSUME NEW m \in A1 \ {f}, NEW k \in Dirs
          PROVE  D[q] # D[m] /\ (Before(k, D[q], D[m]) <=> Before(k, D[f], D[m]))
      <4>1. D[q] # D[m] /\ D[f] # D[m] /\ D[q] \in Int /\ D[f] \in Int /\ D[m] \in Int
        BY <1>2, <1>3
      <4>2. D[q] < D[m] => D[f] < D[m]
        <5>1. ASSUME Before(1, D[q], D[m]) PROVE Before(1, D[f], D[m])
          <6>1. m = B[q][1] \/ Before(1, D[B[q][1]], D[m])
            BY <5>1, <3>1, <1>2, NoneBetween
          <6>. QED  BY <6>1, <3>1
        <5>. QED  BY <5>1 DEF Before
      <4>. HIDE DEF D
      <4>. QED  BY <4>1, <4>2, <3>2 DEF Before
    <3>4. h1.data[f] = D[q] /\ D[q] \in Data /\ \A m \in A1 \ {f} : h1.data[m] = D[m]
      BY <3>1, <1>1, <1>2, <1>3
    <3>. HIDE DEF D, A1
    <3>. QED  BY ONLY <3>1, <3>3, <3>4, <1>4, <1>7, RelabelTree
  <2>. QED  BY <2>1, <2>2
<1>9. H \in [Nodes -> Int] /\ A1 \subseteq Nodes
  BY <1>3 DEF Heights
<1>. QED  BY <1>1, <1>5, <1>6, <1>8, <1>9 DEF Returnable, Coloured

LEMMA RemoveEndSound ==
  ASSUME IInv, heap.bug = "none", RemoveEnd
  PROVE  IInv' /\ Implements
<1>. DEFINE A == allocated
            L == heap.link
            D == heap.data
            p == frame.p
            q == frame.q
            f == frame.f
            d == frame.d
<1>0. TypeOK /\ refs = RefsOf(D, A)
  BY Opened
<1>1. frame.call = "remove" /\ L[q][frame.dir] = NULL /\ size' = size - 1 /\ inner' = inner
  BY DEF RemoveEnd
<1>2. size > -MaxRemoves /\ ~inner
  BY <1>1, RemoveOpened
<1>3. PICK B \in [Nodes -> [Dirs -> MaybeNode]], H \in [Nodes -> Int] :
        /\ Tree(L, D, A, B)
        /\ Heights(L, heap.red, A, H)
        /\ \A n \in A : RedAlone(L, heap.red, n)
        /\ RemoveInv(L, D, heap.red, A, B, frame)
  BY <1>1, RemoveOpened
<1>4. heap \in Heaps /\ A \subseteq Nodes /\ inner \in BOOLEAN /\ size \in -MaxRemoves .. MaxSize
  BY <1>0 DEF TypeOK
<1>5. size' \in -MaxRemoves .. MaxSize /\ inner' \in BOOLEAN
  <2>1. MaxRemoves \in Nat /\ MaxSize \in Nat
    BY RBTreeAssumption
  <2>. QED  BY <2>1, <1>1, <1>2, <1>4
<1>6. d \in Data /\ frame.dir \in Dirs /\ NULL \notin A /\ HEAD \notin A
  BY <1>3, TreeTypes DEF RemoveInv, Tree
<1>7. q # HEAD => /\ q \in A /\ p \in A \cup {HEAD} /\ f \in A \cup {NULL}
                  /\ frame.dir = (IF D[q] < d THEN 1 ELSE 0)
                  /\ \E i \in Dirs : L[p][i] = q
                  /\ IF f = NULL THEN Within(D, B, q, d) /\ D[q] # d
                     ELSE D[f] = d /\ (f = q \/ B[q][1] = f)
                  /\ heap.red[q] \/ p = HEAD
  BY <1>1, <1>3 DEF RemoveInv, Black
<1>8. q = HEAD => f = NULL /\ frame.dir = 1
  BY <1>3 DEF RemoveInv
<1>9. CASE f # NULL
  <2>. DEFINE at == LinkTo(heap, p, q)
              h1 == Unlinked(frame)
              h == RootBlackened(h1)
              A1 == A \ {q}
  <2>1. /\ allocated' = A1 /\ refs' = [refs EXCEPT ![D[f]] = @ - 1]
        /\ Return(h, "success")
    BY <1>9 DEF RemoveEnd
  <2>2. /\ q \in A /\ p \in A \cup {HEAD} /\ f \in A /\ D[f] = d /\ (f = q \/ B[q][1] = f)
        /\ (heap.red[q] \/ p = HEAD) /\ frame.dir = (IF D[q] < d THEN 1 ELSE 0)
    BY <1>6, <1>7, <1>8, <1>9
  <2>3. at \in Dirs /\ L[p][at] = q
    BY <1>7, <1>8, <1>9, LinkToIs
  <2>4. p # q
    <3>1. CASE p \in A
      <4>1. Above(D, B, p, q) /\ ~Above(D, B, p, p)
        BY <3>1, <2>2, <2>3, <1>3, <1>6, AboveFacts
      <4>. QED  BY <4>1
    <3>. QED  BY <3>1, <2>2, <1>6
  <2>5. OnlyChild(q) = L[q][Other(frame.dir)]
    BY <1>1, <1>6, DirFacts DEF OnlyChild, Other
  <2>6. IsTaken(heap, h1, A, p, at, q, f, frame.dir)
    <3>1. h1 = Freed([heap EXCEPT !.data[f] = heap.data[q], !.link[p][at] = OnlyChild(q)], q)
      BY DEF Unlinked
    <3>2. /\ heap \in Heaps /\ A \in SUBSET Nodes /\ q \in A /\ frame.dir \in Dirs
          /\ heap.link[q][frame.dir] = NULL /\ p \in A \cup {HEAD} /\ p # q
          /\ at \in Dirs /\ heap.link[p][at] = q /\ f \in A
          /\ OnlyChild(q) = heap.link[q][Other(frame.dir)]
      BY <1>1, <1>4, <1>6, <2>2, <2>3, <2>4, <2>5
    <3>. HIDE DEF h1, A, p, q, f, at
    <3>3. IsTaken(heap, Freed([heap EXCEPT !.data[f] = heap.data[q], !.link[p][at] = OnlyChild(q)], q),
                  A, p, at, q, f, frame.dir)
      BY ONLY <3>2, TakenIs
    <3>. QED  BY <3>1, <3>3
  <2>. HIDE DEF h1
  <2>7. f = q \/ (B[q][1] = f /\ L[q][1] = NULL)
    <3>1. CASE f # q
      <4>1. B[q][1] = f /\ f # NULL /\ 1 \in Dirs
        BY <3>1, <2>2, <1>9, DirFacts
      <4>2. Within(D, B, q, D[q])
        BY <2>2, <1>3 DEF Tree, Ordered
      <4>3. D[q] < d
        BY <4>1, <4>2, <2>2 DEF Within, Before
      <4>. QED  BY <4>1, <4>3, <2>2, <1>1
    <3>. QED  BY <3>1
  <2>8. Returnable(h1, A1, inner)
    <3>1. /\ heap \in Heaps /\ heap.bug = "none" /\ Tree(heap.link, heap.data, A, B)
          /\ Heights(heap.link, heap.red, A, H) /\ (\A m \in A : RedAlone(heap.link, heap.red, m))
          /\ f \in A /\ (heap.red[q] \/ p = HEAD) /\ (f = q \/ (B[q][1] = f /\ heap.link[q][1] = NULL))
      BY <2>2, <2>7, <1>3, <1>4
    <3>. HIDE DEF A, p, q, f, at
    <3>. QED  BY ONLY <3>1, <2>6, <1>3, TakenReturnable
  <2>9. Returnable(h, A1, inner) /\ h.data = h1.data
    <3>. HIDE DEF A1
    <3>. QED  BY <2>8, BlackenedReturnable
  <2>. HIDE DEF h
  <2>10. IsOneLess(D, h.data, A, q, f, d)
    <3>1. \A m \in A \ {q} : h1.data[m] = IF m = f THEN D[q] ELSE D[m]
      BY <2>6 DEF IsTaken
    <3>2. \A m, n \in A : D[m] = D[n] => m = n
      BY <1>3 DEF Tree, Typed
    <3>. QED  BY <3>1, <3>2, <2>2, <2>9, <1>6 DEF IsOneLess
  <2>11. KeysOf(h.data, A1) = KeysOf(D, A) \ {d} /\ d \in KeysOf(D, A)
    <3>1. A1 = A \ {q}
      OBVIOUS
    <3>. HIDE DEF A, A1, D, d, q, f
    <3>2. KeysOf(h.data, A1) = KeysOf(D, A) \ {d}
      BY ONLY <3>1, <2>10, OneLessKey
    <3>3. d \in KeysOf(D, A)
      BY ONLY <3>1, <2>10, OneLessKey
    <3>. QED  BY ONLY <3>2, <3>3
  <2>12. refs' = RefsOf(h.data, A1)
    <3>. DEFINE r == RefsOf(D, A)
                r1 == RefsOf(h.data, A1)
    <3>1. refs' = [r EXCEPT ![d] = r[d] - 1]
      BY <2>1, <2>2, <1>0
    <3>2. r \in [Data -> Int] /\ r1 \in [Data -> Int]
      BY DEF RefsOf
    <3>3. \A e \in Data : r1[e] = IF e = d THEN r[e] - 1 ELSE r[e]
      <4>1. A1 = A \ {q}
        OBVIOUS
      <4>. HIDE DEF A, A1, D, d, q, f
      <4>. QED  BY ONLY <4>1, <2>10, OneLessRef DEF r, r1
    <3>. HIDE DEF r, r1
    <3>4. refs' \in [Data -> Int] /\ \A e \in Data : refs'[e] = r1[e]
      BY ONLY <3>1, <3>2, <3>3, <1>6
    <3>5. refs' = r1
      BY ONLY <3>2, <3>4
    <3>. QED  BY <3>5 DEF r1
  <2>13. IInv' /\ heap'.data = h.data /\ it'.node = NULL
    BY <2>1, <2>9, <2>12, <1>0, <1>1, <1>5, ReturnSound
  <2>14. answer' = <<"remove", "success">>
    BY <2>1, <1>1 DEF Return
  <2>15. Keys' = Keys \ {d} /\ d \in Keys
    BY <2>1, <2>11, <2>13 DEF Keys, KeysOf
  <2>. QED  BY <2>13, <2>14, <2>15, <1>6, SetChanges DEF Implements
<1>10. CASE f = NULL
  <2>. DEFINE h == RootBlackened(heap)
  <2>1. UNCHANGED <<allocated, refs>> /\ Return(h, "invalid argument")
    BY <1>10 DEF RemoveEnd
  <2>2. d \notin Keys
    <3>. SUFFICES ASSUME NEW m \in A, D[m] = d PROVE FALSE
      BY DEF Keys
    <3>1. CASE q = HEAD
      BY <3>1, <1>1, <1>3, <1>8 DEF Tree, TopOf
    <3>2. CASE q # HEAD
      <4>1. q \in A /\ Within(D, B, q, D[m]) /\ D[q] # d
        BY <3>2, <1>7, <1>10
      <4>2. Before(frame.dir, D[q], D[m])
        <5>1. D[q] \in Int /\ D[m] \in Int
          BY <4>1, <1>3, TreeTypes DEF Tree
        <5>. QED  BY <5>1, <4>1, <3>2, <1>7 DEF Before
      <4>. QED  BY <4>1, <4>2, <1>1, <1>3, <1>6 DEF Tree, Complete
    <3>. QED  BY <3>1, <3>2
  <2>3. Returnable(heap, A, inner)
    BY <1>3, <1>4 DEF Returnable
  <2>. HIDE DEF h
  <2>4. Returnable(h, A, inner) /\ h.data = heap.data
    BY <2>3, BlackenedReturnable DEF h
  <2>5. refs' = RefsOf(h.data, allocated') /\ Returnable(h, allocated', inner')
    BY <2>1, <2>4, <1>0, <1>1
  <2>6. IInv' /\ heap'.data = h.data /\ it'.node = NULL
    BY <2>1, <2>5, <1>0, <1>1, <1>5, ReturnSound
  <2>7. answer' = <<"remove", "invalid argument">> /\ Keys' = Keys
    BY <2>1, <2>4, <2>6, <1>1 DEF Return, Keys
  <2>. QED  BY <2>2, <2>6, <2>7, <1>6, SetChanges DEF Implements
<1>. QED  BY <1>9, <1>10
-----------------------------------------------------------------------------
(* Search and iteration                                                    *)

\* What holds while no call changes the tree.
LEMMA StillOpened ==
  ASSUME IInv, heap.bug = "none", frame.call \notin {"insert", "remove"}
  PROVE  \E B \in [Nodes -> [Dirs -> MaybeNode]], H \in [Nodes -> Int] :
           /\ Sound(Whole, heap.data, heap.red, allocated, B, H)
           /\ Tree(Whole, heap.data, allocated, B)
           /\ IteratorInv(Whole, allocated) /\ heap.link[HEAD] = NoLinks
           /\ root = Whole[HEAD][1] /\ root \in allocated \cup {NULL}
           /\ \A n \in allocated : Whole[n] = heap.link[n]
<1>1. PICK B \in [Nodes -> [Dirs -> MaybeNode]], H \in [Nodes -> Int] :
        Sound(Whole, heap.data, heap.red, allocated, B, H)
  BY Opened
<1>2. Tree(Whole, heap.data, allocated, B)
      /\ IteratorInv(Whole, allocated) /\ heap.link[HEAD] = NoLinks
  BY <1>1 DEF Sound, CallInv
<1>3. heap.link \in [Nodes \cup {HEAD} -> [Dirs -> MaybeNode]]
  BY Opened DEF TypeOK, Heaps
<1>4. Whole = [heap.link EXCEPT ![HEAD] = [i \in Dirs |-> IF i = 1 THEN root ELSE NULL]]
  BY DEF Whole
<1>5. root = Whole[HEAD][1]
  BY <1>3, <1>4 DEF Dirs
<1>6. root \in allocated \cup {NULL} /\ HEAD \notin allocated /\ allocated \subseteq Nodes
  <2>1. 1 \in Dirs
    BY DEF Dirs
  <2>. QED  BY <2>1, <1>2, <1>5, TreeTypes DEF Tree
<1>7. \A n \in allocated : Whole[n] = heap.link[n]
  BY <1>3, <1>4, <1>6
<1>. QED  BY <1>1, <1>2, <1>5, <1>6, <1>7

\* A step of a call that leaves the tree alone.
LEMMA StillSound ==
  ASSUME IInv, heap.bug = "none", frame.call \notin {"insert", "remove"},
         UNCHANGED <<heap, treeVars, inner>>,
         frame' \in Frames, frame'.call \notin {"insert", "remove"},
         frame'.call = "none" => frame' = NoFrame,
         frame'.call # "none" => ~inner,
         frame'.call = "find" => frame'.q \in allocated \cup {NULL} /\ frame'.d \in Data,
         answer' = answer \/ answer' \in ({"find"} \cup Walks) \X (Data \cup {NULL}),
         NEW B \in [Nodes -> [Dirs -> MaybeNode]], NEW H \in [Nodes -> Int],
         Sound(Whole, heap.data, heap.red, allocated, B, H),
         \/ it' = it
         \/ /\ it' \in [node : MaybeNode, path : Seq(Nodes)] /\ it'.node \in allocated \cup {NULL}
            /\ IteratorInv(Whole, allocated)',
         frame'.call \in Walks => WalkInv(Whole, allocated, B, frame)'
  PROVE  IInv'
<1>0. TypeOK /\ RefsInv /\ heap' = heap /\ root' = root /\ size' = size /\ allocated' = allocated
      /\ refs' = refs /\ inner' = inner
  BY Opened DEF treeVars
<1>0a. it' \in [node : MaybeNode, path : Seq(Nodes)] /\ it'.node \in allocated \cup {NULL}
  BY Opened DEF TypeOK
<1>1. TypeOK'
  BY <1>0, <1>0a DEF TypeOK
<1>2. BlackRootNeverPanics' /\ RefsInv'
  BY <1>0 DEF BlackRootNeverPanics, RefsInv
<1>3. Whole' = Whole
  BY <1>0 DEF Whole
<1>4. /\ Tree(Whole, heap.data, allocated, B) /\ Heights(Whole, heap.red, allocated, H)
      /\ ~inner => \A n \in allocated : RedAlone(Whole, heap.red, n)
      /\ CallInv(Whole, heap.data, heap.red, allocated, B)
  BY DEF Sound
<1>5. CallInv(Whole, heap.data, heap.red, allocated, B)'
  <2>1. heap.link[HEAD] = NoLinks
    BY <1>4 DEF CallInv
  <2>2. heap'.link[HEAD] = NoLinks
    BY <2>1, <1>0
  <2>3. IteratorInv(Whole, allocated)'
    <3>1. CASE it' = it
      <4>1. IteratorInv(Whole, allocated)
        BY <1>4 DEF CallInv
      <4>. QED  BY <3>1, <4>1, <1>0, <1>3 DEF IteratorInv
    <3>. QED  BY <3>1
  <2>. QED  BY <2>2, <2>3, <1>0 DEF CallInv, InIterator
<1>6. Sound(Whole, heap.data, heap.red, allocated, B, H)'
  BY <1>0, <1>3, <1>4, <1>5 DEF Sound
<1>. QED  BY <1>0, <1>0a, <1>1, <1>2, <1>6 DEF IInv

LEMMA FindBeginSound ==
  ASSUME IInv, heap.bug = "none", ~inner, NEW d \in Data, FindBegin(d)
  PROVE  IInv' /\ Implements
<1>1. PICK B \in [Nodes -> [Dirs -> MaybeNode]], H \in [Nodes -> Int] :
        /\ Sound(Whole, heap.data, heap.red, allocated, B, H)
        /\ root \in allocated \cup {NULL}
  <2>1. frame.call \notin {"insert", "remove"}
    BY DEF FindBegin, Begin
  <2>. QED  BY <2>1, StillOpened
<1>2. /\ frame.call = "none" /\ UNCHANGED <<heap, treeVars, answer, it, inner>>
      /\ frame' = [NoFrame EXCEPT !.call = "find", !.d = d, !.q = root]
  BY DEF FindBegin, Begin
<1>3. root \in Pointers
  BY Opened DEF TypeOK, Pointers, MaybeNode
<1>4. frame' \in Frames /\ frame'.call = "find" /\ frame'.q = root /\ frame'.d = d
  BY <1>2, <1>3, FrameFacts DEF Frames
<1>5. IInv'
  BY <1>1, <1>2, <1>4, StillSound DEF Walks
<1>6. UNCHANGED Set!vars
  BY <1>2 DEF Set!vars, treeVars
<1>. QED  BY <1>5, <1>6 DEF Implements

LEMMA FindPassSound ==
  ASSUME IInv, heap.bug = "none", FindPass
  PROVE  IInv' /\ Implements /\ Shrinks
<1>1. PICK B \in [Nodes -> [Dirs -> MaybeNode]], H \in [Nodes -> Int] :
        /\ Sound(Whole, heap.data, heap.red, allocated, B, H)
        /\ Tree(Whole, heap.data, allocated, B)
        /\ \A n \in allocated : Whole[n] = heap.link[n]
  <2>1. frame.call \notin {"insert", "remove"}
    BY DEF FindPass
  <2>. QED  BY <2>1, StillOpened
<1>2. /\ frame.call = "find" /\ frame.q # NULL
      /\ UNCHANGED <<heap, treeVars, answer, it, inner>>
      /\ frame' = [frame EXCEPT !.q = heap.link[frame.q][0]]
  BY DEF FindPass
<1>3. frame.q \in allocated /\ frame.d \in Data /\ ~inner
  BY <1>1, <1>2 DEF Sound, CallInv
<1>4. heap.link[frame.q][0] \in allocated \cup {NULL}
  <2>1. 0 \in Dirs
    BY DEF Dirs
  <2>2. Whole[frame.q][0] \in allocated \cup {NULL}
    BY <2>1, <1>1, <1>3 DEF Tree, Typed
  <2>. QED  BY <2>2, <1>1, <1>3
<1>5. frame' \in Frames /\ frame'.call = "find" /\ frame'.q \in allocated \cup {NULL}
      /\ frame'.d = frame.d
  <2>1. frame \in Frames /\ allocated \subseteq Nodes
    BY Opened DEF TypeOK
  <2>. QED  BY <2>1, <1>2, <1>4 DEF Frames, Pointers
<1>6. IInv'
  BY <1>1, <1>2, <1>3, <1>5, StillSound DEF Walks
<1>7. UNCHANGED Set!vars
  BY <1>2 DEF Set!vars, treeVars
<1>8. Remaining' \subseteq Remaining /\ Remaining' # Remaining
  <2>1. 0 \in Dirs
    BY DEF Dirs
  <2>2. frame'.q = heap.link[frame.q][0]
    BY <1>2, Opened DEF TypeOK, Frames
  <2>. QED  BY <2>1, <2>2, <1>1, <1>2, <1>3, ShrinkingStill
<1>9. Shrinks
  BY <1>2, <1>8 DEF Shrinks, InIterator, Walks
<1>. QED  BY <1>6, <1>7, <1>9 DEF Implements

LEMMA FindEndSound ==
  ASSUME IInv, heap.bug = "none", FindEnd
  PROVE  IInv' /\ Implements
<1>1. PICK B \in [Nodes -> [Dirs -> MaybeNode]], H \in [Nodes -> Int] :
        /\ Sound(Whole, heap.data, heap.red, allocated, B, H)
        /\ Tree(Whole, heap.data, allocated, B)
  <2>1. frame.call \notin {"insert", "remove"}
    BY DEF FindEnd
  <2>. QED  BY <2>1, StillOpened
<1>2. /\ frame.call = "find" /\ frame' = NoFrame
      /\ UNCHANGED <<heap, treeVars, it, inner>>
      /\ \/ answer' = <<"find", NULL>>
         \/ /\ frame.q # NULL
            /\ heap.data[frame.q] = frame.d
            /\ answer' = <<"find", heap.data[frame.q]>>
  BY DEF FindEnd
<1>3. frame.q \in allocated \cup {NULL} /\ frame.d \in Data
  BY <1>1, <1>2 DEF Sound, CallInv
<1>4. answer' \in {"find"} \X (Data \cup {NULL})
  BY <1>2, <1>3
<1>5. IInv'
  BY <1>1, <1>2, <1>4, FrameFacts, StillSound DEF Walks
<1>6. Set!Find(frame.d)
  <2>1. UNCHANGED Keys /\ UNCHANGED (IF it.node = NULL THEN NULL ELSE heap.data[it.node])
    BY <1>2 DEF Keys, treeVars
  <2>2. \/ answer' = <<"find", NULL>>
        \/ frame.d \in Keys /\ answer' = <<"find", frame.d>>
    BY <1>2, <1>3 DEF Keys
  <2>. QED  BY <2>1, <2>2 DEF Set!Find, Keys
<1>. QED  BY <1>3, <1>5, <1>6 DEF Implements, Set!Next

\* The direction a call of the iterator goes in, and the data it goes to the next of.
Ahead(call) == IF call \in {"first", "next"} THEN 1 ELSE 0

Reach(call) ==
  IF call \in {"first", "last"} THEN Keys
  ELSE {d \in Keys : Before(Ahead(call), heap.data[it.node], d)}

\* d is the next in its direction, NULL when there is none.
IsNearest(i, S, d) ==
  \/ d = NULL /\ S = {}
  \/ d \in S /\ \A e \in S : e = d \/ Before(i, d, e)

LEMMA NearestIs ==
  ASSUME NEW S \in SUBSET Int, NEW d, NULL \notin S
  PROVE  /\ IsNearest(1, S, d) => Set!Least(S) = d
         /\ IsNearest(0, S, d) => Set!Greatest(S) = d
<1>1. CASE d = NULL /\ S = {}
  BY <1>1 DEF Set!Least, Set!Greatest
<1>2. CASE d \in S
  <2>1. ASSUME \A e \in S : e = d \/ Before(1, d, e) PROVE Set!Least(S) = d
    <3>1. \A e \in S : d <= e
      BY <2>1, <1>2 DEF Before
    <3>2. \A x \in S : (\A e \in S : x <= e) => x = d
      BY <3>1, <1>2
    <3>. QED  BY <3>1, <3>2, <1>2 DEF Set!Least
  <2>2. ASSUME \A e \in S : e = d \/ Before(0, d, e) PROVE Set!Greatest(S) = d
    <3>1. \A e \in S : d >= e
      BY <2>2, <1>2 DEF Before
    <3>2. \A x \in S : (\A e \in S : x >= e) => x = d
      BY <3>1, <1>2
    <3>. QED  BY <3>1, <3>2, <1>2 DEF Set!Greatest
  <2>. QED  BY <2>1, <2>2, <1>2 DEF IsNearest
<1>. QED  BY <1>1, <1>2 DEF IsNearest

\* A call of the iterator that comes to the next datum returns what it should.
LEMMA Visits ==
  ASSUME IInv, heap.bug = "none", frame.call \notin {"insert", "remove"},
         NEW call \in Walks, NEW n \in allocated \cup {NULL}, NEW path, MoveTo(call, n, path),
         call \in {"next", "prev"} => it.node \in allocated,
         IsNearest(Ahead(call), Reach(call), IF n = NULL THEN NULL ELSE heap.data[n]),
         path \in Seq(Nodes),
         IF n = NULL THEN path = <<>> ELSE IsPath(Whole, allocated, path, n)
  PROVE  IInv' /\ Implements
<1>. DEFINE z == IF n = NULL THEN NULL ELSE heap.data[n]
            cursor == IF it.node = NULL THEN NULL ELSE heap.data[it.node]
<1>1. PICK B \in [Nodes -> [Dirs -> MaybeNode]], H \in [Nodes -> Int] :
        /\ Sound(Whole, heap.data, heap.red, allocated, B, H)
        /\ Tree(Whole, heap.data, allocated, B)
  BY StillOpened
<1>2. /\ it' = [node |-> n, path |-> path] /\ answer' = <<call, z>>
      /\ frame' = NoFrame /\ UNCHANGED <<heap, treeVars, inner>>
  BY DEF MoveTo
<1>3. allocated \subseteq Nodes /\ NULL \notin allocated /\ \A m \in allocated : heap.data[m] \in Data
      /\ z \in Data \cup {NULL}
  <2>1. Typed(Whole, heap.data, allocated, B)
    BY <1>1 DEF Tree
  <2>2. \A m \in allocated : heap.data[m] \in Data
    BY <2>1 DEF Typed
  <2>. QED  BY <2>1, <2>2, TreeTypes
<1>4. it' \in [node : MaybeNode, path : Seq(Nodes)] /\ it'.node \in allocated \cup {NULL}
  BY <1>2, <1>3 DEF MaybeNode
<1>5. IteratorInv(Whole, allocated)'
  <2>1. Whole' = Whole /\ allocated' = allocated
    BY <1>2, FrameFacts DEF Whole, treeVars
  <2>. QED  BY <2>1, <1>2 DEF IteratorInv
<1>6. answer' \in ({"find"} \cup Walks) \X (Data \cup {NULL})
  BY <1>2, <1>3
<1>7. IInv'
  <2>1. frame' \in Frames /\ frame'.call = "none" /\ frame' = NoFrame
    BY <1>2, FrameFacts
  <2>. QED  BY <2>1, <1>1, <1>2, <1>4, <1>5, <1>6, StillSound DEF Walks
<1>8. Keys' = Keys /\ cursor' = z
  <2>1. heap' = heap /\ allocated' = allocated /\ it'.node = n
    BY <1>2 DEF treeVars
  <2>. QED  BY <2>1 DEF Keys
<1>9. /\ Keys \in SUBSET Int /\ NULL \notin Keys
      /\ Keys = {heap.data[m] : m \in allocated}
  BY <1>3, RBTreeAssumption DEF Keys
<1>10. Reach(call) \in SUBSET Int /\ NULL \notin Reach(call)
  BY <1>9 DEF Reach
<1>11. IsNearest(Ahead(call), Reach(call), z)
  OBVIOUS
<1>. HIDE DEF z
<1>12. Set!Walk
  <2>1. Set!MoveTo(call, z)
    BY <1>2, <1>8 DEF Set!MoveTo, Keys
  <2>2. CASE call = "first"
    <3>1. Set!Least(Keys) = z
      BY <2>2, <1>10, <1>11, NearestIs DEF Ahead, Reach
    <3>. QED  BY <2>1, <2>2, <3>1 DEF Set!Walk, Keys
  <2>3. CASE call = "last"
    <3>1. Set!Greatest(Keys) = z
      BY <2>3, <1>10, <1>11, NearestIs DEF Ahead, Reach
    <3>. QED  BY <2>1, <2>3, <3>1 DEF Set!Walk, Keys
  <2>4. ASSUME call \in {"next", "prev"} PROVE cursor # NULL /\ cursor = heap.data[it.node]
    BY <2>4, <1>3, RBTreeAssumption
  <2>5. CASE call = "next"
    <3>1. Reach(call) = {d \in Keys : d > cursor}
      <4>1. cursor = heap.data[it.node] /\ cursor \in Int
        BY <2>4, <2>5, <1>3, RBTreeAssumption
      <4>. HIDE DEF cursor
      <4>2. Reach(call) = {d \in Keys : Before(1, cursor, d)}
        BY <4>1, <2>5 DEF Reach, Ahead
      <4>. QED  BY <4>1, <4>2, <1>9 DEF Before
    <3>2. Set!Least({d \in Keys : d > cursor}) = z
      BY <3>1, <2>5, <1>10, <1>11, NearestIs DEF Ahead
    <3>. QED  BY <2>1, <2>4, <2>5, <3>2 DEF Set!Walk, Keys
  <2>6. CASE call = "prev"
    <3>1. Reach(call) = {d \in Keys : d < cursor}
      <4>1. cursor = heap.data[it.node] /\ cursor \in Int
        BY <2>4, <2>6, <1>3, RBTreeAssumption
      <4>. HIDE DEF cursor
      <4>2. Reach(call) = {d \in Keys : Before(0, cursor, d)}
        BY <4>1, <2>6 DEF Reach, Ahead
      <4>. QED  BY <4>1, <4>2, <1>9 DEF Before
    <3>2. Set!Greatest({d \in Keys : d < cursor}) = z
      BY <3>1, <2>6, <1>10, <1>11, NearestIs DEF Ahead
    <3>. QED  BY <2>1, <2>4, <2>6, <3>2 DEF Set!Walk, Keys
  <2>. QED  BY <2>2, <2>3, <2>5, <2>6 DEF Walks
<1>. QED  BY <1>7, <1>12 DEF Implements, Set!Next

\* A path can be followed by one node, and can lose its last.
LEMMA PathDown ==
  ASSUME NEW L, NEW A, NEW path, NEW q, IsPath(L, A, path, q),
         NEW i \in Dirs, NEW m \in A, L[q][i] = m
  PROVE  IsPath(L, A, Append(path, q), m)
<1>. DEFINE longer == Append(path, q)
<1>1. q \in A /\ path \in Seq(A)
  BY DEF IsPath
<1>2. longer \in Seq(A) /\ Len(longer) = Len(path) + 1 /\ longer # <<>>
      /\ longer[Len(longer)] = q /\ \A k \in 1..Len(path) : longer[k] = path[k]
  BY <1>1
<1>3. longer[1] = L[HEAD][1]
  <2>1. CASE path = <<>>
    BY <2>1, <1>2 DEF IsPath
  <2>2. CASE path # <<>>
    <3>1. path[1] = L[HEAD][1] /\ 1 \in 1..Len(path)
      BY <2>2, <1>1 DEF IsPath
    <3>. QED  BY <3>1, <1>2
  <2>. QED  BY <2>1, <2>2
<1>4. ASSUME NEW k \in 1..(Len(longer) - 1)
      PROVE  \E j \in Dirs : L[longer[k]][j] = longer[k + 1]
  <2>1. k \in 1..Len(path) /\ path # <<>> /\ Len(path) \in Nat
    BY <1>1, <1>2, <1>4
  <2>2. CASE k = Len(path)
    <3>1. \E j \in Dirs : L[path[Len(path)]][j] = q
      BY <2>1 DEF IsPath
    <3>. QED  BY <3>1, <2>1, <2>2, <1>2
  <2>3. CASE k # Len(path)
    <3>1. k \in 1..(Len(path) - 1) /\ k + 1 \in 1..Len(path)
      BY <2>1, <2>3
    <3>2. \E j \in Dirs : L[path[k]][j] = path[k + 1]
      BY <3>1, <2>1 DEF IsPath
    <3>. QED  BY <3>1, <3>2, <2>1, <1>2
  <2>. QED  BY <2>2, <2>3
<1>. HIDE DEF longer
<1>. QED  BY <1>2, <1>3, <1>4 DEF IsPath, longer

LEMMA PathUp ==
  ASSUME NEW L, NEW A, NEW path, NEW q, IsPath(L, A, path, q), path # <<>>
  PROVE  /\ IsPath(L, A, SubSeq(path, 1, Len(path) - 1), path[Len(path)])
         /\ \E i \in Dirs : L[path[Len(path)]][i] = q
<1>. DEFINE n == Len(path) - 1
            rest == SubSeq(path, 1, n)
            a == path[Len(path)]
<1>1. /\ path \in Seq(A) /\ path[1] = L[HEAD][1]
      /\ \A k \in 1..n : \E i \in Dirs : L[path[k]][i] = path[k + 1]
      /\ \E i \in Dirs : L[a][i] = q
  BY DEF IsPath
<1>2. n \in Nat /\ Len(path) = n + 1 /\ a \in A
  BY <1>1
<1>3. rest \in Seq(A) /\ Len(rest) = n /\ \A k \in 1..n : rest[k] = path[k]
  BY <1>1, <1>2
<1>. HIDE DEF rest, n
<1>4. rest = <<>> => a = L[HEAD][1]
  BY <1>1, <1>2, <1>3
<1>5. ASSUME rest # <<>>
      PROVE  /\ rest[1] = L[HEAD][1]
             /\ \A k \in 1..(Len(rest) - 1) : \E i \in Dirs : L[rest[k]][i] = rest[k + 1]
             /\ \E i \in Dirs : L[rest[Len(rest)]][i] = a
  <2>1. n \in 1..n /\ 1 \in 1..n
    BY <1>2, <1>3, <1>5
  <2>2. rest[1] = L[HEAD][1]
    BY <2>1, <1>1, <1>3
  <2>3. ASSUME NEW k \in 1..(n - 1) PROVE \E i \in Dirs : L[rest[k]][i] = rest[k + 1]
    <3>1. k \in 1..n /\ k + 1 \in 1..n
      BY <1>2
    <3>. QED  BY <3>1, <1>1, <1>3
  <2>4. \E i \in Dirs : L[rest[n]][i] = a
    <3>1. \E i \in Dirs : L[path[n]][i] = path[n + 1]
      BY <2>1, <1>1
    <3>. QED  BY <3>1, <2>1, <1>2, <1>3
  <2>. QED  BY <2>2, <2>3, <2>4, <1>3
<1>6. IsPath(L, A, rest, a)
  BY <1>2, <1>3, <1>4, <1>5 DEF IsPath
<1>. QED  BY <1>1, <1>6 DEF rest, n

LEMMA IteratorStartSound ==
  ASSUME IInv, heap.bug = "none", ~inner,
         NEW call, NEW dir, IteratorStart(call, dir),
         (call = "first" /\ dir = 0) \/ (call = "last" /\ dir = 1)
  PROVE  IInv' /\ Implements
<1>1. frame.call = "none" /\ dir \in Dirs /\ call \in Walks
  BY DEF IteratorStart, Begin, Dirs, Walks
<1>2. PICK B \in [Nodes -> [Dirs -> MaybeNode]], H \in [Nodes -> Int] :
        /\ Sound(Whole, heap.data, heap.red, allocated, B, H)
        /\ Tree(Whole, heap.data, allocated, B)
        /\ root = Whole[HEAD][1] /\ root \in allocated \cup {NULL}
  BY <1>1, StillOpened
<1>3. CASE root # NULL
  <2>1. /\ UNCHANGED <<heap, treeVars, answer, it, inner>>
        /\ frame' = [NoFrame EXCEPT !.call = call, !.q = root, !.dir = dir]
    BY <1>3 DEF IteratorStart, Begin
  <2>2. root \in allocated /\ root \in Pointers
    <3>1. root \in MaybeNode
      BY Opened DEF TypeOK
    <3>. QED  BY <3>1, <1>2, <1>3 DEF Pointers, MaybeNode
  <2>3. /\ frame' \in Frames /\ frame'.call = call /\ frame'.q = root /\ frame'.dir = dir
        /\ frame'.path = <<>> /\ frame'.climbs = FALSE
    BY <2>1, <2>2, <1>1, FrameFacts DEF Frames, NoFrame
  <2>4. B[root][dir] = NULL
    BY <1>1, <1>2, <1>3 DEF Tree, TopOf
  <2>5. IsPath(Whole, allocated, <<>>, root)
    BY <2>2, <1>2 DEF IsPath
  <2>6. WalkInv(Whole, allocated, B, frame)'
    <3>1. Whole' = Whole /\ allocated' = allocated
      BY <2>1, <2>3, <1>1 DEF Whole, treeVars, Walks
    <3>. QED  BY <3>1, <2>3, <2>4, <2>5 DEF WalkInv
  <2>7. IInv'
    BY <2>1, <2>3, <2>6, <1>1, <1>2, StillSound DEF Walks
  <2>8. UNCHANGED Set!vars
    BY <2>1 DEF Set!vars, treeVars
  <2>. QED  BY <2>7, <2>8 DEF Implements
<1>4. CASE root = NULL
  <2>1. MoveTo(call, NULL, <<>>)
    BY <1>4 DEF IteratorStart
  <2>2. allocated = {}
    BY <1>2, <1>4 DEF Tree, TopOf
  <2>3. IsNearest(Ahead(call), Reach(call), NULL)
    BY <2>2 DEF IsNearest, Reach, Keys
  <2>4. call \notin {"next", "prev"} /\ <<>> \in Seq(Nodes)
    OBVIOUS
  <2>. QED  BY <2>1, <2>3, <2>4, <1>1, Visits
<1>. QED  BY <1>3, <1>4

LEMMA IteratorMoveSound ==
  ASSUME IInv, heap.bug = "none", ~inner,
         NEW call, NEW dir, IteratorMove(call, dir),
         (call = "next" /\ dir = 1) \/ (call = "prev" /\ dir = 0)
  PROVE  IInv' /\ Implements
<1>1. /\ frame.call = "none" /\ dir \in Dirs /\ call \in Walks /\ it.node # NULL
      /\ UNCHANGED <<heap, treeVars, answer, it, inner>>
      /\ frame' = IF heap.link[it.node][dir] = NULL
                  THEN [NoFrame EXCEPT !.call = call, !.q = it.node, !.path = it.path,
                                       !.dir = dir, !.climbs = TRUE]
                  ELSE [NoFrame EXCEPT !.call = call, !.q = heap.link[it.node][dir],
                                       !.dir = Other(dir), !.path = Append(it.path, it.node)]
  BY DEF IteratorMove, Begin, Dirs, Walks
<1>2. PICK B \in [Nodes -> [Dirs -> MaybeNode]], H \in [Nodes -> Int] :
        /\ Sound(Whole, heap.data, heap.red, allocated, B, H)
        /\ Tree(Whole, heap.data, allocated, B)
        /\ IteratorInv(Whole, allocated)
        /\ \A n \in allocated : Whole[n] = heap.link[n]
  BY <1>1, StillOpened
<1>. DEFINE A == allocated
            n == it.node
            below == heap.link[n][dir]
<1>3. /\ n \in A /\ A \subseteq Nodes /\ it.path \in Seq(Nodes)
      /\ IsPath(Whole, A, it.path, n) /\ Whole[n][dir] = below
  <2>1. n \in A /\ A \subseteq Nodes /\ it.path \in Seq(Nodes)
    BY <1>1, Opened DEF TypeOK
  <2>. QED  BY <2>1, <1>1, <1>2 DEF IteratorInv
<1>4. Whole' = Whole /\ A' = A /\ it' = it
  <2>1. frame'.call \in Walks
    BY <1>1, FrameFacts DEF Frames
  <2>. QED  BY <2>1, <1>1 DEF Whole, treeVars, Walks
<1>5. frame' \in Frames /\ frame'.call = call /\ WalkInv(Whole, A, B, frame)'
  <2>1. CASE below = NULL
    <3>1. /\ frame' \in Frames /\ frame'.call = call /\ frame'.q = n /\ frame'.dir = dir
          /\ frame'.path = it.path /\ frame'.climbs = TRUE
      BY <2>1, <1>1, <1>3, FrameFacts DEF Frames, Pointers
    <3>2. WalkInv(Whole, A, B, frame')
      BY <2>1, <3>1, <1>1, <1>3 DEF WalkInv
    <3>. QED  BY <3>1, <3>2, <1>4 DEF WalkInv
  <2>2. CASE below # NULL
    <3>1. below \in A /\ B[below][Other(dir)] = n
      <4>1. Typed(Whole, heap.data, A, B) /\ Bounded(Whole, A, B)
        BY <1>2 DEF Tree
      <4>. QED  BY <4>1, <2>2, <1>1, <1>3, TreeTypes DEF Bounded
    <3>2. IsPath(Whole, A, Append(it.path, n), below)
      BY <3>1, <1>1, <1>3, PathDown
    <3>3. Append(it.path, n) \in Seq(Nodes) /\ below \in Pointers /\ Other(dir) \in Dirs
      BY <3>1, <1>1, <1>3, DirFacts DEF Pointers
    <3>4. /\ frame' \in Frames /\ frame'.call = call /\ frame'.q = below /\ frame'.dir = Other(dir)
          /\ frame'.path = Append(it.path, n) /\ frame'.climbs = FALSE
      <4>. HIDE DEF below
      <4>1. frame' = [NoFrame EXCEPT !.call = call, !.q = below, !.dir = Other(dir),
                                     !.path = Append(it.path, n)]
        BY <2>2, <1>1 DEF below
      <4>2. frame' \in Frames
        BY <4>1, <3>3, <1>1, FrameFacts DEF Frames
      <4>. QED  BY <4>1, <4>2 DEF NoFrame
    <3>5. WalkInv(Whole, A, B, frame')
      BY <3>1, <3>2, <3>4, <1>1, <1>3 DEF WalkInv, Other
    <3>. QED  BY <3>4, <3>5, <1>4 DEF WalkInv
  <2>. QED  BY <2>1, <2>2
<1>6. IInv'
  BY <1>1, <1>2, <1>5, StillSound DEF Walks
<1>7. UNCHANGED Set!vars
  BY <1>1 DEF Set!vars, treeVars
<1>. QED  BY <1>6, <1>7 DEF Implements

LEMMA WalkOpened ==
  ASSUME IInv, heap.bug = "none", InIterator
  PROVE  /\ frame.call \notin {"none", "find", "insert", "remove"} /\ ~inner
         /\ frame \in Frames /\ allocated \subseteq Nodes
         /\ \E B \in [Nodes -> [Dirs -> MaybeNode]], H \in [Nodes -> Int] :
              /\ Sound(Whole, heap.data, heap.red, allocated, B, H)
              /\ Tree(Whole, heap.data, allocated, B)
              /\ WalkInv(Whole, allocated, B, frame)
              /\ \A n \in allocated : Whole[n] = heap.link[n]
<1>1. frame.call \notin {"none", "find", "insert", "remove"}
  BY DEF InIterator, Walks
<1>2. PICK B \in [Nodes -> [Dirs -> MaybeNode]], H \in [Nodes -> Int] :
        /\ Sound(Whole, heap.data, heap.red, allocated, B, H)
        /\ Tree(Whole, heap.data, allocated, B)
        /\ \A n \in allocated : Whole[n] = heap.link[n]
  BY <1>1, StillOpened
<1>3. WalkInv(Whole, allocated, B, frame) /\ ~inner
  BY <1>1, <1>2 DEF Sound, CallInv
<1>4. frame \in Frames /\ allocated \subseteq Nodes
  BY Opened DEF TypeOK
<1>. QED  BY <1>1, <1>2, <1>3, <1>4

LEMMA WalkPassSound ==
  ASSUME IInv, heap.bug = "none", WalkPass
  PROVE  IInv' /\ Implements /\ Shrinks
<1>. DEFINE A == allocated
            q == frame.q
            dir == frame.dir
            below == heap.link[q][dir]
<1>1. /\ InIterator /\ ~frame.climbs /\ below # NULL
      /\ UNCHANGED <<heap, treeVars, answer, it, inner>>
      /\ frame' = [frame EXCEPT !.path = Append(@, q), !.q = below]
  BY DEF WalkPass
<1>2. frame.call \notin {"none", "find", "insert", "remove"} /\ ~inner /\ frame \in Frames
      /\ A \subseteq Nodes
  BY <1>1, WalkOpened
<1>3. PICK B \in [Nodes -> [Dirs -> MaybeNode]], H \in [Nodes -> Int] :
        /\ Sound(Whole, heap.data, heap.red, A, B, H)
        /\ Tree(Whole, heap.data, A, B)
        /\ WalkInv(Whole, A, B, frame)
        /\ \A n \in A : Whole[n] = heap.link[n]
  BY <1>1, WalkOpened
<1>4. dir \in Dirs /\ frame.path \in Seq(Nodes)
  BY <1>2 DEF Frames
<1>5. q \in A /\ IsPath(Whole, A, frame.path, q) /\ Whole[q][dir] = below
  <2>1. IsPath(Whole, A, frame.path, q)
    BY <1>3 DEF WalkInv
  <2>. QED  BY <2>1, <1>3 DEF IsPath
<1>6. below \in A /\ B[below][dir] = B[q][dir]
  <2>1. Typed(Whole, heap.data, A, B) /\ Bounded(Whole, A, B)
    BY <1>3 DEF Tree
  <2>. QED  BY <2>1, <1>1, <1>4, <1>5, TreeTypes DEF Bounded
<1>7. IsPath(Whole, A, Append(frame.path, q), below)
  BY <1>4, <1>5, <1>6, PathDown
<1>8. /\ frame' \in Frames /\ frame'.call = frame.call /\ frame'.q = below /\ frame'.dir = dir
      /\ frame'.path = Append(frame.path, q) /\ frame'.climbs = frame.climbs
  <2>1. Append(frame.path, q) \in Seq(Nodes) /\ below \in Pointers
    BY <1>2, <1>4, <1>5, <1>6 DEF Pointers
  <2>. QED  BY <2>1, <1>1, <1>2 DEF Frames
<1>9. WalkInv(Whole, A, B, frame')
  BY <1>1, <1>3, <1>6, <1>7, <1>8 DEF WalkInv
<1>10. WalkInv(Whole, A, B, frame)'
  <2>1. Whole' = Whole /\ A' = A /\ it' = it
    BY <1>1, <1>2, <1>8 DEF Whole, treeVars
  <2>. QED  BY <2>1, <1>9 DEF WalkInv
<1>11. IInv'
  BY <1>1, <1>2, <1>3, <1>8, <1>10, StillSound
<1>12. UNCHANGED Set!vars
  BY <1>1 DEF Set!vars, treeVars
<1>13. Remaining' \subseteq Remaining /\ Remaining' # Remaining
  BY <1>1, <1>3, <1>4, <1>5, <1>8, ShrinkingStill
<1>14. Shrinks
  BY <1>1, <1>13 DEF Shrinks
<1>. QED  BY <1>11, <1>12, <1>14 DEF Implements

\* From a node with no link in a direction, the bound of the node on that side is next.
LEMMA BoundIsNext ==
  ASSUME NEW L, NEW B, Tree(L, heap.data, allocated, B),
         NEW n \in allocated, NEW i \in Dirs, L[n][i] = NULL
  PROVE  IsNearest(i, {d \in Keys : Before(i, heap.data[n], d)},
                   IF B[n][i] = NULL THEN NULL ELSE heap.data[B[n][i]])
<1>. DEFINE D == heap.data
            b == B[n][i]
            S == {d \in Keys : Before(i, D[n], d)}
<1>1. NULL \notin allocated
  BY TreeTypes DEF Tree
<1>2. ASSUME NEW m \in allocated, Before(i, D[n], D[m])
      PROVE  b \in allocated /\ (m = b \/ Before(i, D[b], D[m]))
  BY <1>2, NoneBetween
<1>3. CASE b = NULL
  <2>1. S = {}
    BY <1>1, <1>2, <1>3 DEF Keys
  <2>. QED  BY <2>1, <1>3 DEF IsNearest
<1>4. CASE b # NULL
  <2>1. b \in allocated /\ Before(i, D[n], D[b])
    <3>1. Within(D, B, n, D[n])
      BY DEF Tree, Ordered
    <3>2. b \in allocated
      BY <1>4 DEF Tree, Typed
    <3>. QED  BY <3>1, <3>2, <1>4 DEF Within
  <2>2. D[b] \in S
    BY <2>1 DEF Keys
  <2>3. \A e \in S : e = D[b] \/ Before(i, D[b], e)
    BY <1>2 DEF Keys
  <2>. QED  BY <2>2, <2>3, <1>4 DEF IsNearest
<1>. QED  BY <1>3, <1>4

LEMMA WalkEndSound ==
  ASSUME IInv, heap.bug = "none", WalkEnd
  PROVE  IInv' /\ Implements
<1>. DEFINE A == allocated
            D == heap.data
            q == frame.q
            dir == frame.dir
            call == frame.call
<1>1. InIterator /\ ~frame.climbs /\ heap.link[q][dir] = NULL /\ MoveTo(call, q, frame.path)
  BY DEF WalkEnd
<1>2. call \notin {"none", "find", "insert", "remove"} /\ frame \in Frames /\ call \in Walks
  BY <1>1, WalkOpened DEF InIterator
<1>3. PICK B \in [Nodes -> [Dirs -> MaybeNode]], H \in [Nodes -> Int] :
        /\ Tree(Whole, D, A, B)
        /\ WalkInv(Whole, A, B, frame)
        /\ \A n \in A : Whole[n] = heap.link[n]
  BY <1>1, WalkOpened
<1>4. dir \in Dirs /\ frame.path \in Seq(Nodes)
  BY <1>2 DEF Frames
<1>5. q \in A /\ IsPath(Whole, A, frame.path, q) /\ Whole[q][dir] = NULL
  <2>1. IsPath(Whole, A, frame.path, q)
    BY <1>3 DEF WalkInv
  <2>. QED  BY <2>1, <1>1, <1>3 DEF IsPath
<1>6. /\ NULL \notin A /\ \A n \in A : D[n] \in Int
      /\ Typed(Whole, D, A, B) /\ Ordered(D, A, B)
  BY <1>3, TreeTypes DEF Tree
<1>7. dir = Other(Ahead(call)) /\ Ahead(call) \in Dirs
  BY <1>1, <1>2, <1>3 DEF WalkInv, Ahead, Other, Dirs, Walks
<1>8. call \in {"next", "prev"} => it.node \in A /\ B[q][dir] = it.node
  BY <1>1, <1>3 DEF WalkInv
<1>9. call \in {"first", "last"} => B[q][dir] = NULL
  BY <1>1, <1>3 DEF WalkInv
<1>10. \A a, b \in Int : Before(Ahead(call), a, b) <=> Before(dir, b, a)
  BY <1>7 DEF Before, Other, Dirs
\* Of the data of the tree, the one of q is the first beyond the bound of q.
<1>11. ASSUME NEW m \in A, m # q, ~Before(Ahead(call), D[q], D[m])
       PROVE  B[q][dir] \in A /\ (m = B[q][dir] \/ Before(dir, D[B[q][dir]], D[m]))
  <2>1. D[m] # D[q]
    BY <1>5, <1>6, <1>11 DEF Typed
  <2>2. Before(dir, D[q], D[m])
    <3>1. D[q] \in Int /\ D[m] \in Int
      BY <1>5, <1>6
    <3>2. ~Before(dir, D[m], D[q])
      <4>1. Before(Ahead(call), D[q], D[m]) <=> Before(dir, D[m], D[q])
        BY <3>1, <1>10
      <4>. QED  BY <4>1, <1>11, Zenon
    <3>3. \A x, y \in Int : x # y => x < y \/ y < x
      OBVIOUS
    <3>4. D[q] < D[m] \/ D[m] < D[q]
      BY <2>1, <3>1, <3>3
    <3>. QED  BY <3>2, <3>4, Zenon DEF Before
  <2>. QED  BY <2>2, <1>3, <1>4, <1>5, NoneBetween
<1>. HIDE DEF call, dir, q
<1>12. IsNearest(Ahead(call), Reach(call), D[q])
  <2>1. CASE call \in {"first", "last"}
    <3>1. \A m \in A : m = q \/ Before(Ahead(call), D[q], D[m])
      BY <2>1, <1>6, <1>9, <1>11
    <3>2. Reach(call) = Keys
      BY <2>1 DEF Reach
    <3>3. D[q] \in Keys /\ \A e \in Keys : e = D[q] \/ Before(Ahead(call), D[q], e)
      BY <3>1, <1>5 DEF Keys
    <3>. QED  BY <3>2, <3>3 DEF IsNearest
  <2>2. CASE call \in {"next", "prev"}
    <3>. DEFINE n == it.node
    <3>1. n \in A /\ B[q][dir] = n
      BY <2>2, <1>8
    <3>. HIDE DEF n
    <3>2. Before(Ahead(call), D[n], D[q])
      <4>1. Within(D, B, q, D[q])
        BY <1>5, <1>6 DEF Ordered
      <4>2. Before(dir, D[q], D[n])
        BY <4>1, <3>1, <1>4, <1>6 DEF Within, dir
      <4>. QED  BY <4>2, <3>1, <1>5, <1>6, <1>10
    <3>3. ASSUME NEW m \in A, Before(Ahead(call), D[n], D[m])
          PROVE  m = q \/ Before(Ahead(call), D[q], D[m])
      <4>. SUFFICES ASSUME m # q, ~Before(Ahead(call), D[q], D[m]) PROVE FALSE
        OBVIOUS
      <4>1. m = n \/ Before(dir, D[n], D[m])
        BY <3>1, <1>11
      <4>2. Before(dir, D[m], D[n])
        BY <3>1, <3>3, <1>6, <1>10
      <4>. QED  BY <4>1, <4>2, <3>1, <1>4, <1>6, BeforeFacts DEF dir
    <3>4. Reach(call) = {d \in Keys : Before(Ahead(call), D[n], d)}
      BY <2>2 DEF Reach, n
    <3>5. D[q] \in Reach(call)
      BY <3>2, <3>4, <1>5 DEF Keys
    <3>6. \A e \in Reach(call) : e = D[q] \/ Before(Ahead(call), D[q], e)
      BY <3>3, <3>4 DEF Keys
    <3>. QED  BY <3>5, <3>6 DEF IsNearest
  <2>. QED  BY <2>1, <2>2, <1>2 DEF Walks, call
<1>13. IsNearest(Ahead(call), Reach(call), IF q = NULL THEN NULL ELSE heap.data[q])
  BY <1>5, <1>6, <1>12
<1>. QED  BY <1>1, <1>2, <1>4, <1>5, <1>6, <1>8, <1>13, Visits DEF call, q

LEMMA ClimbPassSound ==
  ASSUME IInv, heap.bug = "none", ClimbPass
  PROVE  IInv' /\ Implements /\ Shrinks
<1>. DEFINE A == allocated
            q == frame.q
            dir == frame.dir
            a == frame.path[Len(frame.path)]
            rest == SubSeq(frame.path, 1, Len(frame.path) - 1)
<1>1. /\ InIterator /\ frame.climbs /\ frame.path # <<>> /\ heap.link[a][dir] = q
      /\ UNCHANGED <<heap, treeVars, answer, it, inner>>
      /\ frame' = [frame EXCEPT !.q = a, !.path = rest]
  BY DEF ClimbPass, Up, Rest
<1>2. frame.call \notin {"none", "find", "insert", "remove"} /\ ~inner /\ frame \in Frames
      /\ A \subseteq Nodes
  BY <1>1, WalkOpened
<1>3. PICK B \in [Nodes -> [Dirs -> MaybeNode]], H \in [Nodes -> Int] :
        /\ Sound(Whole, heap.data, heap.red, A, B, H)
        /\ Tree(Whole, heap.data, A, B)
        /\ WalkInv(Whole, A, B, frame)
        /\ \A n \in A : Whole[n] = heap.link[n]
  BY <1>1, WalkOpened
<1>4. dir \in Dirs /\ frame.path \in Seq(Nodes)
  BY <1>2 DEF Frames
<1>5. IsPath(Whole, A, frame.path, q)
  BY <1>3 DEF WalkInv
<1>6. IsPath(Whole, A, rest, a)
  BY <1>1, <1>5, PathUp
<1>7. a \in A /\ q \in A /\ q # NULL /\ Whole[a][dir] = q /\ rest \in Seq(Nodes)
  <2>1. a \in A /\ q \in A
    BY <1>5, <1>6 DEF IsPath
  <2>2. rest \in Seq(A)
    BY <1>6 DEF IsPath
  <2>. QED  BY <2>1, <2>2, <1>1, <1>2, <1>3, TreeTypes DEF Tree
<1>8. B[a][dir] = B[q][dir]
  BY <1>3, <1>4, <1>7 DEF Tree, Bounded
<1>9. /\ frame' \in Frames /\ frame'.call = frame.call /\ frame'.q = a /\ frame'.dir = dir
      /\ frame'.path = rest /\ frame'.climbs = frame.climbs
  <2>1. a \in Pointers
    BY <1>2, <1>7 DEF Pointers
  <2>. HIDE DEF a, rest
  <2>. QED  BY <2>1, <1>1, <1>2, <1>7 DEF Frames
<1>10. WalkInv(Whole, A, B, frame')
  BY <1>1, <1>3, <1>6, <1>8, <1>9 DEF WalkInv
<1>11. WalkInv(Whole, A, B, frame)'
  <2>1. Whole' = Whole /\ A' = A /\ it' = it
    BY <1>1, <1>2, <1>9 DEF Whole, treeVars
  <2>. QED  BY <2>1, <1>10 DEF WalkInv
<1>12. IInv'
  BY <1>1, <1>2, <1>3, <1>9, <1>11, StillSound
<1>13. UNCHANGED Set!vars
  BY <1>1 DEF Set!vars, treeVars
<1>14. Len(frame'.path) < Len(frame.path)
  BY <1>1, <1>4, <1>9
<1>15. Shrinks
  BY <1>1, <1>14 DEF Shrinks
<1>. QED  BY <1>12, <1>13, <1>15 DEF Implements

LEMMA ClimbEndSound ==
  ASSUME IInv, heap.bug = "none", ClimbEnd
  PROVE  IInv' /\ Implements
<1>. DEFINE A == allocated
            D == heap.data
            q == frame.q
            dir == frame.dir
            call == frame.call
            n == it.node
            a == frame.path[Len(frame.path)]
            rest == SubSeq(frame.path, 1, Len(frame.path) - 1)
<1>1. /\ InIterator /\ frame.climbs
      /\ \/ frame.path = <<>> /\ MoveTo(call, NULL, <<>>)
         \/ frame.path # <<>> /\ heap.link[a][dir] # q /\ MoveTo(call, a, rest)
  BY DEF ClimbEnd, Up, Rest
<1>2. call \notin {"none", "find", "insert", "remove"} /\ frame \in Frames /\ call \in Walks
      /\ A \subseteq Nodes
  BY <1>1, WalkOpened DEF InIterator
<1>3. PICK B \in [Nodes -> [Dirs -> MaybeNode]], H \in [Nodes -> Int] :
        /\ Tree(Whole, D, A, B)
        /\ WalkInv(Whole, A, B, frame)
        /\ \A m \in A : Whole[m] = heap.link[m]
  BY <1>1, WalkOpened
<1>4. dir \in Dirs /\ frame.path \in Seq(Nodes)
  BY <1>2 DEF Frames
<1>5. /\ IsPath(Whole, A, frame.path, q) /\ n \in A /\ call \in {"next", "prev"}
      /\ dir = Ahead(call) /\ Whole[n][dir] = NULL /\ B[q][dir] = B[n][dir]
  <2>1. /\ IsPath(Whole, A, frame.path, q) /\ n \in A /\ call \in {"next", "prev"}
        /\ dir = (IF call = "next" THEN 1 ELSE 0)
        /\ heap.link[n][dir] = NULL \/ Whole[n][dir] = NULL
        /\ B[q][dir] = B[n][dir]
    BY <1>1, <1>3 DEF WalkInv
  <2>. QED  BY <2>1, <1>3 DEF Ahead
<1>6. IsNearest(Ahead(call), Reach(call), IF B[n][dir] = NULL THEN NULL ELSE D[B[n][dir]])
  <2>1. IsNearest(dir, {d \in Keys : Before(dir, D[n], d)},
                  IF B[n][dir] = NULL THEN NULL ELSE D[B[n][dir]])
    BY <1>3, <1>4, <1>5, BoundIsNext
  <2>2. Reach(call) = {d \in Keys : Before(dir, D[n], d)}
    BY <1>5 DEF Reach
  <2>. QED  BY <2>1, <2>2, <1>5
<1>7. CASE frame.path = <<>> /\ MoveTo(call, NULL, <<>>)
  <2>1. q = Whole[HEAD][1] /\ q \in A
    BY <1>5, <1>7 DEF IsPath
  <2>2. B[n][dir] = NULL
    <3>1. q # NULL
      BY <2>1, <1>3, TreeTypes DEF Tree
    <3>. QED  BY <2>1, <3>1, <1>3, <1>4, <1>5 DEF Tree, TopOf
  <2>3. IsNearest(Ahead(call), Reach(call), NULL) /\ <<>> \in Seq(Nodes)
    BY <2>2, <1>6
  <2>. HIDE DEF call
  <2>. QED  BY <2>3, <1>2, <1>5, <1>7, Visits DEF call
<1>8. CASE frame.path # <<>> /\ heap.link[a][dir] # q /\ MoveTo(call, a, rest)
  <2>1. IsPath(Whole, A, rest, a) /\ \E i \in Dirs : Whole[a][i] = q
    BY <1>5, <1>8, PathUp
  <2>2. a \in A /\ q \in A /\ rest \in Seq(Nodes)
    <3>1. a \in A /\ q \in A
      BY <2>1, <1>5 DEF IsPath
    <3>2. rest \in Seq(A)
      BY <2>1 DEF IsPath
    <3>. QED  BY <3>1, <3>2, <1>2
  <2>3. a # NULL /\ q # NULL
    BY <2>2, <1>3, TreeTypes DEF Tree
  <2>4. Whole[a][Other(dir)] = q
    <3>1. Whole[a][dir] # q
      BY <2>2, <1>3, <1>8
    <3>. QED  BY <3>1, <2>1, <1>4, DirFacts
  <2>5. B[q][dir] = a
    <3>1. B[q][Other(Other(dir))] = a /\ Other(Other(dir)) = dir
      BY <2>2, <2>3, <2>4, <1>3, <1>4, DirFacts DEF Tree, Bounded
    <3>. QED  BY <3>1
  <2>6. IsNearest(Ahead(call), Reach(call), IF a = NULL THEN NULL ELSE heap.data[a])
    BY <2>3, <2>5, <1>5, <1>6
  <2>. HIDE DEF call, a, rest
  <2>. QED  BY <2>1, <2>2, <2>3, <2>6, <1>2, <1>5, <1>8, Visits DEF call
<1>. QED  BY <1>1, <1>7, <1>8
-----------------------------------------------------------------------------
(* The beginning of a call                                                 *)

LEMMA InsertFirstFailsSound ==
  ASSUME IInv, heap.bug = "none", InsertFirstFails
  PROVE  IInv' /\ Implements
<1>0. TypeOK
  BY Opened
<1>1. /\ root = NULL /\ heap' = [heap EXCEPT !.bug = "null"]
      /\ UNCHANGED <<treeVars, frame, answer, it, inner>>
  BY DEF InsertFirstFails
<1>2. heap' \in Heaps /\ heap'.bug = "null"
  BY <1>0, <1>1 DEF TypeOK, Heaps
<1>3. /\ size' \in -MaxRemoves .. MaxSize /\ allocated' \subseteq Nodes /\ refs' \in [Data -> {0, 1}]
      /\ it' \in [node : MaybeNode, path : Seq(Nodes)] /\ inner' \in BOOLEAN
  BY <1>0, <1>1 DEF TypeOK, treeVars
<1>. QED  BY <1>0, <1>1, <1>2, <1>3, Stops DEF treeVars

LEMMA FreeTreeSound ==
  ASSUME IInv, heap.bug = "none", ~inner, FreeTree
  PROVE  IInv' /\ Implements
<1>0. TypeOK /\ RefsInv
  BY Opened
<1>1. /\ frame.call = "none" /\ size' = 0 /\ it' = NoIterator /\ answer' = <<"alloc", "success">>
      /\ UNCHANGED <<root, allocated, refs, frame, inner>>
      /\ heap' = [heap EXCEPT !.bug = IF root = NULL THEN "none" ELSE "freed"]
  BY DEF FreeTree
<1>2. size' \in -MaxRemoves .. MaxSize
  <2>1. MaxRemoves \in Nat /\ MaxSize \in Nat
    BY RBTreeAssumption
  <2>. QED  BY <2>1, <1>1
<1>3. CASE root # NULL
  <2>1. heap' \in Heaps /\ heap'.bug = "freed"
    BY <1>0, <1>1, <1>3 DEF TypeOK, Heaps
  <2>2. /\ allocated' \subseteq Nodes /\ refs' \in [Data -> {0, 1}]
        /\ it' \in [node : MaybeNode, path : Seq(Nodes)] /\ inner' \in BOOLEAN
    BY <1>0, <1>1, FrameFacts DEF TypeOK
  <2>. QED  BY <2>1, <2>2, <1>0, <1>1, <1>2, Stops
<1>4. CASE root = NULL
  <2>1. PICK B \in [Nodes -> [Dirs -> MaybeNode]], H \in [Nodes -> Int] :
          /\ Sound(Whole, heap.data, heap.red, allocated, B, H)
          /\ Tree(Whole, heap.data, allocated, B)
          /\ root = Whole[HEAD][1]
          /\ heap.link[HEAD] = NoLinks
    BY <1>1, StillOpened
  <2>2. allocated = {}
    BY <2>1, <1>4 DEF Tree, TopOf
  <2>3. heap' = heap
    <3>1. heap = [red |-> heap.red, data |-> heap.data, link |-> heap.link, bug |-> heap.bug]
      BY <1>0 DEF TypeOK, Heaps
    <3>2. heap' = [red |-> heap.red, data |-> heap.data, link |-> heap.link, bug |-> "none"]
      BY <3>1, <1>1, <1>4
    <3>. QED  BY <3>1, <3>2
  <2>4. TypeOK' /\ BlackRootNeverPanics' /\ RefsInv'
    <3>1. BlackRootNeverPanics'
      BY <2>3 DEF BlackRootNeverPanics
    <3>2. RefsInv'
      BY <2>3, <1>0, <1>1 DEF RefsInv
    <3>3. TypeOK'
      BY <2>3, <1>0, <1>1, <1>2, FrameFacts DEF TypeOK
    <3>. QED  BY <3>1, <3>2, <3>3
  <2>5. Sound(Whole, heap.data, heap.red, allocated, B, H)'
    <3>1. Whole' = Whole
      BY <2>3, <1>1 DEF Whole
    <3>2. frame = NoFrame
      BY <2>1, <1>1 DEF Sound, CallInv
    <3>3. CallInv(Whole, heap.data, heap.red, allocated, B)'
      BY <2>1, <2>3, <3>2, <1>1, FrameFacts DEF CallInv, IteratorInv, InIterator, Walks
    <3>4. /\ Tree(Whole, heap.data, allocated, B) /\ Heights(Whole, heap.red, allocated, H)
          /\ ~inner => \A n \in allocated : RedAlone(Whole, heap.red, n)
      BY <2>1 DEF Sound
    <3>. QED  BY <2>3, <3>1, <3>3, <3>4, <1>1 DEF Sound
  <2>6. IInv'
    BY <2>4, <2>5, <1>1, FrameFacts DEF IInv
  <2>7. Set!Clear
    <3>1. Keys' = {}
      BY <2>2, <2>3, <1>1 DEF Keys
    <3>. QED  BY <3>1, <1>1, FrameFacts DEF Set!Clear, Keys
  <2>. QED  BY <2>6, <2>7 DEF Implements, Set!Next
<1>. QED  BY <1>3, <1>4

\* A call that changes the tree hangs it below its local node.
LEMMA BeginsBelowHead ==
  ASSUME IInv, heap.bug = "none", ~inner, NEW s \in Frames, BeginBelowHead(s),
         s.call \in {"insert", "remove"},
         \A B : Tree(Whole, heap.data, allocated, B) =>
           /\ s.call = "insert" /\ (\A n \in allocated : RedAlone(Whole, heap.red, n))
              => InsertInv(Whole, heap.data, heap.red, allocated, B, s)
           /\ s.call = "remove" =>
                RemoveInv(Whole, heap.data, heap.red, allocated, B, s) /\ size > -MaxRemoves
  PROVE  IInv' /\ Implements
<1>0. TypeOK /\ RefsInv /\ it.node \in allocated \cup {NULL}
  BY Opened
<1>1. /\ frame.call = "none" /\ frame' = s /\ UNCHANGED <<treeVars, answer, it, inner>>
      /\ heap' = [heap EXCEPT !.link[HEAD][1] = root]
  BY DEF BeginBelowHead, Begin
<1>2. PICK B \in [Nodes -> [Dirs -> MaybeNode]], H \in [Nodes -> Int] :
        /\ Sound(Whole, heap.data, heap.red, allocated, B, H)
        /\ Tree(Whole, heap.data, allocated, B)
        /\ heap.link[HEAD] = NoLinks
  BY <1>1, StillOpened
<1>3. /\ Heights(Whole, heap.red, allocated, H)
      /\ \A n \in allocated : RedAlone(Whole, heap.red, n)
  BY <1>2 DEF Sound
<1>. DEFINE N == Nodes \cup {HEAD}
            K == [heap.link EXCEPT ![HEAD][1] = root]
<1>4. /\ heap.link \in [N -> [Dirs -> MaybeNode]]
      /\ heap.red \in [Nodes -> BOOLEAN] /\ heap.data \in [Nodes -> Data \cup {NULL}]
      /\ heap = [red |-> heap.red, data |-> heap.data, link |-> heap.link, bug |-> heap.bug]
      /\ root \in MaybeNode
  BY <1>0 DEF TypeOK, Heaps
<1>5. K = Whole /\ K \in [N -> [Dirs -> MaybeNode]]
  <2>1. K = [heap.link EXCEPT ![HEAD] = [heap.link[HEAD] EXCEPT ![1] = root]]
    BY <1>4
  <2>2. [heap.link[HEAD] EXCEPT ![1] = root] = [i \in Dirs |-> IF i = 1 THEN root ELSE NULL]
    BY <1>2 DEF NoLinks, Dirs
  <2>3. Whole = [heap.link EXCEPT ![HEAD] = [i \in Dirs |-> IF i = 1 THEN root ELSE NULL]]
    BY <1>1 DEF Whole
  <2>4. [i \in Dirs |-> IF i = 1 THEN root ELSE NULL] \in [Dirs -> MaybeNode]
    BY <1>4 DEF MaybeNode
  <2>. QED  BY <2>1, <2>2, <2>3, <2>4, <1>4
<1>6. heap' = [red |-> heap.red, data |-> heap.data, link |-> K, bug |-> heap.bug]
  BY <1>1, <1>4
<1>. HIDE DEF K
<1>7. heap' \in Heaps /\ heap'.link = Whole /\ heap'.data = heap.data /\ heap'.red = heap.red
      /\ heap'.bug = "none"
  <2>1. heap' \in Heaps
    BY <1>4, <1>5, <1>6 DEF Heaps
  <2>. QED  BY <2>1, <1>5, <1>6
<1>8. root' = root /\ size' = size /\ allocated' = allocated /\ refs' = refs /\ it' = it
      /\ answer' = answer /\ inner' = inner
  BY <1>1 DEF treeVars
<1>9. TypeOK' /\ BlackRootNeverPanics' /\ RefsInv'
  <2>1. BlackRootNeverPanics'
    BY <1>7 DEF BlackRootNeverPanics
  <2>2. RefsInv'
    BY <1>0, <1>7, <1>8 DEF RefsInv
  <2>3. TypeOK'
    BY <1>0, <1>1, <1>7, <1>8 DEF TypeOK
  <2>. QED  BY <2>1, <2>2, <2>3
<1>10. Whole' = heap'.link
  BY <1>1 DEF Whole
<1>11. /\ s.call = "insert" => InsertInv(Whole, heap.data, heap.red, allocated, B, s)
       /\ s.call = "remove" =>
            RemoveInv(Whole, heap.data, heap.red, allocated, B, s) /\ size > -MaxRemoves
  BY <1>2, <1>3
<1>12. CallInv(Whole, heap.data, heap.red, allocated, B)'
  <2>1. Whole' = Whole
    BY <1>7, <1>10
  <2>2. s.call = "insert" => InsertInv(Whole, heap.data, heap.red, allocated, B, frame)'
    BY <2>1, <1>1, <1>7, <1>8, <1>11
  <2>3. s.call = "remove" =>
          (RemoveInv(Whole, heap.data, heap.red, allocated, B, frame) /\ size > -MaxRemoves /\ ~inner)'
    BY <2>1, <1>1, <1>7, <1>8, <1>11
  <2>. QED  BY <2>2, <2>3, <1>1, <1>8 DEF CallInv, InIterator, Walks
<1>13. Sound(Whole, heap.data, heap.red, allocated, B, H)'
  BY <1>2, <1>3, <1>7, <1>8, <1>10, <1>12 DEF Sound
<1>14. IInv'
  BY <1>0, <1>8, <1>9, <1>13 DEF IInv
<1>15. UNCHANGED Set!vars
  BY <1>7, <1>8 DEF Set!vars
<1>. QED  BY <1>14, <1>15 DEF Implements

LEMMA InsertBeginSound ==
  ASSUME IInv, heap.bug = "none", ~inner, NEW d \in Data, InsertBegin(d)
  PROVE  IInv' /\ Implements
<1>. DEFINE s == [NoFrame EXCEPT !.call = "insert", !.d = d, !.t = HEAD, !.q = root,
                                 !.black = ~heap.red[root]]
<1>1. root # NULL /\ BeginBelowHead(s)
  BY DEF InsertBegin
<1>2. root \in allocated /\ root = Whole[HEAD][1] /\ heap.red \in [Nodes -> BOOLEAN]
      /\ allocated \subseteq Nodes
  <2>1. frame.call = "none"
    BY <1>1 DEF BeginBelowHead, Begin
  <2>2. root \in allocated \cup {NULL} /\ root = Whole[HEAD][1]
    BY <2>1, StillOpened
  <2>. QED  BY <2>2, <1>1, Opened DEF TypeOK, Heaps
<1>3. /\ s \in Frames /\ s.call = "insert" /\ s.d = d /\ s.t = HEAD /\ s.g = NULL /\ s.p = NULL
      /\ s.q = root /\ s.dir = 0 /\ s.last = 0 /\ s.black = ~heap.red[root]
  <2>1. HEAD \in Pointers /\ root \in Pointers
    BY <1>2 DEF Pointers
  <2>2. (~heap.red[root]) \in BOOLEAN
    OBVIOUS
  <2>. DEFINE black == ~heap.red[root]
  <2>. HIDE DEF black
  <2>3. s = [NoFrame EXCEPT !.call = "insert", !.d = d, !.t = HEAD, !.q = root, !.black = black]
    BY DEF s, black
  <2>4. black \in BOOLEAN
    BY <2>2 DEF black
  <2>. HIDE DEF s
  <2>5. s \in Frames
    BY ONLY <2>1, <2>3, <2>4, FrameFacts DEF Frames
  <2>6. /\ s.call = "insert" /\ s.d = d /\ s.t = HEAD /\ s.g = NULL /\ s.p = NULL
        /\ s.q = root /\ s.dir = 0 /\ s.last = 0 /\ s.black = black
    BY ONLY <2>3 DEF NoFrame
  <2>. QED  BY <2>5, <2>6 DEF black
<1>. HIDE DEF s
<1>4. ASSUME NEW B, Tree(Whole, heap.data, allocated, B),
             \A n \in allocated : RedAlone(Whole, heap.red, n)
      PROVE  InsertInv(Whole, heap.data, heap.red, allocated, B, s)
  <2>1. Placed(Whole, heap.red, s.t, s.g, s.p, s.q, s.last)
    BY <1>3 DEF Placed
  <2>2. ~(s.g # NULL) /\ ~(s.p # NULL) /\ allocated # {} /\ 0 \in Dirs
    BY <1>2, <1>3 DEF Dirs
  <2>. QED  BY <2>1, <2>2, <1>2, <1>3, <1>4 DEF InsertInv
<1>. QED  BY <1>1, <1>3, <1>4, BeginsBelowHead

LEMMA RemoveBeginSound ==
  ASSUME IInv, heap.bug = "none", ~inner, NEW d \in Data, RemoveBegin(d)
  PROVE  IInv' /\ Implements
<1>. DEFINE s == [NoFrame EXCEPT !.call = "remove", !.d = d, !.q = HEAD, !.dir = 1]
<1>1. size > -MaxRemoves /\ BeginBelowHead(s)
  BY DEF RemoveBegin
<1>2. /\ s \in Frames /\ s.call = "remove" /\ s.d = d /\ s.p = NULL /\ s.f = NULL /\ s.q = HEAD
      /\ s.dir = 1
  <2>1. HEAD \in Pointers /\ 1 \in Dirs
    BY DEF Pointers, Dirs
  <2>2. s \in Frames
    BY <2>1, FrameFacts DEF Frames
  <2>3. /\ s.call = "remove" /\ s.d = d /\ s.p = NULL /\ s.f = NULL /\ s.q = HEAD /\ s.dir = 1
    BY DEF NoFrame
  <2>. QED  BY <2>2, <2>3
<1>. HIDE DEF s
<1>3. ASSUME NEW B PROVE RemoveInv(Whole, heap.data, heap.red, allocated, B, s)
  BY <1>2 DEF RemoveInv, Dirs
<1>. QED  BY <1>1, <1>2, <1>3, BeginsBelowHead

\* A tree of one red node.
IsLone(L, D, R, A, new) ==
  /\ L \in [Nodes \cup {HEAD} -> [Dirs -> MaybeNode]] /\ D \in [Nodes -> Data \cup {NULL}]
  /\ A = {new} /\ new \in Nodes /\ D[new] \in Data /\ R[new]
  /\ L[HEAD][0] = NULL /\ L[HEAD][1] = new /\ \A i \in Dirs : L[new][i] = NULL

LEMMA OneNode ==
  ASSUME NEW L, NEW D, NEW R, NEW A, NEW new, IsLone(L, D, R, A, new)
  PROVE  /\ \E B \in [Nodes -> [Dirs -> MaybeNode]] : Tree(L, D, A, B)
         /\ \E H \in [Nodes -> Int] : Heights(L, R, A, H)
         /\ \A n \in A : RedAlone(L, R, n)
<1>. DEFINE B == [n \in Nodes |-> NoLinks]
            H == [n \in Nodes |-> 0]
<1>. L \in [Nodes \cup {HEAD} -> [Dirs -> MaybeNode]] /\ D \in [Nodes -> Data \cup {NULL}]
     /\ A = {new} /\ new \in Nodes /\ D[new] \in Data /\ R[new]
     /\ L[HEAD][0] = NULL /\ L[HEAD][1] = new /\ \A i \in Dirs : L[new][i] = NULL
  BY DEF IsLone
<1>1. B \in [Nodes -> [Dirs -> MaybeNode]] /\ \A n \in Nodes, i \in Dirs : B[n][i] = NULL
  BY FrameFacts DEF NoLinks
<1>2. H \in [Nodes -> Int] /\ \A n \in Nodes : H[n] = 0
  OBVIOUS
<1>. HIDE DEF B, H
<1>3. new # NULL /\ new # HEAD /\ HEAD \notin A
  BY FrameFacts
<1>4. Typed(L, D, A, B)
  <2>1. \A n \in A \cup {HEAD}, i \in Dirs : L[n][i] \in A \cup {NULL}
    BY DEF Dirs
  <2>. QED  BY <2>1, <1>1 DEF Typed
<1>5. TopOf(L, A, B)
  BY <1>1, <1>3 DEF TopOf
<1>6. Bounded(L, A, B) /\ Unshared(L, A)
  BY <1>3 DEF Bounded, Unshared, Dirs
<1>7. ASSUME NEW n \in A, NEW z PROVE Within(D, B, n, z)
  BY <1>1 DEF Within
<1>8. Ordered(D, A, B)
  BY <1>1, <1>7 DEF Ordered
<1>9. Complete(L, D, A, B)
  <2>1. D[new] \in Int
    BY RBTreeAssumption
  <2>2. \A i \in Dirs : ~Before(i, D[new], D[new])
    BY <2>1, BeforeFacts
  <2>. QED  BY <2>2 DEF Complete
<1>10. Tree(L, D, A, B)
  BY <1>4, <1>5, <1>6, <1>8, <1>9 DEF Tree
<1>11. Heights(L, R, A, H)
  BY <1>2 DEF Heights, HeightOf
<1>12. \A n \in A : RedAlone(L, R, n)
  BY DEF RedAlone, Black
<1>. QED  BY <1>1, <1>2, <1>10, <1>11, <1>12

LEMMA InsertFirstSound ==
  ASSUME IInv, heap.bug = "none", ~inner, NEW d \in Data, NEW new \in Nodes \ allocated,
         InsertFirst(d, new)
  PROVE  IInv' /\ Implements
<1>0. TypeOK /\ RefsInv
  BY Opened
<1>1. /\ frame.call = "none" /\ root = NULL /\ root' = new /\ heap' = NewNode(heap, new, d)
      /\ allocated' = allocated \cup {new} /\ refs' = [refs EXCEPT ![d] = @ + 1]
      /\ answer' = <<"insert", "success">> /\ it' = NoIterator
      /\ UNCHANGED <<size, frame, inner>>
  BY DEF InsertFirst
<1>2. PICK B \in [Nodes -> [Dirs -> MaybeNode]], H \in [Nodes -> Int] :
        /\ Sound(Whole, heap.data, heap.red, allocated, B, H)
        /\ Tree(Whole, heap.data, allocated, B)
        /\ heap.link[HEAD] = NoLinks /\ root = Whole[HEAD][1]
  BY <1>1, StillOpened
<1>3. allocated = {} /\ allocated' = {new}
  <2>1. allocated = {}
    BY <1>1, <1>2 DEF Tree, TopOf
  <2>. QED  BY <2>1, <1>1
<1>4. refs = [e \in Data |-> 0]
  BY <1>0, <1>3 DEF RefsInv, TypeOK
<1>5. refs' = [e \in Data |-> IF e = d THEN 1 ELSE 0]
  BY <1>1, <1>4
<1>. DEFINE N == Nodes \cup {HEAD}
            K == [heap.link EXCEPT ![new] = NoLinks]
            R == [heap.red EXCEPT ![new] = TRUE]
            D == [heap.data EXCEPT ![new] = d]
<1>6. /\ heap.link \in [N -> [Dirs -> MaybeNode]]
      /\ heap.red \in [Nodes -> BOOLEAN] /\ heap.data \in [Nodes -> Data \cup {NULL}]
      /\ heap = [red |-> heap.red, data |-> heap.data, link |-> heap.link, bug |-> heap.bug]
  BY <1>0 DEF TypeOK, Heaps
<1>7. heap' = [red |-> R, data |-> D, link |-> K, bug |-> heap.bug]
  BY <1>1, <1>6 DEF NewNode
<1>8. /\ K \in [N -> [Dirs -> MaybeNode]] /\ R \in [Nodes -> BOOLEAN]
      /\ D \in [Nodes -> Data \cup {NULL}] /\ R[new] /\ D[new] = d
      /\ K[new] = NoLinks /\ K[HEAD] = NoLinks
  BY <1>2, <1>6, FrameFacts
<1>. HIDE DEF K, R, D
<1>9. heap' \in Heaps /\ heap'.link = K /\ heap'.red = R /\ heap'.data = D /\ heap'.bug = "none"
  <2>1. heap' \in Heaps
    BY <1>7, <1>8 DEF Heaps
  <2>. QED  BY <2>1, <1>7
<1>. DEFINE L == Whole'
<1>10. /\ L \in [N -> [Dirs -> MaybeNode]] /\ L[HEAD][0] = NULL /\ L[HEAD][1] = new
       /\ \A i \in Dirs : L[new][i] = NULL
  <2>1. L = [K EXCEPT ![HEAD] = [i \in Dirs |-> IF i = 1 THEN new ELSE NULL]]
    BY <1>1, <1>9 DEF Whole
  <2>2. [i \in Dirs |-> IF i = 1 THEN new ELSE NULL] \in [Dirs -> MaybeNode]
    BY DEF MaybeNode
  <2>3. L[HEAD] = [i \in Dirs |-> IF i = 1 THEN new ELSE NULL] /\ L[new] = NoLinks
    BY <2>1, <1>8, FrameFacts
  <2>. HIDE DEF L
  <2>. QED  BY <2>1, <2>2, <2>3, <1>8 DEF Dirs, NoLinks
<1>11. /\ \E B1 \in [Nodes -> [Dirs -> MaybeNode]] : Tree(L, D, allocated', B1)
       /\ \E H1 \in [Nodes -> Int] : Heights(L, R, allocated', H1)
       /\ \A n \in allocated' : RedAlone(L, R, n)
  <2>. HIDE DEF L
  <2>1. IsLone(L, D, R, allocated', new)
    BY <1>3, <1>8, <1>10 DEF IsLone
  <2>. QED  BY ONLY <2>1, OneNode
<1>12. \A B1 : CallInv(Whole, heap.data, heap.red, allocated, B1)'
  <2>1. frame = NoFrame
    BY <1>1, <1>2 DEF Sound, CallInv
  <2>2. IteratorInv(Whole, allocated)'
    BY <1>1, FrameFacts DEF IteratorInv
  <2>3. heap'.link[HEAD] = NoLinks
    BY <1>8, <1>9
  <2>. QED  BY <2>1, <2>2, <2>3, <1>1 DEF CallInv, InIterator, Walks
<1>13. \E B1 \in [Nodes -> [Dirs -> MaybeNode]], H1 \in [Nodes -> Int] :
         Sound(Whole, heap.data, heap.red, allocated, B1, H1)'
  BY <1>9, <1>11, <1>12 DEF Sound
<1>14. TypeOK' /\ BlackRootNeverPanics' /\ RefsInv'
  <2>1. BlackRootNeverPanics'
    BY <1>9 DEF BlackRootNeverPanics
  <2>2. RefsInv'
    BY <1>3, <1>5, <1>8, <1>9 DEF RefsInv
  <2>3. refs' \in [Data -> {0, 1}]
    BY <1>5
  <2>4. answer' \in {"insert", "remove"} \X {"success", "no space", "invalid argument"}
    BY <1>1
  <2>5. root' \in MaybeNode /\ allocated' \subseteq Nodes /\ it' \in [node : MaybeNode, path : Seq(Nodes)]
    BY <1>1, <1>3, FrameFacts DEF MaybeNode
  <2>6. TypeOK'
    BY <2>3, <2>4, <2>5, <1>0, <1>1, <1>9 DEF TypeOK
  <2>. QED  BY <2>1, <2>2, <2>6
<1>15. IInv'
  BY <1>1, <1>13, <1>14, FrameFacts DEF IInv
<1>16. Set!Insert(d)
  <2>1. Keys = {} /\ Keys' = {d}
    BY <1>3, <1>8, <1>9 DEF Keys
  <2>. QED  BY <2>1, <1>1, FrameFacts DEF Set!Insert, Keys
<1>. QED  BY <1>15, <1>16 DEF Implements, Set!Next
-----------------------------------------------------------------------------
(* The specification                                                       *)

LEMMA InitIInv == Init => IInv /\ Set!Init
<1>. SUFFICES ASSUME Init PROVE IInv /\ Set!Init
  OBVIOUS
<1>. USE FrameFacts
<1>. DEFINE N == Nodes \cup {HEAD}
            R == [n \in Nodes |-> FALSE]
            D == [n \in Nodes |-> NULL]
            L == [n \in N |-> NoLinks]
            B == [n \in Nodes |-> NoLinks]
            H == [n \in Nodes |-> 0]
<1>1. /\ heap = [red |-> R, data |-> D, link |-> L, bug |-> "none"]
      /\ root = NULL /\ size = 0 /\ allocated = {} /\ refs = [d \in Data |-> 0]
      /\ frame = NoFrame /\ answer = <<"alloc", "success">> /\ it = NoIterator /\ inner = FALSE
  BY DEF Init
<1>2. /\ R \in [Nodes -> BOOLEAN] /\ D \in [Nodes -> Data \cup {NULL}]
      /\ L \in [N -> [Dirs -> MaybeNode]] /\ L[HEAD] = NoLinks
      /\ B \in [Nodes -> [Dirs -> MaybeNode]] /\ H \in [Nodes -> Int]
  OBVIOUS
<1>. HIDE DEF R, D, L, B, H
<1>3. heap \in Heaps /\ heap.link = L /\ heap.bug = "none"
  BY <1>1, <1>2 DEF Heaps
<1>4. TypeOK
  <2>1. 0 \in -MaxRemoves .. MaxSize
    BY RBTreeAssumption
  <2>2. refs \in [Data -> {0, 1}]
    BY <1>1
  <2>. QED  BY <2>1, <2>2, <1>1, <1>3 DEF TypeOK, MaybeNode
<1>5. BlackRootNeverPanics /\ RefsInv
  BY <1>1, <1>3 DEF BlackRootNeverPanics, RefsInv
<1>6. Whole \in [N -> [Dirs -> MaybeNode]] /\ \A i \in Dirs : Whole[HEAD][i] = NULL
  <2>1. Whole = [L EXCEPT ![HEAD] = [i \in Dirs |-> IF i = 1 THEN root ELSE NULL]]
    BY <1>1, <1>3 DEF Whole
  <2>2. [i \in Dirs |-> IF i = 1 THEN root ELSE NULL] \in [Dirs -> MaybeNode]
        /\ \A i \in Dirs : [j \in Dirs |-> IF j = 1 THEN root ELSE NULL][i] = NULL
    BY <1>1 DEF MaybeNode
  <2>. QED  BY <2>1, <2>2, <1>2
<1>7. Tree(Whole, heap.data, allocated, B)
  <2>1. heap.data \in [Nodes -> Data \cup {NULL}]
    BY <1>3 DEF Heaps
  <2>2. Typed(Whole, heap.data, allocated, B) /\ TopOf(Whole, allocated, B)
    BY <2>1, <1>1, <1>2, <1>6 DEF Typed, TopOf, Dirs
  <2>3. Bounded(Whole, allocated, B) /\ Unshared(Whole, allocated)
    BY <1>1, <1>6 DEF Bounded, Unshared
  <2>4. Ordered(heap.data, allocated, B) /\ Complete(Whole, heap.data, allocated, B)
    BY <1>1 DEF Ordered, Complete
  <2>. QED  BY <2>2, <2>3, <2>4 DEF Tree
<1>8. Heights(Whole, heap.red, allocated, H)
  BY <1>1, <1>2 DEF Heights
<1>9. CallInv(Whole, heap.data, heap.red, allocated, B)
  BY <1>1, <1>2, <1>3 DEF CallInv, IteratorInv, InIterator, Walks
<1>10. Sound(Whole, heap.data, heap.red, allocated, B, H)
  BY <1>1, <1>7, <1>8, <1>9 DEF Sound
<1>11. IInv
  BY <1>1, <1>2, <1>4, <1>5, <1>10 DEF IInv
<1>12. Set!Init
  BY <1>1 DEF Set!Init
<1>. QED  BY <1>11, <1>12

LEMMA StandsStill ==
  ASSUME IInv, UNCHANGED vars
  PROVE  IInv' /\ Implements
<1>1. /\ heap' = heap /\ root' = root /\ size' = size /\ allocated' = allocated /\ refs' = refs
      /\ frame' = frame /\ answer' = answer /\ it' = it /\ inner' = inner
  BY DEF vars, treeVars
<1>2. TypeOK' /\ BlackRootNeverPanics'
  BY <1>1 DEF IInv, TypeOK, BlackRootNeverPanics
<1>3. CASE heap.bug = "none"
  <2>1. PICK B \in [Nodes -> [Dirs -> MaybeNode]], H \in [Nodes -> Int] :
          Sound(Whole, heap.data, heap.red, allocated, B, H)
    BY <1>3, Opened
  <2>2. Whole' = Whole
    BY <1>1 DEF Whole
  <2>3. CallInv(Whole, heap.data, heap.red, allocated, B)'
    BY <2>1, <2>2, <1>1 DEF Sound, CallInv, IteratorInv, InIterator, WalkInv
  <2>4. Sound(Whole, heap.data, heap.red, allocated, B, H)'
    BY <2>1, <2>2, <2>3, <1>1 DEF Sound
  <2>5. RefsInv' /\ it'.node \in allocated' \cup {NULL}
    BY <1>1, <1>3, Opened DEF RefsInv
  <2>6. IInv'
    BY <2>4, <2>5, <1>2 DEF IInv
  <2>7. UNCHANGED Set!vars
    BY <1>1 DEF Set!vars
  <2>. QED  BY <2>6, <2>7 DEF Implements
<1>4. CASE heap.bug # "none"
  BY <1>1, <1>2, <1>4 DEF IInv, Implements
<1>. QED  BY <1>3, <1>4

\* The end of a call has no round after it.
LEMMA EndsShrink ==
  ASSUME \/ \E new \in Nodes \ allocated : InsertNew(new)
         \/ InsertFails \/ RemoveEnd \/ FindEnd \/ WalkEnd \/ ClimbEnd
  PROVE  frame' # frame => Shrinks
<1>1. frame' = frame \/ frame' = NoFrame
  <2>1. ASSUME NEW new \in Nodes \ allocated, InsertNew(new)
        PROVE  frame' = frame \/ frame' = NoFrame
    BY <2>1 DEF InsertNew, Return
  <2>2. ASSUME InsertFails \/ RemoveEnd PROVE frame' = NoFrame
    BY <2>2 DEF InsertFails, RemoveEnd, Return
  <2>3. ASSUME FindEnd \/ WalkEnd \/ ClimbEnd PROVE frame' = NoFrame
    BY <2>3 DEF FindEnd, WalkEnd, ClimbEnd, MoveTo
  <2>. QED  BY <2>1, <2>2, <2>3
<1>2. NoFrame.call = "none"
  BY DEF NoFrame
<1>. QED  BY <1>1, <1>2 DEF Shrinks

\* One step per action.
LEMMA StepIInv == IInv /\ [Next]_vars => IInv' /\ Implements /\ (frame' # frame => Shrinks)
<1>. SUFFICES ASSUME IInv, [Next]_vars PROVE IInv' /\ Implements /\ (frame' # frame => Shrinks)
  OBVIOUS
<1>1. CASE UNCHANGED vars
  BY <1>1, StandsStill DEF vars
<1>2. CASE heap.bug = "none" /\ ~inner /\ BeginCall
  <2>0. frame' # frame => Shrinks
    <3>1. frame.call = "none" \/ frame' = frame
      BY <1>2 DEF BeginCall, InsertFirst, InsertFirstFails, InsertBegin, RemoveBegin, FindBegin,
                  BeginBelowHead, Begin, IteratorStart, IteratorMove, FreeTree
    <3>. QED  BY <3>1 DEF Shrinks
  <2>1. ASSUME NEW d \in Data, NEW new \in Nodes \ allocated, InsertFirst(d, new)
        PROVE  IInv' /\ Implements
    BY <1>2, <2>1, InsertFirstSound
  <2>2. ASSUME NEW d \in Data, InsertBegin(d) PROVE IInv' /\ Implements
    BY <1>2, <2>2, InsertBeginSound
  <2>3. ASSUME NEW d \in Data, RemoveBegin(d) PROVE IInv' /\ Implements
    BY <1>2, <2>3, RemoveBeginSound
  <2>4. ASSUME NEW d \in Data, FindBegin(d) PROVE IInv' /\ Implements
    BY <1>2, <2>4, FindBeginSound
  <2>5. CASE InsertFirstFails
    BY <1>2, <2>0, <2>5, InsertFirstFailsSound
  <2>6. CASE IteratorStart("first", 0) \/ IteratorStart("last", 1)
    BY <1>2, <2>0, <2>6, IteratorStartSound
  <2>7. CASE IteratorMove("next", 1) \/ IteratorMove("prev", 0)
    BY <1>2, <2>0, <2>7, IteratorMoveSound
  <2>8. CASE FreeTree
    BY <1>2, <2>0, <2>8, FreeTreeSound
  <2>. QED  BY <2>0, <2>1, <2>2, <2>3, <2>4, <2>5, <2>6, <2>7, <2>8, <1>2 DEF BeginCall
<1>3. CASE heap.bug = "none" /\ GoOn
  <2>1. CASE InsertPass
    BY <1>3, <2>1, InsertPassSound
  <2>2. ASSUME NEW new \in Nodes \ allocated, InsertNew(new)
        PROVE  IInv' /\ Implements /\ (frame' # frame => Shrinks)
    BY <1>3, <2>2, InsertNewSound, EndsShrink
  <2>3. CASE InsertFails
    BY <1>3, <2>3, InsertFailsSound, EndsShrink
  <2>4. CASE RemovePass
    BY <1>3, <2>4, RemovePassSound
  <2>5. CASE RemoveEnd
    BY <1>3, <2>5, RemoveEndSound, EndsShrink
  <2>6. CASE FindPass
    BY <1>3, <2>6, FindPassSound
  <2>7. CASE FindEnd
    BY <1>3, <2>7, FindEndSound, EndsShrink
  <2>8. CASE WalkPass
    BY <1>3, <2>8, WalkPassSound
  <2>9. CASE WalkEnd
    BY <1>3, <2>9, WalkEndSound, EndsShrink
  <2>10. CASE ClimbPass
    BY <1>3, <2>10, ClimbPassSound
  <2>11. CASE ClimbEnd
    BY <1>3, <2>11, ClimbEndSound, EndsShrink
  <2>. QED  BY <2>1, <2>2, <2>3, <2>4, <2>5, <2>6, <2>7, <2>8, <2>9, <2>10, <2>11, <1>3
             DEF GoOn
<1>4. CASE Halted
  BY <1>4, StandsStill DEF Halted, vars
<1>. QED  BY <1>1, <1>2, <1>3, <1>4 DEF Next
-----------------------------------------------------------------------------
(* What the invariant says of the properties                               *)

LEMMA IsSearchTree == IInv => SearchTree
<1>. SUFFICES ASSUME IInv, Quiet PROVE SearchTree
  BY DEF SearchTree
<1>. DEFINE A == allocated
            D == heap.data
<1>1. frame.call = "none" /\ heap.bug = "none"
  BY DEF Quiet
<1>2. PICK B : /\ Tree(Whole, D, A, B)
               /\ root = Whole[HEAD][1] /\ root \in A \cup {NULL}
               /\ \A n \in A : Whole[n] = heap.link[n]
  BY <1>1, StillOpened
<1>3. Under(NULL) = {} /\ \A n \in A : Under(n) = Part(D, A, B, n)
  BY <1>2, UnderIs
<1>4. Under(root) = A
  <2>1. CASE root = NULL
    BY <2>1, <1>2, <1>3 DEF Tree, TopOf
  <2>2. CASE root # NULL
    <3>1. \A i \in Dirs : B[root][i] = NULL
      BY <2>2, <1>2 DEF Tree, TopOf
    <3>2. Part(D, A, B, root) = A
      BY <3>1 DEF Part, Within
    <3>. QED  BY <3>2, <2>2, <1>2, <1>3
  <2>. QED  BY <2>1, <2>2
<1>5. ASSUME NEW n \in Under(root), NEW i \in Dirs, NEW m \in Under(heap.link[n][i])
      PROVE  Before(i, D[n], D[m])
  <2>1. n \in A /\ heap.link[n][i] = Whole[n][i]
    BY <1>2, <1>4
  <2>2. Whole[n][i] # NULL
    BY <2>1, <1>3, <1>5
  <2>3. Whole[n][i] \in A
    BY <2>1, <2>2, <1>2, TreeTypes DEF Tree
  <2>4. m \in A /\ Within(D, B, Whole[n][i], D[m])
    BY <2>1, <2>3, <1>3, <1>5 DEF Part
  <2>5. D[m] \in Int
    BY <2>4, <1>2, TreeTypes DEF Tree
  <2>. QED  BY <2>1, <2>2, <2>4, <2>5, <1>2, ChildWithin
<1>6. RefsInv
  BY <1>1, Opened
<1>. QED  BY <1>4, <1>5, <1>6 DEF SearchTree, RefsInv

\* There are as many nodes from a node down as blacks on a way down, or more.
LEMMA HeightsFit ==
  ASSUME NEW L, NEW D, NEW A, NEW B, Tree(L, D, A, B), NEW R, NEW H, Heights(L, R, A, H)
  PROVE  \A n \in A : H[n] <= Sizes(D, A, B)[n]
<1>. DEFINE f == Sizes(D, A, B)
            T == {n \in A : H[n] > f[n]}
<1>1. \A n \in A : H[n] \in Nat /\ f[n] \in Nat /\ f[n] > 0
  BY PartsShrink DEF Heights
<1>2. ASSUME NEW n \in A, NEW i \in Dirs, L[n][i] # NULL PROVE L[n][i] \in A /\ f[L[n][i]] < f[n]
  BY <1>2, PartsShrink
<1>. HIDE DEF f
<1>. SUFFICES ASSUME T # {} PROVE FALSE
  <2>1. ASSUME T = {}, NEW n \in A PROVE H[n] <= f[n]
    <3>1. ~(H[n] > f[n]) /\ H[n] \in Nat /\ f[n] \in Nat
      BY <1>1, <2>1
    <3>. QED  BY <3>1
  <2>. HIDE DEF T
  <2>. QED  BY <2>1 DEF f
<1>3. PICK n \in T : \A y \in T : f[n] <= f[y]
  <2>1. \A x \in T : f[x] \in Nat
    BY <1>1
  <2>. HIDE DEF T
  <2>. QED  BY <2>1, Smallest
<1>4. H[n] = HeightOf(H, L[n][0]) + (IF R[n] THEN 0 ELSE 1) /\ 0 \in Dirs
  BY DEF Heights, Dirs
<1>5. CASE L[n][0] = NULL
  <2>1. H[n] <= 1
    BY <1>4, <1>5 DEF HeightOf
  <2>. QED  BY <2>1, <1>1
<1>6. CASE L[n][0] # NULL
  <2>. DEFINE c == L[n][0]
  <2>1. c \in A /\ f[c] < f[n]
    BY <1>2, <1>4, <1>6
  <2>2. H[n] <= H[c] + 1
    BY <2>1, <1>1, <1>4, <1>6 DEF HeightOf
  <2>3. c \in T
    BY <2>1, <2>2, <1>1
  <2>. QED  BY <2>1, <2>3, <1>1, <1>3
<1>. QED  BY <1>5, <1>6

LEMMA IsBalanced == IInv => Balanced
<1>. SUFFICES ASSUME IInv, Quiet PROVE Balanced
  BY DEF Balanced
<1>. DEFINE A == allocated
<1>1. frame.call = "none" /\ heap.bug = "none"
  BY DEF Quiet
<1>2. PICK B, H : /\ Sound(Whole, heap.data, heap.red, A, B, H)
                  /\ Tree(Whole, heap.data, A, B)
                  /\ \A n \in A : Whole[n] = heap.link[n]
  BY <1>1, StillOpened
<1>3. /\ Heights(Whole, heap.red, A, H)
      /\ ~inner => \A n \in A : RedAlone(Whole, heap.red, n)
  BY <1>2 DEF Sound
<1>4. /\ \A n \in A : H[n] \in Nat
      /\ \A n \in A, i \in Dirs :
           H[n] = HeightOf(H, heap.link[n][i]) + (IF heap.red[n] THEN 0 ELSE 1)
      /\ \A n \in A, i \in Dirs : heap.link[n][i] # NULL => heap.link[n][i] \in A
  <2>1. \A n \in A, i \in Dirs : Whole[n][i] # NULL => Whole[n][i] \in A
    BY <1>2, TreeTypes DEF Tree
  <2>. QED  BY <2>1, <1>2, <1>3 DEF Heights
<1>5. \A n \in A : H[n] \in 0..Cardinality(A)
  <2>1. IsFiniteSet(A)
    <3>1. A \in SUBSET Nodes /\ IsFiniteSet(Nodes)
      BY <1>2, TreeTypes, RBTreeAssumption DEF Tree
    <3>. QED  BY <3>1, FS_Subset
  <2>2. Cardinality(A) \in Nat
    BY <2>1, FS_CardinalityType
  <2>3. ASSUME NEW n \in A PROVE H[n] <= Cardinality(A)
    <3>. DEFINE S == Part(heap.data, A, B, n)
    <3>1. S \in SUBSET A
      BY DEF Part
    <3>2. Cardinality(S) <= Cardinality(A) /\ Cardinality(S) \in Nat
      BY <3>1, <2>1, FS_Subset, FS_CardinalityType
    <3>3. H[n] <= Cardinality(S)
      <4>1. H[n] <= Sizes(heap.data, A, B)[n]
        BY <1>2, <1>3, HeightsFit
      <4>. QED  BY <4>1 DEF Sizes
    <3>. HIDE DEF S
    <3>. QED  BY <3>2, <3>3, <2>2, <1>4
  <2>. QED  BY <2>2, <2>3, <1>4
<1>6. \E blacks \in [A -> 0..Cardinality(A)] :
         \A n \in A, i \in Dirs :
           LET below == heap.link[n][i]
           IN  blacks[n] = (IF below = NULL THEN 0 ELSE blacks[below])
                           + (IF heap.red[n] THEN 0 ELSE 1)
  <2>. DEFINE blacks == [n \in A |-> H[n]]
  <2>1. blacks \in [A -> 0..Cardinality(A)]
    BY <1>5
  <2>2. \A n \in A, i \in Dirs :
           blacks[n] = (IF heap.link[n][i] = NULL THEN 0 ELSE blacks[heap.link[n][i]])
                       + (IF heap.red[n] THEN 0 ELSE 1)
    BY <1>4 DEF HeightOf
  <2>. HIDE DEF blacks
  <2>. QED  BY <2>1, <2>2
<1>7. ~inner => \A n \in A, i \in Dirs : ~(heap.red[n] /\ IsRed(heap, heap.link[n][i]))
  BY <1>2, <1>3 DEF RedAlone, Black, IsRed
<1>. QED  BY <1>6, <1>7 DEF Balanced
-----------------------------------------------------------------------------
(* The theorems                                                            *)

\* Whatever is inserted, removed and looked at, the invariant holds.
THEOREM Invariance == Spec => []IInv
<1>1. Init => IInv
  BY InitIInv
<1>2. IInv /\ [Next]_vars => IInv'
  BY StepIInv
<1>. QED  BY <1>1, <1>2, PTL DEF Spec

\* The fields of the nodes and the local variables of the calls keep their types,
\* and the size stays within what the failed insertions and removals make of it.
THEOREM TypeCorrect == Spec => []TypeOK
<1>1. IInv => TypeOK
  BY DEF IInv
<1>. QED  BY <1>1, Invariance, PTL

\* A rotation at a null grandparent needs a red root, and a null write an empty
\* tree, for any data and any shape of the tree (rb_tree.c:63, 203-286).
THEOREM PanicsExplained == Spec => []BlackRootNeverPanics
<1>1. IInv => BlackRootNeverPanics
  BY DEF IInv
<1>. QED  BY <1>1, Invariance, PTL

\* Between calls the tree is in order, loses no node, and counts one reference on
\* each of its data (rb_tree.c:174-388).
THEOREM StaysSearchTree == Spec => []SearchTree
BY IsSearchTree, Invariance, PTL

\* All ways down a node are equally black between calls, and no red node has a red
\* child before a violation of the second kind (rb_tree.c:61-81, 246-262, 311-364).
THEOREM StaysBalanced == Spec => []Balanced
BY IsBalanced, Invariance, PTL

\* The tree is the ordered set that its interface promises, and its iterator visits
\* the data in order in both directions (rb_tree.h).
THEOREM Refinement == Spec => ImplementsOrderedSet
<1>1. Init => Set!Init
  BY InitIInv
<1>2. IInv /\ [Next]_vars => [heap'.bug # "none" \/ Set!Next]_(Set!vars)
  BY StepIInv DEF Implements
<1>. QED  BY <1>1, <1>2, Invariance, PTL DEF Spec, ImplementsOrderedSet

\* Every loop ends, of every call up to and including the one that first rotates at a
\* violation of the inner kind: a round leaves fewer nodes than it found, whatever it
\* rotates, or a shorter path to climb (rb_tree.c:92, 112, 127, 188, 237, 320).
THEOREM LoopsShorten == Spec => LoopsEnd
<1>1. IInv /\ [Next]_vars => [Shrinks]_frame
  BY StepIInv
<1>. QED  BY <1>1, Invariance, PTL DEF Spec, LoopsEnd, Shrinks
=============================================================================
