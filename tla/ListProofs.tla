----------------------------- MODULE ListProofs -----------------------------
(***************************************************************************)
(* List, for any threads, data and any finite number of addresses: as long *)
(* as no freed memory is used, and no dequeue at the tail has followed a   *)
(* wrong prev, the entries from the head on are a chain without repetition *)
(* that the size counts and the tail ends, every allocated entry is in it  *)
(* or about to enter it, and the list is a double-ended queue.             *)
(***************************************************************************)
EXTENDS List, FiniteSetTheorems, SequenceTheorems, TLAPS

-----------------------------------------------------------------------------
(* What NthOf, a recursive function, computes.                             *)

\* The library's induction rules take an operator as a parameter, which the provers
\* cannot instantiate; a set of numbers does as well.
LEMMA Induction ==
  ASSUME NEW S, 0 \in S, \A n \in Nat : n \in S => n + 1 \in S
  PROVE  \A n \in Nat : n \in S
<1>. DEFINE T == Nat \ S
<1>. SUFFICES ASSUME T # {} PROVE FALSE
  OBVIOUS
<1>1. PICK x \in T : \A y \in T : ~ (<<y, x>> \in OpToRel(<, Nat))
  <2>. HIDE DEF T
  <2>1. T \subseteq Nat
    BY DEF T
  <2>. QED  BY <2>1, NatLessThanWellFounded, WFMin
<1>2. \A y \in T : ~ (y < x)
  BY <1>1 DEF OpToRel
<1>3. x # 0 /\ x - 1 \in Nat /\ x - 1 < x /\ (x - 1) + 1 = x
  OBVIOUS
<1>4. x - 1 \in S
  BY <1>2, <1>3
<1>. QED  BY <1>3, <1>4

Follow(nx, e) == IF e = NULL THEN NULL ELSE nx[e]

\* g is what the recursion gives up to n.
IsWalk(h, nx, g, n) ==
  g = [i \in 0..n |-> IF i = 0 THEN h ELSE Follow(nx, g[i - 1])]

LEMMA WalkExists ==
  ASSUME NEW h, NEW nx
  PROVE  \A n \in Nat : \E g : IsWalk(h, nx, g, n)
<1>. DEFINE S == {n \in Nat : \E g : IsWalk(h, nx, g, n)}
<1>1. 0 \in S
  <2>. DEFINE g == [i \in 0..0 |-> h]
  <2>1. g = [i \in 0..0 |-> IF i = 0 THEN h ELSE Follow(nx, g[i - 1])]
    OBVIOUS
  <2>2. IsWalk(h, nx, g, 0)
    BY <2>1 DEF IsWalk
  <2>. QED  BY <2>2
<1>2. ASSUME NEW n \in Nat, n \in S
      PROVE  n + 1 \in S
  <2>1. PICK g : g = [i \in 0..n |-> IF i = 0 THEN h ELSE Follow(nx, g[i - 1])]
    BY <1>2 DEF IsWalk
  <2>. DEFINE k == [i \in 0..(n + 1) |-> IF i = n + 1 THEN Follow(nx, g[n]) ELSE g[i]]
  <2>2. \A i \in 0..(n + 1) : k[i] = IF i = 0 THEN h ELSE Follow(nx, k[i - 1])
    <3>. TAKE i \in 0..(n + 1)
    <3>1. CASE i = n + 1
      <4>1. i # 0 /\ i - 1 \in 0..(n + 1) /\ i - 1 # n + 1 /\ i - 1 = n
        BY <3>1
      <4>2. k[i - 1] = g[n]
        BY <4>1
      <4>. QED  BY <3>1, <4>1, <4>2
    <3>2. CASE i # n + 1
      <4>1. i \in 0..n /\ k[i] = g[i]
        BY <3>2
      <4>2. i # 0 => i - 1 \in 0..n /\ k[i - 1] = g[i - 1]
        BY <3>2
      <4>3. g[i] = IF i = 0 THEN h ELSE Follow(nx, g[i - 1])
        BY <2>1, <4>1
      <4>. QED  BY <4>1, <4>2, <4>3
    <3>. QED  BY <3>1, <3>2
  <2>3. k = [i \in 0..(n + 1) |-> IF i = 0 THEN h ELSE Follow(nx, k[i - 1])]
    <3>1. k = [i \in 0..(n + 1) |-> k[i]]
      OBVIOUS
    <3>. HIDE DEF k
    <3>. QED  BY <2>2, <3>1
  <2>4. IsWalk(h, nx, k, n + 1)
    BY <2>3 DEF IsWalk
  <2>. QED  BY <2>4
<1>3. \A n \in Nat : n \in S
  <2>. HIDE DEF S
  <2>. QED  BY <1>1, <1>2, Induction
<1>. QED  BY <1>3

LEMMA WalksAgree ==
  ASSUME NEW h, NEW nx, NEW g, NEW k, NEW m \in Nat, NEW n \in Nat, n <= m,
         IsWalk(h, nx, g, m), IsWalk(h, nx, k, n)
  PROVE  g[n] = k[n]
<1>. DEFINE S == {i \in Nat : i <= n => g[i] = k[i]}
<1>1. \A i \in 0..m : g[i] = IF i = 0 THEN h ELSE Follow(nx, g[i - 1])
  BY DEF IsWalk
<1>2. \A i \in 0..n : k[i] = IF i = 0 THEN h ELSE Follow(nx, k[i - 1])
  BY DEF IsWalk
<1>3. 0 \in S
  BY <1>1, <1>2
<1>4. ASSUME NEW i \in Nat, i \in S
      PROVE  i + 1 \in S
  <2>. SUFFICES ASSUME i + 1 <= n PROVE g[i + 1] = k[i + 1]
    OBVIOUS
  <2>1. g[i] = k[i]
    BY <1>4
  <2>2. i + 1 \in 0..m /\ i + 1 \in 0..n /\ i + 1 # 0 /\ (i + 1) - 1 = i
    OBVIOUS
  <2>3. g[i + 1] = Follow(nx, g[i]) /\ k[i + 1] = Follow(nx, k[i])
    BY <1>1, <1>2, <2>2
  <2>. QED  BY <2>1, <2>3
<1>5. \A i \in Nat : i \in S
  <2>. HIDE DEF S
  <2>. QED  BY <1>3, <1>4, Induction
<1>. QED  BY <1>5

\* The recursive definition has a solution, so NthOf is one.
LEMMA NthRecursion ==
  ASSUME NEW h, NEW nx, NEW n \in Nat
  PROVE  NthOf(h, nx)[n] = IF n = 0 THEN h ELSE Follow(nx, NthOf(h, nx)[n - 1])
<1>. DEFINE Walk(i) == CHOOSE g : IsWalk(h, nx, g, i)
            W == [i \in Nat |-> Walk(i)[i]]
<1>1. \A i \in Nat : IsWalk(h, nx, Walk(i), i)
  BY WalkExists
<1>. HIDE DEF Walk
<1>2. ASSUME NEW i \in Nat
      PROVE  W[i] = IF i = 0 THEN h ELSE Follow(nx, W[i - 1])
  <2>1. Walk(i) = [j \in 0..i |-> IF j = 0 THEN h ELSE Follow(nx, Walk(i)[j - 1])]
    BY <1>1 DEF IsWalk
  <2>2. Walk(i)[i] = IF i = 0 THEN h ELSE Follow(nx, Walk(i)[i - 1])
    BY <2>1
  <2>3. ASSUME i # 0 PROVE Walk(i)[i - 1] = Walk(i - 1)[i - 1]
    <3>1. i - 1 \in Nat /\ i - 1 <= i
      BY <2>3
    <3>. QED  BY <1>1, <3>1, WalksAgree
  <2>4. i # 0 => i - 1 \in Nat
    OBVIOUS
  <2>. QED  BY <2>2, <2>3, <2>4
<1>3. W = [i \in Nat |-> IF i = 0 THEN h ELSE IF W[i - 1] = NULL THEN NULL ELSE nx[W[i - 1]]]
  <2>1. W = [i \in Nat |-> W[i]]
    OBVIOUS
  <2>. HIDE DEF W
  <2>. QED  BY <1>2, <2>1 DEF Follow
<1>. DEFINE N == NthOf(h, nx)
<1>4. N = [i \in Nat |-> IF i = 0 THEN h ELSE IF N[i - 1] = NULL THEN NULL ELSE nx[N[i - 1]]]
  <2>. HIDE DEF W
  <2>. QED  BY <1>3, Zenon DEF NthOf
<1>. HIDE DEF N
<1>5. N[n] = IF n = 0 THEN h ELSE IF N[n - 1] = NULL THEN NULL ELSE nx[N[n - 1]]
  BY <1>4
<1>. QED  BY <1>5 DEF N, Follow
LEMMA NthType ==
  ASSUME NEW h \in MaybeEntry, NEW nx \in [Entries -> MaybeEntry]
  PROVE  \A n \in Nat : NthOf(h, nx)[n] \in MaybeEntry
<1>. DEFINE S == {n \in Nat : NthOf(h, nx)[n] \in MaybeEntry}
<1>1. 0 \in S
  BY NthRecursion
<1>2. ASSUME NEW n \in Nat, n \in S
      PROVE  n + 1 \in S
  <2>1. NthOf(h, nx)[n + 1] = Follow(nx, NthOf(h, nx)[n])
    <3>1. n + 1 \in Nat /\ n + 1 # 0 /\ (n + 1) - 1 = n
      OBVIOUS
    <3>. QED  BY <3>1, NthRecursion
  <2>. QED  BY <1>2, <2>1 DEF Follow, MaybeEntry
<1>3. \A n \in Nat : n \in S
  <2>. HIDE DEF S
  <2>. QED  BY <1>1, <1>2, Induction
<1>. QED  BY <1>3
-----------------------------------------------------------------------------
(* Chains: the k entries of q, from h to tl, each linked by nx to the next. *)

Links(q, k, h, tl, nx) ==
  /\ k \in Nat
  /\ q \in [1..k -> Entries]
  /\ \A i, j \in 1..k : q[i] = q[j] => i = j
  /\ h = IF k = 0 THEN NULL ELSE q[1]
  /\ tl = IF k = 0 THEN NULL ELSE q[k]
  /\ \A i \in 1..k : nx[q[i]] = IF i = k THEN NULL ELSE q[i + 1]

Elements(q, k) == {q[i] : i \in 1..k}

Pushed(q, k, e)   == [i \in 1..(k + 1) |-> IF i = 1 THEN e ELSE q[i - 1]]
Appended(q, k, e) == [i \in 1..(k + 1) |-> IF i = k + 1 THEN e ELSE q[i]]
Popped(q, k)      == [i \in 1..(k - 1) |-> q[i + 1]]

\* The links after an enqueue.
HeadLinks(nx, h, e)  == [nx EXCEPT ![e] = IF h = NULL THEN @ ELSE h]
TailLinks(nx, tl, e) == IF tl = NULL THEN nx ELSE [nx EXCEPT ![tl] = e]

LEMMA NthOfChain ==
  ASSUME NEW q, NEW k, NEW h, NEW tl, NEW nx, Links(q, k, h, tl, nx)
  PROVE  \A n \in Nat : NthOf(h, nx)[n] = IF n < k THEN q[n + 1] ELSE NULL
<1>. DEFINE S == {n \in Nat : NthOf(h, nx)[n] = IF n < k THEN q[n + 1] ELSE NULL}
<1>0. k \in Nat
  BY DEF Links
<1>1. 0 \in S
  <2>1. NthOf(h, nx)[0] = h
    BY NthRecursion
  <2>. QED  BY <1>0, <2>1 DEF Links
<1>2. ASSUME NEW n \in Nat, n \in S
      PROVE  n + 1 \in S
  <2>1. NthOf(h, nx)[n + 1] = Follow(nx, NthOf(h, nx)[n])
    <3>1. n + 1 \in Nat /\ n + 1 # 0 /\ (n + 1) - 1 = n
      OBVIOUS
    <3>. QED  BY <3>1, NthRecursion
  <2>2. CASE n < k
    <3>1. NthOf(h, nx)[n] = q[n + 1] /\ n + 1 \in 1..k
      BY <1>0, <1>2, <2>2
    <3>2. q[n + 1] # NULL
      BY <3>1, ListAssumption DEF Links
    <3>3. nx[q[n + 1]] = IF n + 1 = k THEN NULL ELSE q[(n + 1) + 1]
      BY <3>1 DEF Links
    <3>4. n + 1 = k <=> ~ (n + 1 < k)
      BY <1>0, <2>2
    <3>. QED  BY <2>1, <3>1, <3>2, <3>3, <3>4 DEF Follow
  <2>3. CASE ~ (n < k)
    <3>1. NthOf(h, nx)[n] = NULL /\ ~ (n + 1 < k)
      BY <1>0, <1>2, <2>3
    <3>. QED  BY <2>1, <3>1 DEF Follow
  <2>. QED  BY <2>2, <2>3
<1>3. \A n \in Nat : n \in S
  <2>. HIDE DEF S
  <2>. QED  BY <1>1, <1>2, Induction
<1>. QED  BY <1>3

\* A chain repeats no entry, so it is as long as it has entries.
LEMMA ElementsOfChain ==
  ASSUME NEW q, NEW k, NEW h, NEW tl, NEW nx, Links(q, k, h, tl, nx)
  PROVE  /\ Elements(q, k) \subseteq Entries
         /\ Cardinality(Elements(q, k)) = k
         /\ k <= Cardinality(Entries)
<1>1. k \in Nat /\ q \in [1..k -> Entries] /\ \A i, j \in 1..k : q[i] = q[j] => i = j
  BY DEF Links
<1>2. Elements(q, k) \subseteq Entries
  BY <1>1 DEF Elements
<1>3. q \in [1..k -> Elements(q, k)] /\ \A e \in Elements(q, k) : \E i \in 1..k : q[i] = e
  BY <1>1 DEF Elements
<1>4. q \in Bijection(1..k, Elements(q, k))
  BY <1>1, <1>3 DEF Bijection, Injection, Surjection, IsInjective
<1>5. Cardinality(Elements(q, k)) = k
  BY <1>1, <1>4, FS_CountingElements DEF ExistsBijection
<1>6. Cardinality(Elements(q, k)) <= Cardinality(Entries)
  BY <1>2, FS_Subset, ListAssumption
<1>. QED  BY <1>2, <1>5, <1>6

LEMMA LinksPushed ==
  ASSUME NEW q, NEW k, NEW h, NEW tl, NEW nx \in [Entries -> MaybeEntry],
         Links(q, k, h, tl, nx),
         NEW e \in Entries, e \notin Elements(q, k), nx[e] = NULL,
         NEW tl1, tl1 = IF tl = NULL THEN e ELSE tl,
         NEW nx1, nx1 = HeadLinks(nx, h, e)
  PROVE  /\ Links(Pushed(q, k, e), k + 1, e, tl1, nx1)
         /\ Elements(Pushed(q, k, e), k + 1) = Elements(q, k) \cup {e}
<1>. DEFINE p == Pushed(q, k, e)
<1>1. k \in Nat /\ q \in [1..k -> Entries] /\ \A i \in 1..k : q[i] # e
  BY DEF Links, Elements
<1>2. /\ p \in [1..(k + 1) -> Entries] /\ p[1] = e
      /\ \A i \in 1..k : i + 1 \in 1..(k + 1) /\ p[i + 1] = q[i]
      /\ \A i \in 1..(k + 1) : i # 1 => i - 1 \in 1..k /\ p[i] = q[i - 1]
  BY <1>1 DEF Pushed
<1>. HIDE DEF p
<1>3. \A i, j \in 1..(k + 1) : p[i] = p[j] => i = j
  BY <1>1, <1>2 DEF Links
<1>4. tl1 = p[k + 1]
  <2>1. tl = NULL <=> k = 0
    BY <1>1, ListAssumption DEF Links
  <2>2. CASE k = 0
    BY <1>2, <2>1, <2>2
  <2>3. CASE k # 0
    <3>1. k \in 1..k
      BY <1>1, <2>3
    <3>2. p[k + 1] = q[k]
      BY <1>2, <3>1
    <3>. QED  BY <2>1, <2>3, <3>2 DEF Links
  <2>. QED  BY <2>2, <2>3
<1>5. ASSUME NEW i \in 1..(k + 1)
      PROVE  nx1[p[i]] = IF i = k + 1 THEN NULL ELSE p[i + 1]
  <2>1. h = NULL <=> k = 0
    BY <1>1, ListAssumption DEF Links
  <2>2. \A x \in Entries : nx1[x] = IF x = e /\ h # NULL THEN h ELSE nx[x]
    BY DEF HeadLinks
  <2>3. CASE i = 1
    <3>1. k # 0 => h = q[1] /\ p[2] = q[1]
      <4>1. k # 0 => 1 \in 1..k /\ 1 + 1 = 2
        BY <1>1
      <4>. QED  BY <1>2, <4>1 DEF Links
    <3>. QED  BY <1>1, <1>2, <2>1, <2>2, <2>3, <3>1
  <2>4. CASE i # 1
    <3>1. i - 1 \in 1..k /\ p[i] = q[i - 1] /\ q[i - 1] # e
      BY <1>1, <1>2, <2>4
    <3>2. nx[q[i - 1]] = IF i - 1 = k THEN NULL ELSE q[(i - 1) + 1]
      BY <3>1 DEF Links
    <3>3. i - 1 = k <=> i = k + 1
      BY <1>1
    <3>4. i # k + 1 => i \in 1..k /\ p[i + 1] = q[i] /\ (i - 1) + 1 = i
      BY <1>1, <1>2
    <3>. QED  BY <1>1, <2>2, <3>1, <3>2, <3>3, <3>4
  <2>. QED  BY <2>3, <2>4
<1>6. Elements(p, k + 1) = Elements(q, k) \cup {e}
  <2>1. 1 \in 1..(k + 1)
    BY <1>1
  <2>2. Elements(p, k + 1) \subseteq Elements(q, k) \cup {e}
    BY <1>2 DEF Elements
  <2>3. Elements(q, k) \cup {e} \subseteq Elements(p, k + 1)
    BY <1>2, <2>1 DEF Elements
  <2>. QED  BY <2>2, <2>3
<1>7. k + 1 \in Nat /\ k + 1 # 0
  BY <1>1
<1>. QED  BY <1>2, <1>3, <1>4, <1>5, <1>6, <1>7 DEF Links, p

LEMMA LinksAppended ==
  ASSUME NEW q, NEW k, NEW h, NEW tl, NEW nx \in [Entries -> MaybeEntry],
         Links(q, k, h, tl, nx),
         NEW e \in Entries, e \notin Elements(q, k), nx[e] = NULL,
         NEW h1, h1 = IF h = NULL THEN e ELSE h,
         NEW nx1, nx1 = TailLinks(nx, tl, e)
  PROVE  /\ Links(Appended(q, k, e), k + 1, h1, e, nx1)
         /\ Elements(Appended(q, k, e), k + 1) = Elements(q, k) \cup {e}
<1>. DEFINE p == Appended(q, k, e)
<1>1. /\ k \in Nat /\ q \in [1..k -> Entries]
      /\ \A i \in 1..k : q[i] # e
      /\ \A i, j \in 1..k : q[i] = q[j] => i = j
  BY DEF Links, Elements
<1>2. /\ p \in [1..(k + 1) -> Entries] /\ p[k + 1] = e
      /\ \A i \in 1..k : i \in 1..(k + 1) /\ p[i] = q[i]
      /\ \A i \in 1..(k + 1) : i # k + 1 => i \in 1..k
  BY <1>1 DEF Appended
<1>. HIDE DEF p
<1>3. \A i, j \in 1..(k + 1) : p[i] = p[j] => i = j
  BY <1>1, <1>2
<1>4. (h = NULL <=> k = 0) /\ (tl = NULL <=> k = 0)
  BY <1>1, ListAssumption DEF Links
<1>5. h1 = p[1]
  <2>1. k # 0 => 1 \in 1..k
    BY <1>1
  <2>2. k = 0 => k + 1 = 1
    OBVIOUS
  <2>. QED  BY <1>2, <1>4, <2>1, <2>2 DEF Links
<1>6. ASSUME NEW i \in 1..(k + 1)
      PROVE  nx1[p[i]] = IF i = k + 1 THEN NULL ELSE p[i + 1]
  <2>1. k # 0 => k \in 1..k /\ tl = q[k] /\ tl \in Entries /\ tl # e
    BY <1>1 DEF Links
  <2>2. CASE i = k + 1
    BY <1>2, <1>4, <2>1, <2>2 DEF TailLinks
  <2>3. CASE i = k /\ i # k + 1
    <3>1. k # 0 /\ p[i] = tl
      BY <1>1, <1>2, <2>1, <2>3
    <3>. QED  BY <1>2, <1>4, <2>1, <2>3, <3>1 DEF TailLinks
  <2>4. CASE i # k /\ i # k + 1
    <3>1. i \in 1..k /\ i + 1 \in 1..k /\ k # 0 /\ k \in 1..k
      BY <1>1, <2>4
    <3>2. p[i] = q[i] /\ p[i + 1] = q[i + 1] /\ q[i] # q[k] /\ q[i] \in Entries
      BY <1>1, <1>2, <2>4, <3>1
    <3>3. nx[q[i]] = q[i + 1]
      BY <2>4, <3>1 DEF Links
    <3>. QED  BY <1>4, <2>1, <2>4, <3>1, <3>2, <3>3 DEF TailLinks
  <2>. QED  BY <2>2, <2>3, <2>4
<1>7. Elements(p, k + 1) = Elements(q, k) \cup {e}
  <2>1. k + 1 \in 1..(k + 1)
    BY <1>1
  <2>2. Elements(p, k + 1) \subseteq Elements(q, k) \cup {e}
    <3>1. \A i \in 1..(k + 1) : p[i] = e \/ (i \in 1..k /\ p[i] = q[i])
      BY <1>2
    <3>. QED  BY <3>1 DEF Elements
  <2>3. Elements(q, k) \cup {e} \subseteq Elements(p, k + 1)
    BY <1>2, <2>1 DEF Elements
  <2>. QED  BY <2>2, <2>3
<1>8. k + 1 \in Nat /\ k + 1 # 0
  BY <1>1
<1>. QED  BY <1>2, <1>3, <1>5, <1>6, <1>7, <1>8 DEF Links, p

LEMMA LinksPopped ==
  ASSUME NEW q, NEW k, NEW h, NEW tl, NEW nx, Links(q, k, h, tl, nx), h # NULL
  PROVE  /\ Links(Popped(q, k), k - 1, nx[h], IF tl = h THEN nx[h] ELSE tl, nx)
         /\ Elements(Popped(q, k), k - 1) = Elements(q, k) \ {h}
<1>. DEFINE p == Popped(q, k)
<1>1. /\ k \in Nat /\ k # 0 /\ q \in [1..k -> Entries] /\ h = q[1] /\ tl = q[k]
      /\ \A i, j \in 1..k : q[i] = q[j] => i = j
      /\ \A i \in 1..k : nx[q[i]] = IF i = k THEN NULL ELSE q[i + 1]
  BY DEF Links
<1>2. /\ k - 1 \in Nat /\ p \in [1..(k - 1) -> Entries]
      /\ \A i \in 1..(k - 1) : i + 1 \in 1..k /\ p[i] = q[i + 1]
      /\ 1 \in 1..k /\ k \in 1..k
  BY <1>1 DEF Popped
<1>. HIDE DEF p
<1>3. \A i, j \in 1..(k - 1) : p[i] = p[j] => i = j
  <2>. TAKE i, j \in 1..(k - 1)
  <2>1. p[i] = p[j] => i + 1 = j + 1
    BY <1>1, <1>2
  <2>. QED  BY <2>1
<1>4. nx[h] = IF k - 1 = 0 THEN NULL ELSE p[1]
  <2>1. nx[h] = IF k = 1 THEN NULL ELSE q[2]
    BY <1>1, <1>2
  <2>2. k # 1 => 1 \in 1..(k - 1) /\ 1 + 1 = 2
    BY <1>1
  <2>3. k - 1 = 0 <=> k = 1
    BY <1>1
  <2>. QED  BY <1>2, <2>1, <2>2, <2>3
<1>5. (IF tl = h THEN nx[h] ELSE tl) = IF k - 1 = 0 THEN NULL ELSE p[k - 1]
  <2>1. tl = h <=> k = 1
    BY <1>1, <1>2
  <2>2. k # 1 => k - 1 \in 1..(k - 1) /\ (k - 1) + 1 = k /\ k - 1 # 0
    BY <1>1
  <2>. QED  BY <1>1, <1>2, <1>4, <2>1, <2>2
<1>6. ASSUME NEW i \in 1..(k - 1)
      PROVE  nx[p[i]] = IF i = k - 1 THEN NULL ELSE p[i + 1]
  <2>1. nx[q[i + 1]] = IF i + 1 = k THEN NULL ELSE q[(i + 1) + 1]
    BY <1>1, <1>2
  <2>2. i + 1 = k <=> i = k - 1
    BY <1>1
  <2>3. i # k - 1 => i + 1 \in 1..(k - 1)
    BY <1>1
  <2>. QED  BY <1>2, <2>1, <2>2, <2>3
<1>7. Elements(p, k - 1) = Elements(q, k) \ {h}
  <2>1. \A i \in 1..(k - 1) : p[i] \in Elements(q, k) /\ p[i] # h
    <3>. TAKE i \in 1..(k - 1)
    <3>1. i + 1 \in 1..k /\ i + 1 # 1 /\ p[i] = q[i + 1]
      BY <1>2
    <3>. QED  BY <1>1, <1>2, <3>1 DEF Elements
  <2>2. \A i \in 1..k : i # 1 => i - 1 \in 1..(k - 1) /\ p[i - 1] = q[i]
    <3>. TAKE i \in 1..k
    <3>1. i # 1 => i - 1 \in 1..(k - 1) /\ (i - 1) + 1 = i
      BY <1>1
    <3>. QED  BY <1>2, <3>1
  <2>3. Elements(q, k) \ {h} \subseteq Elements(p, k - 1)
    BY <1>1, <2>2 DEF Elements
  <2>4. Elements(p, k - 1) \subseteq Elements(q, k) \ {h}
    BY <2>1 DEF Elements
  <2>. QED  BY <2>3, <2>4
<1>. QED  BY <1>2, <1>3, <1>4, <1>5, <1>6, <1>7 DEF Links, p

LEMMA LinksNone ==
  ASSUME NEW nx
  PROVE  /\ Links([i \in 1..0 |-> NULL], 0, NULL, NULL, nx)
         /\ Elements([i \in 1..0 |-> NULL], 0) = {}
BY DEF Links, Elements
-----------------------------------------------------------------------------
(* The inductive invariant.                                                *)

\* Entries on their way into the list.
Pending == {entry[t] : t \in Threads} \ {NULL}

ThreadInv == \A t \in Threads : pc[t] = "idle" <=> entry[t] = NULL

PendingInv ==
  /\ \A t \in Threads : entry[t] # NULL => next[entry[t]] = NULL
  /\ \A t, u \in Threads : entry[t] = entry[u] /\ entry[t] # NULL => t = u

IsChain(q) ==
  /\ Links(q, size, head, tail, next)
  /\ allocated = Elements(q, size) \cup Pending
  /\ Elements(q, size) \cap Pending = {}

LinkInv ==
  ~misused /\ ~cut => PendingInv /\ \E q \in [1..size -> Entries] : IsChain(q)

\* There may be infinitely many threads, and only some hold a datum.
FiniteInv == \A d \in Data : IsFiniteSet({t \in Threads : result[t] = d})

IInv == TypeOK /\ ThreadInv /\ LinkInv /\ RefsFollowData /\ FiniteInv

Unbroken == ~misused /\ ~cut
-----------------------------------------------------------------------------
(* What each operation makes of the chain.                                 *)

LEMMA EntryAllocChain ==
  ASSUME TypeOK, ThreadInv, PendingInv, NEW q, IsChain(q),
         NEW t \in Threads, NEW op, NEW d \in Data, EntryAlloc(t, op, d)
  PROVE  PendingInv' /\ IsChain(q)' /\ \A i \in 1..size : data'[q[i]] = data[q[i]]
<1>1. PICK e \in Entries \ allocated :
        /\ allocated' = allocated \cup {e}
        /\ data' = [data EXCEPT ![e] = d]
        /\ next' = [next EXCEPT ![e] = NULL]
        /\ entry' = [entry EXCEPT ![t] = e]
  BY DEF EntryAlloc
<1>2. entry[t] = NULL /\ UNCHANGED listVars
  BY DEF EntryAlloc, Idle, ThreadInv
<1>3. e # NULL /\ e \notin Elements(q, size) /\ e \notin Pending
  BY <1>1, ListAssumption DEF IsChain
<1>4. Pending' = Pending \cup {e}
  BY <1>1, <1>2, <1>3 DEF TypeOK, Pending
<1>5. \A i \in 1..size : q[i] \in Entries /\ q[i] # e
  BY <1>3 DEF IsChain, Links, Elements
<1>6. Links(q, size, head, tail, next)'
  BY <1>1, <1>2, <1>5 DEF IsChain, Links, TypeOK, listVars
<1>7. Elements(q, size)' = Elements(q, size)
  BY <1>2 DEF Elements, listVars
<1>8. IsChain(q)'
  BY <1>1, <1>3, <1>4, <1>6, <1>7 DEF IsChain
<1>9. PendingInv'
  <2>1. \A u \in Threads : entry[u] # e
    BY <1>3 DEF Pending
  <2>2. \A u \in Threads : entry'[u] = IF u = t THEN e ELSE entry[u]
    BY <1>1 DEF TypeOK
  <2>3. \A u \in Threads : entry'[u] # NULL => next'[entry'[u]] = NULL
    <3>. SUFFICES ASSUME NEW u \in Threads, entry'[u] # NULL
                  PROVE  next'[entry'[u]] = NULL
      OBVIOUS
    <3>1. CASE u = t
      BY <1>1, <2>2, <3>1 DEF TypeOK
    <3>2. CASE u # t
      BY <1>1, <2>1, <2>2, <3>2 DEF TypeOK, PendingInv, MaybeEntry
    <3>. QED  BY <3>1, <3>2
  <2>. QED  BY <2>1, <2>2, <2>3 DEF PendingInv
<1>. QED  BY <1>1, <1>5, <1>8, <1>9 DEF TypeOK

\* A thread's entry has gone over from the pending ones to the chain.
LEMMA LinkedPending ==
  ASSUME TypeOK, ThreadInv, PendingInv, NEW q, IsChain(q),
         NEW t \in Threads, pc[t] # "idle", entry' = [entry EXCEPT ![t] = NULL]
  PROVE  /\ entry[t] \in Pending /\ entry[t] \in Entries
         /\ entry[t] \notin Elements(q, size) /\ next[entry[t]] = NULL
         /\ Pending' = Pending \ {entry[t]}
         /\ \A u \in Threads : entry'[u] # NULL =>
              /\ entry'[u] = entry[u] /\ u # t
              /\ entry'[u] \in Pending /\ entry'[u] # entry[t]
<1>1. entry[t] # NULL
  BY DEF ThreadInv
<1>2. entry[t] \in Pending /\ entry[t] \in Entries /\ next[entry[t]] = NULL
  BY <1>1 DEF Pending, TypeOK, MaybeEntry, PendingInv
<1>3. entry[t] \notin Elements(q, size)
  BY <1>2 DEF IsChain
<1>4. \A u \in Threads : entry'[u] = IF u = t THEN NULL ELSE entry[u]
  BY DEF TypeOK
<1>5. \A u \in Threads : entry'[u] # NULL =>
        /\ entry'[u] = entry[u] /\ u # t
        /\ entry'[u] \in Pending /\ entry'[u] # entry[t]
  BY <1>1, <1>4 DEF Pending, PendingInv
<1>6. Pending' = Pending \ {entry[t]}
  <2>1. Pending' \subseteq Pending \ {entry[t]}
    BY <1>5 DEF Pending
  <2>2. Pending \ {entry[t]} \subseteq Pending'
    BY <1>4 DEF Pending
  <2>. QED  BY <2>1, <2>2
<1>. QED  BY <1>2, <1>3, <1>5, <1>6

LEMMA EnqueueHeadChain ==
  ASSUME TypeOK, ThreadInv, PendingInv, NEW q, IsChain(q),
         NEW t \in Threads, EnqueueHead(t), NEW p, p = Pushed(q, size, entry[t])
  PROVE  PendingInv' /\ IsChain(p)'
<1>. DEFINE e == entry[t]
<1>. HIDE DEF e
<1>1. /\ pc[t] # "idle" /\ entry' = [entry EXCEPT ![t] = NULL]
      /\ next' = [next EXCEPT ![e] = IF head = NULL THEN @ ELSE head]
      /\ head' = e /\ tail' = IF tail = NULL THEN e ELSE tail
      /\ size' = size + 1 /\ allocated' = allocated
  BY DEF EnqueueHead, Linked, e
<1>2. /\ e \in Pending /\ e \in Entries /\ e \notin Elements(q, size) /\ next[e] = NULL
      /\ Pending' = Pending \ {e}
      /\ \A u \in Threads : entry'[u] # NULL =>
           entry'[u] = entry[u] /\ u # t /\ entry'[u] \in Pending /\ entry'[u] # e
  BY <1>1, LinkedPending DEF e
<1>3. /\ Links(p, size + 1, e, tail', next')
      /\ Elements(p, size + 1) = Elements(q, size) \cup {e}
  <2>1. Links(q, size, head, tail, next) /\ next \in [Entries -> MaybeEntry]
    BY DEF IsChain, TypeOK
  <2>2. p = Pushed(q, size, e)
    BY DEF e
  <2>3. e \in Entries /\ e \notin Elements(q, size) /\ next[e] = NULL
    BY <1>2
  <2>4. /\ tail' = IF tail = NULL THEN e ELSE tail
        /\ next' = HeadLinks(next, head, e)
    BY <1>1 DEF HeadLinks
  <2>. QED  BY <2>1, <2>2, <2>3, <2>4, LinksPushed
<1>4. Links(p, size, head, tail, next)'
  BY <1>1, <1>3
<1>5. Elements(p, size)' = Elements(q, size) \cup {e}
  BY <1>1, <1>3
<1>6. IsChain(p)'
  BY <1>1, <1>2, <1>4, <1>5 DEF IsChain
<1>7. PendingInv'
  BY <1>1, <1>2 DEF PendingInv, TypeOK, MaybeEntry
<1>. QED  BY <1>6, <1>7

LEMMA EnqueueTailChain ==
  ASSUME TypeOK, ThreadInv, PendingInv, NEW q, IsChain(q),
         NEW t \in Threads, EnqueueTail(t), NEW p, p = Appended(q, size, entry[t])
  PROVE  PendingInv' /\ IsChain(p)'
<1>. DEFINE e == entry[t]
<1>. HIDE DEF e
<1>1. /\ pc[t] # "idle" /\ entry' = [entry EXCEPT ![t] = NULL]
      /\ next' = IF tail = NULL THEN next ELSE [next EXCEPT ![tail] = e]
      /\ tail' = e /\ head' = IF head = NULL THEN e ELSE head
      /\ size' = size + 1 /\ allocated' = allocated
  BY DEF EnqueueTail, Linked, e
<1>2. /\ e \in Pending /\ e \in Entries /\ e \notin Elements(q, size) /\ next[e] = NULL
      /\ Pending' = Pending \ {e}
      /\ \A u \in Threads : entry'[u] # NULL =>
           entry'[u] = entry[u] /\ u # t /\ entry'[u] \in Pending /\ entry'[u] # e
  BY <1>1, LinkedPending DEF e
<1>3. /\ Links(p, size + 1, head', e, next')
      /\ Elements(p, size + 1) = Elements(q, size) \cup {e}
  <2>1. Links(q, size, head, tail, next) /\ next \in [Entries -> MaybeEntry]
    BY DEF IsChain, TypeOK
  <2>2. p = Appended(q, size, e)
    BY DEF e
  <2>3. e \in Entries /\ e \notin Elements(q, size) /\ next[e] = NULL
    BY <1>2
  <2>4. /\ head' = IF head = NULL THEN e ELSE head
        /\ next' = TailLinks(next, tail, e)
    BY <1>1 DEF TailLinks
  <2>. QED  BY <2>1, <2>2, <2>3, <2>4, LinksAppended
<1>4. Links(p, size, head, tail, next)'
  BY <1>1, <1>3
<1>5. Elements(p, size)' = Elements(q, size) \cup {e}
  BY <1>1, <1>3
<1>6. IsChain(p)'
  BY <1>1, <1>2, <1>4, <1>5 DEF IsChain
<1>7. \A u \in Threads : entry'[u] # NULL => next'[entry'[u]] = NULL
  <2>. SUFFICES ASSUME NEW u \in Threads, entry'[u] # NULL
                PROVE  next'[entry'[u]] = NULL
    OBVIOUS
  <2>1. next[entry'[u]] = NULL
    BY <1>2 DEF PendingInv
  <2>2. tail # NULL => tail \in Elements(q, size)
    BY DEF IsChain, Links, Elements
  <2>3. entry'[u] # tail /\ entry'[u] \in Entries
    BY <1>2, <2>2 DEF IsChain, TypeOK, MaybeEntry
  <2>. QED  BY <1>1, <2>1, <2>3 DEF TypeOK
<1>8. PendingInv'
  BY <1>2, <1>7 DEF PendingInv
<1>. QED  BY <1>6, <1>8

LEMMA DequeueHeadChain ==
  ASSUME TypeOK, PendingInv, NEW q, IsChain(q),
         NEW t \in Threads, DequeueHead(t), NEW p, p = Popped(q, size)
  PROVE  PendingInv' /\ IsChain(p)'
<1>1. /\ head # NULL /\ head' = next[head] /\ tail' = IF tail = head THEN next[head] ELSE tail
      /\ next' = next /\ size' = size - 1 /\ allocated' = allocated \ {head}
      /\ entry' = entry
  BY DEF DequeueHead, Taken
<1>2. /\ Links(p, size - 1, next[head], IF tail = head THEN next[head] ELSE tail, next)
      /\ Elements(p, size - 1) = Elements(q, size) \ {head}
  BY <1>1, LinksPopped DEF IsChain
<1>3. head \in Elements(q, size)
  BY <1>1 DEF IsChain, Links, Elements
<1>4. Links(p, size, head, tail, next)'
  BY <1>1, <1>2
<1>5. Elements(p, size)' = Elements(q, size) \ {head}
  BY <1>1, <1>2
<1>6. Pending' = Pending
  BY <1>1 DEF Pending
<1>7. IsChain(p)'
  BY <1>1, <1>3, <1>4, <1>5, <1>6 DEF IsChain
<1>8. PendingInv'
  BY <1>1 DEF PendingInv
<1>. QED  BY <1>7, <1>8

\* A dequeue at the tail that cuts nothing takes the only entry.
LEMMA DequeueTailChain ==
  ASSUME TypeOK, PendingInv, NEW q, IsChain(q), ~cut',
         NEW t \in Threads, DequeueTail(t), NEW p, p = Popped(q, size)
  PROVE  PendingInv' /\ IsChain(p)' /\ size = 1 /\ tail = q[1]
<1>1. /\ tail # NULL /\ head = tail /\ prev[tail] = NULL
      /\ tail' = NULL /\ head' = NULL
      /\ next' = next /\ size' = size - 1 /\ allocated' = allocated \ {tail}
      /\ entry' = entry
  BY DEF DequeueTail, Taken
<1>2. size \in Nat /\ size # 0 /\ q[1] = q[size] /\ tail = q[1]
  BY <1>1 DEF IsChain, Links
<1>3. size = 1
  <2>1. 1 \in 1..size /\ size \in 1..size
    BY <1>2
  <2>. QED  BY <1>2, <2>1 DEF IsChain, Links
<1>4. next[head] = NULL
  BY <1>1, <1>2, <1>3 DEF IsChain, Links
<1>5. /\ Links(p, size - 1, NULL, NULL, next)
      /\ Elements(p, size - 1) = Elements(q, size) \ {head}
  <2>1. /\ Links(p, size - 1, next[head], IF tail = head THEN next[head] ELSE tail, next)
        /\ Elements(p, size - 1) = Elements(q, size) \ {head}
    BY <1>1, LinksPopped DEF IsChain
  <2>. QED  BY <1>1, <1>4, <2>1
<1>6. head \in Elements(q, size)
  BY <1>1, <1>2, <1>3 DEF Elements
<1>7. Links(p, size, head, tail, next)' /\ Elements(p, size)' = Elements(q, size) \ {head}
  BY <1>1, <1>5
<1>8. Pending' = Pending
  BY <1>1 DEF Pending
<1>9. IsChain(p)'
  BY <1>1, <1>6, <1>7, <1>8 DEF IsChain
<1>10. PendingInv'
  BY <1>1 DEF PendingInv
<1>. QED  BY <1>2, <1>3, <1>9, <1>10

LEMMA ChainIs ==
  ASSUME NEW q, IsChain(q)
  PROVE  Chain = Elements(q, size)
<1>1. \A n \in Nat : Nth[n] = IF n < size THEN q[n + 1] ELSE NULL
  BY NthOfChain DEF IsChain, Nth
<1>2. size \in Nat /\ size <= Cardinality(Entries) /\ \A i \in 1..size : q[i] \in Entries
  <2>1. Links(q, size, head, tail, next)
    BY DEF IsChain
  <2>2. size <= Cardinality(Entries)
    BY <2>1, ElementsOfChain
  <2>. QED  BY <2>1, <2>2 DEF Links
<1>3. Cardinality(Entries) \in Nat
  BY FS_CardinalityType, ListAssumption
<1>4. Chain \subseteq Elements(q, size)
  <2>. SUFFICES ASSUME NEW n \in 0..Cardinality(Entries), Nth[n] # NULL
                PROVE  Nth[n] \in Elements(q, size)
    BY DEF Chain
  <2>1. n < size /\ Nth[n] = q[n + 1]
    BY <1>1, <1>3
  <2>2. n + 1 \in 1..size
    BY <1>2, <1>3, <2>1
  <2>. QED  BY <2>1, <2>2 DEF Elements
<1>5. Elements(q, size) \subseteq Chain
  <2>. SUFFICES ASSUME NEW i \in 1..size PROVE q[i] \in Chain
    BY DEF Elements
  <2>1. i - 1 \in 0..Cardinality(Entries) /\ i - 1 \in Nat /\ i - 1 < size /\ (i - 1) + 1 = i
    BY <1>2, <1>3
  <2>2. Nth[i - 1] = q[i]
    BY <1>1, <2>1
  <2>. QED  BY <1>2, <2>1, <2>2, ListAssumption DEF Chain
<1>. QED  BY <1>4, <1>5

LEMMA EmptyChain ==
  ASSUME TypeOK, PendingInv, NEW q, IsChain(q), Empty, ~misused',
         NEW p, p = [i \in 1..0 |-> NULL]
  PROVE  PendingInv' /\ IsChain(p)' /\ size = 0 /\ size' = 0
<1>1. /\ head = NULL /\ allocated' = allocated \ (Chain \cap allocated)
      /\ head' = NULL /\ tail' = NULL /\ size' = 0 /\ next' = next /\ entry' = entry
  BY DEF Empty, threadVars
<1>2. size = 0
  BY <1>1, ListAssumption DEF IsChain, Links
<1>3. Chain = {} /\ Elements(q, size) = {}
  BY <1>2, ChainIs DEF Elements
<1>4. Pending' = Pending
  BY <1>1 DEF Pending
<1>5. Links(p, size, head, tail, next)' /\ Elements(p, size)' = {}
  BY <1>1, LinksNone
<1>6. IsChain(p)'
  BY <1>1, <1>3, <1>4, <1>5 DEF IsChain
<1>. QED  BY <1>1, <1>2, <1>6 DEF PendingInv

LEMMA FreeChain ==
  ASSUME TypeOK, PendingInv, NEW q, IsChain(q), Free,
         NEW p, p = [i \in 1..0 |-> NULL]
  PROVE  PendingInv' /\ IsChain(p)' /\ size' = 0
<1>1. /\ allocated' = allocated \ Chain
      /\ head' = NULL /\ tail' = NULL /\ size' = size - Cardinality(Chain)
      /\ next' = next /\ entry' = entry
  BY DEF Free, threadVars
<1>2. Chain = Elements(q, size)
  BY ChainIs
<1>3. size' = 0
  <2>1. Links(q, size, head, tail, next)
    BY DEF IsChain
  <2>2. Cardinality(Chain) = size
    BY <1>2, <2>1, ElementsOfChain
  <2>. QED  BY <1>1, <2>1, <2>2 DEF Links
<1>4. Pending' = Pending
  BY <1>1 DEF Pending
<1>5. Links(p, size, head, tail, next)' /\ Elements(p, size)' = {}
  BY <1>1, <1>3, LinksNone
<1>6. IsChain(p)'
  BY <1>1, <1>2, <1>4, <1>5 DEF IsChain
<1>. QED  BY <1>1, <1>3, <1>6 DEF PendingInv
-----------------------------------------------------------------------------
(* References.                                                             *)

EntriesWith(d) == {e \in allocated : data[e] = d}
ThreadsWith(d) == {t \in Threads : result[t] = d}

LEMMA CountsAreFinite ==
  ASSUME TypeOK, FiniteInv, NEW d \in Data
  PROVE  /\ IsFiniteSet(EntriesWith(d)) /\ Cardinality(EntriesWith(d)) \in Nat
         /\ IsFiniteSet(ThreadsWith(d)) /\ Cardinality(ThreadsWith(d)) \in Nat
<1>1. EntriesWith(d) \subseteq Entries
  BY DEF EntriesWith, TypeOK
<1>2. IsFiniteSet(EntriesWith(d))
  BY <1>1, FS_Subset, ListAssumption
<1>3. IsFiniteSet(ThreadsWith(d))
  BY DEF ThreadsWith, FiniteInv
<1>. QED  BY <1>2, <1>3, FS_CardinalityType

LEMMA EntryAllocRefs ==
  ASSUME TypeOK, FiniteInv, RefsFollowData, ~misused, ~gone,
         NEW t \in Threads, NEW op, NEW d \in Data, EntryAlloc(t, op, d)
  PROVE  RefsFollowData' /\ FiniteInv'
<1>1. PICK e \in Entries \ allocated :
        allocated' = allocated \cup {e} /\ data' = [data EXCEPT ![e] = d]
  BY DEF EntryAlloc
<1>2. result' = result /\ refs' = [refs EXCEPT ![d] = @ + 1]
  BY DEF EntryAlloc
<1>3. ASSUME NEW c \in Data
      PROVE  refs'[c] = Cardinality(EntriesWith(c)') + Cardinality(ThreadsWith(c)')
  <2>1. refs[c] = Cardinality(EntriesWith(c)) + Cardinality(ThreadsWith(c))
    BY DEF RefsFollowData, EntriesWith, ThreadsWith
  <2>2. ThreadsWith(c)' = ThreadsWith(c)
    BY <1>2 DEF ThreadsWith
  <2>3. CASE c = d
    <3>1. EntriesWith(c)' = EntriesWith(c) \cup {e} /\ e \notin EntriesWith(c)
      BY <1>1, <2>3 DEF EntriesWith, TypeOK
    <3>2. Cardinality(EntriesWith(c)') = Cardinality(EntriesWith(c)) + 1
      BY <3>1, CountsAreFinite, FS_AddElement
    <3>. QED  BY <1>2, <2>1, <2>2, <2>3, <3>2, CountsAreFinite DEF TypeOK
  <2>4. CASE c # d
    <3>1. EntriesWith(c)' = EntriesWith(c)
      BY <1>1, <2>4 DEF EntriesWith, TypeOK
    <3>. QED  BY <1>2, <2>1, <2>2, <2>4, <3>1 DEF TypeOK
  <2>. QED  BY <2>3, <2>4
<1>4. RefsFollowData'
  BY <1>3 DEF RefsFollowData, EntriesWith, ThreadsWith
<1>. QED  BY <1>2, <1>4 DEF FiniteInv

LEMMA LinkedRefs ==
  ASSUME RefsFollowData, FiniteInv, ~misused, NEW t, Linked(t)
  PROVE  RefsFollowData' /\ FiniteInv'
BY DEF Linked, RefsFollowData, FiniteInv

\* The reference of an entry becomes that of the thread that takes it.
LEMMA TakenRefs ==
  ASSUME TypeOK, FiniteInv, RefsFollowData, ~misused, ~gone,
         NEW t \in Threads, NEW e \in Entries, misused' \/ e \in allocated,
         result[t] = NULL, Taken(t, e)
  PROVE  RefsFollowData' /\ FiniteInv'
<1>1. /\ result' = [result EXCEPT ![t] = data[e]] /\ allocated' = allocated \ {e}
      /\ UNCHANGED <<data, refs, gone>>
  BY DEF Taken
<1>2. ASSUME NEW c \in Data
      PROVE  /\ ThreadsWith(c)' = IF c = data[e] THEN ThreadsWith(c) \cup {t} ELSE ThreadsWith(c)
             /\ t \notin ThreadsWith(c)
             /\ EntriesWith(c)' = EntriesWith(c) \ {e}
             /\ e \in allocated => (e \in EntriesWith(c) <=> c = data[e])
  <2>1. c # NULL
    BY ListAssumption
  <2>2. \A u \in Threads : result'[u] = IF u = t THEN data[e] ELSE result[u]
    BY <1>1 DEF TypeOK
  <2>3. ThreadsWith(c)' = IF c = data[e] THEN ThreadsWith(c) \cup {t} ELSE ThreadsWith(c)
    BY <2>1, <2>2 DEF ThreadsWith
  <2>4. t \notin ThreadsWith(c)
    BY <2>1 DEF ThreadsWith
  <2>5. EntriesWith(c)' = EntriesWith(c) \ {e}
    BY <1>1 DEF EntriesWith
  <2>6. e \in allocated => (e \in EntriesWith(c) <=> c = data[e])
    BY DEF EntriesWith
  <2>. QED  BY <2>3, <2>4, <2>5, <2>6
<1>3. FiniteInv'
  <2>. SUFFICES ASSUME NEW c \in Data PROVE IsFiniteSet(ThreadsWith(c)')
    BY DEF FiniteInv, ThreadsWith
  <2>. QED  BY <1>2, CountsAreFinite, FS_AddElement
<1>4. ASSUME ~misused', NEW c \in Data
      PROVE  refs'[c] = Cardinality(EntriesWith(c)') + Cardinality(ThreadsWith(c)')
  <2>1. refs[c] = Cardinality(EntriesWith(c)) + Cardinality(ThreadsWith(c))
    BY DEF RefsFollowData, EntriesWith, ThreadsWith
  <2>2. CASE c = data[e]
    <3>1. Cardinality(EntriesWith(c)') = Cardinality(EntriesWith(c)) - 1
      BY <1>2, <1>4, <2>2, CountsAreFinite, FS_RemoveElement
    <3>2. Cardinality(ThreadsWith(c)') = Cardinality(ThreadsWith(c)) + 1
      BY <1>2, <2>2, CountsAreFinite, FS_AddElement
    <3>. QED  BY <1>1, <2>1, <3>1, <3>2, CountsAreFinite
  <2>3. CASE c # data[e]
    <3>1. EntriesWith(c)' = EntriesWith(c) /\ ThreadsWith(c)' = ThreadsWith(c)
      BY <1>2, <1>4, <2>3
    <3>. QED  BY <1>1, <2>1, <3>1
  <2>. QED  BY <2>2, <2>3
<1>5. RefsFollowData'
  BY <1>4 DEF RefsFollowData, EntriesWith, ThreadsWith
<1>. QED  BY <1>3, <1>5

LEMMA ReleaseRefs ==
  ASSUME TypeOK, FiniteInv, RefsFollowData, ~misused, ~gone,
         NEW t \in Threads, Release(t)
  PROVE  RefsFollowData' /\ FiniteInv' /\ refs' \in [Data -> Nat]
<1>. DEFINE d == result[t]
<1>1. d \in Data /\ refs' = [refs EXCEPT ![d] = @ - 1]
  BY DEF Release, TypeOK
<1>2. /\ result' = [result EXCEPT ![t] = NULL]
      /\ allocated' = allocated /\ data' = data
  BY DEF Release, entryVars
<1>3. ASSUME NEW c \in Data
      PROVE  /\ ThreadsWith(c)' = ThreadsWith(c) \ {t}
             /\ t \in ThreadsWith(c) <=> c = d
             /\ EntriesWith(c)' = EntriesWith(c)
  <2>1. \A u \in Threads : result'[u] = IF u = t THEN NULL ELSE result[u]
    BY <1>2 DEF TypeOK
  <2>2. c # NULL
    BY ListAssumption
  <2>3. ThreadsWith(c)' = ThreadsWith(c) \ {t}
    BY <2>1, <2>2 DEF ThreadsWith
  <2>. QED  BY <1>2, <2>3 DEF ThreadsWith, EntriesWith
<1>. HIDE DEF d
<1>4. FiniteInv'
  <2>. SUFFICES ASSUME NEW c \in Data PROVE IsFiniteSet(ThreadsWith(c)')
    BY DEF FiniteInv, ThreadsWith
  <2>. QED  BY <1>3, CountsAreFinite, FS_RemoveElement
<1>5. ASSUME NEW c \in Data
      PROVE  /\ refs'[c] = Cardinality(EntriesWith(c)') + Cardinality(ThreadsWith(c)')
             /\ refs'[c] \in Nat
  <2>1. refs[c] = Cardinality(EntriesWith(c)) + Cardinality(ThreadsWith(c))
    BY DEF RefsFollowData, EntriesWith, ThreadsWith
  <2>2. Cardinality(ThreadsWith(c)') \in Nat
    BY <1>3, CountsAreFinite, FS_RemoveElement, FS_CardinalityType
  <2>3. Cardinality(ThreadsWith(c)')
          = IF c = d THEN Cardinality(ThreadsWith(c)) - 1 ELSE Cardinality(ThreadsWith(c))
    BY <1>3, CountsAreFinite, FS_RemoveElement
  <2>4. refs'[c] = IF c = d THEN refs[c] - 1 ELSE refs[c]
    BY <1>1 DEF TypeOK
  <2>. QED  BY <1>3, <2>1, <2>2, <2>3, <2>4, CountsAreFinite
<1>6. RefsFollowData'
  BY <1>5 DEF RefsFollowData, EntriesWith, ThreadsWith
<1>7. refs' \in [Data -> Nat]
  BY <1>1, <1>5 DEF TypeOK
<1>. QED  BY <1>4, <1>6, <1>7

LEMMA EmptyRefs ==
  ASSUME TypeOK, FiniteInv, RefsFollowData, ~misused, ~gone, Empty
  PROVE  RefsFollowData' /\ FiniteInv' /\ refs' \in [Data -> Nat]
<1>. DEFINE freed == Chain \cap allocated
            Given(d) == {e \in freed : data[e] = d}
<1>1. /\ misused' = (head # NULL) /\ allocated' = allocated \ freed
      /\ refs' = [d \in Data |-> refs[d] - Cardinality(Given(d))]
      /\ UNCHANGED <<data, result, gone>>
  BY DEF Empty, threadVars
<1>2. ASSUME NEW c \in Data
      PROVE  refs[c] - Cardinality(Given(c)) \in Nat
  <2>1. Given(c) \subseteq EntriesWith(c)
    BY DEF EntriesWith
  <2>2. Cardinality(Given(c)) \in Nat /\ Cardinality(Given(c)) <= Cardinality(EntriesWith(c))
    <3>. HIDE DEF Given
    <3>. QED  BY <2>1, CountsAreFinite, FS_Subset, FS_CardinalityType
  <2>3. refs[c] = Cardinality(EntriesWith(c)) + Cardinality(ThreadsWith(c))
    BY DEF RefsFollowData, EntriesWith, ThreadsWith
  <2>. HIDE DEF Given
  <2>. QED  BY <2>2, <2>3, CountsAreFinite
<1>3. ASSUME head = NULL
      PROVE  freed = {}
  <2>1. \A n \in Nat : Nth[n] = NULL
    <3>. DEFINE none == [i \in 1..0 |-> NULL]
    <3>1. Links(none, 0, NULL, NULL, next)
      BY LinksNone
    <3>. HIDE DEF none
    <3>2. \A n \in Nat : NthOf(NULL, next)[n] = IF n < 0 THEN none[n + 1] ELSE NULL
      BY <3>1, NthOfChain
    <3>. QED  BY <1>3, <3>2 DEF Nth
  <2>2. Chain = {}
    BY <2>1, FS_CardinalityType, ListAssumption DEF Chain
  <2>. QED  BY <2>2
<1>4. ASSUME ~misused'
      PROVE  RefsFollowData'
  <2>1. head = NULL
    BY <1>1, <1>4, Zenon
  <2>2. freed = {}
    BY <1>3, <2>1
  <2>3. \A d \in Data : Given(d) = {}
    BY <2>2
  <2>. HIDE DEF Given
  <2>4. \A d \in Data : refs'[d] = refs[d]
    <3>1. Cardinality({}) = 0
      BY FS_EmptySet
    <3>2. \A d \in Data : Cardinality(Given(d)) = 0
      BY <2>3, <3>1, Zenon
    <3>3. \A d \in Data : refs[d] \in Int
      BY DEF TypeOK
    <3>. QED  BY <1>1, <3>2, <3>3
  <2>5. allocated' = allocated
    BY <1>1, <2>2
  <2>. HIDE DEF freed
  <2>. QED  BY <1>1, <2>4, <2>5 DEF RefsFollowData
<1>5. misused' => RefsFollowData'
  BY DEF RefsFollowData
<1>6. refs' \in [Data -> Nat]
  <2>. HIDE DEF Given
  <2>. QED  BY <1>1, <1>2
<1>. QED  BY <1>1, <1>4, <1>5, <1>6 DEF FiniteInv
-----------------------------------------------------------------------------
(* The invariant holds.                                                    *)

LEMMA InitIInv == Init => IInv
<1>. SUFFICES ASSUME Init PROVE IInv
  OBVIOUS
<1>1. TypeOK /\ ThreadInv
  <2>1. ThreadInv
    BY DEF Init, ThreadInv
  <2>2. TypeOK
    <3>1. misused \in BOOLEAN /\ cut \in BOOLEAN /\ gone \in BOOLEAN
      BY Zenon DEF Init
    <3>2. size \in Int /\ refs \in [Data -> Nat]
      BY DEF Init
    <3>3. /\ head \in MaybeEntry /\ tail \in MaybeEntry /\ allocated \subseteq Entries
          /\ data \in [Entries -> Data \cup {NULL}]
          /\ prev \in [Entries -> MaybeEntry] /\ next \in [Entries -> MaybeEntry]
          /\ pc \in [Threads -> {"idle", "enqueue_head", "enqueue_tail"}]
          /\ entry \in [Threads -> MaybeEntry]
          /\ result \in [Threads -> Data \cup {NULL}]
      BY DEF Init, MaybeEntry
    <3>. QED  BY <3>1, <3>2, <3>3 DEF TypeOK
  <2>. QED  BY <2>1, <2>2
<1>2. LinkInv
  <2>. DEFINE none == [i \in 1..0 |-> NULL]
  <2>1. Links(none, 0, NULL, NULL, next) /\ Elements(none, 0) = {}
    BY LinksNone
  <2>2. none \in [1..0 -> Entries]
    OBVIOUS
  <2>. HIDE DEF none
  <2>3. Pending = {} /\ PendingInv
    BY DEF Init, Pending, PendingInv
  <2>4. head = NULL /\ tail = NULL /\ size = 0 /\ allocated = {}
    BY DEF Init
  <2>5. IsChain(none)
    BY <2>1, <2>3, <2>4 DEF IsChain
  <2>. QED  BY <2>2, <2>3, <2>4, <2>5 DEF LinkInv
<1>3. ASSUME NEW d \in Data
      PROVE  ThreadsWith(d) = {} /\ EntriesWith(d) = {} /\ refs[d] = 0
  BY ListAssumption DEF Init, ThreadsWith, EntriesWith
<1>4. FiniteInv
  BY <1>3, FS_EmptySet DEF FiniteInv, ThreadsWith
<1>5. RefsFollowData
  <2>. SUFFICES ASSUME NEW d \in Data
                PROVE  refs[d] = Cardinality(EntriesWith(d)) + Cardinality(ThreadsWith(d))
    BY DEF RefsFollowData, EntriesWith, ThreadsWith
  <2>1. Cardinality(EntriesWith(d)) = 0 /\ Cardinality(ThreadsWith(d)) = 0
    BY <1>3, FS_EmptySet
  <2>. QED  BY <1>3, <2>1
<1>. QED  BY <1>1, <1>2, <1>4, <1>5 DEF IInv

LEMMA ChainIsEnough ==
  ASSUME PendingInv', NEW p, IsChain(p)'
  PROVE  LinkInv'
BY DEF LinkInv, IsChain, Links

\* While the links are sound they form a chain.
LEMMA SoundChain ==
  ASSUME LinkInv, Unbroken
  PROVE  PendingInv /\ \E q \in [1..size -> Entries] : IsChain(q)
BY DEF LinkInv, Unbroken

LEMMA EntryAllocStep ==
  ASSUME IInv, ~misused, ~gone,
         NEW t \in Threads, NEW op \in {"enqueue_head", "enqueue_tail"}, NEW d \in Data,
         EntryAlloc(t, op, d)
  PROVE  IInv'
<1>1. TypeOK'
  BY DEF EntryAlloc, IInv, TypeOK, MaybeEntry, listVars
<1>2. ThreadInv'
  BY ListAssumption DEF EntryAlloc, IInv, TypeOK, ThreadInv
<1>3. LinkInv'
  <2>. SUFFICES ASSUME Unbroken' PROVE LinkInv'
    BY DEF LinkInv, Unbroken
  <2>1. Unbroken
    BY DEF EntryAlloc, Unbroken
  <2>2. PICK q : PendingInv /\ IsChain(q)
    BY <2>1, SoundChain DEF IInv
  <2>. QED  BY <2>2, EntryAllocChain, ChainIsEnough DEF IInv
<1>4. RefsFollowData' /\ FiniteInv'
  BY EntryAllocRefs DEF IInv
<1>. QED  BY <1>1, <1>2, <1>3, <1>4 DEF IInv

LEMMA EnqueueHeadStep ==
  ASSUME IInv, ~misused, ~gone, NEW t \in Threads, EnqueueHead(t)
  PROVE  IInv'
<1>1. entry[t] \in Entries
  BY DEF IInv, EnqueueHead, TypeOK, ThreadInv, MaybeEntry
<1>2. TypeOK'
  BY <1>1 DEF EnqueueHead, Linked, IInv, TypeOK, MaybeEntry
<1>3. ThreadInv'
  BY DEF EnqueueHead, Linked, IInv, TypeOK, ThreadInv
<1>4. LinkInv'
  <2>. SUFFICES ASSUME Unbroken' PROVE LinkInv'
    BY DEF LinkInv, Unbroken
  <2>1. Unbroken
    BY DEF EnqueueHead, Linked, Unbroken
  <2>2. PICK q : PendingInv /\ IsChain(q)
    BY <2>1, SoundChain DEF IInv
  <2>. QED  BY <2>2, EnqueueHeadChain, ChainIsEnough DEF IInv
<1>5. RefsFollowData' /\ FiniteInv'
  BY LinkedRefs DEF IInv, EnqueueHead
<1>. QED  BY <1>2, <1>3, <1>4, <1>5 DEF IInv

LEMMA EnqueueTailStep ==
  ASSUME IInv, ~misused, ~gone, NEW t \in Threads, EnqueueTail(t)
  PROVE  IInv'
<1>1. entry[t] \in Entries
  BY DEF IInv, EnqueueTail, TypeOK, ThreadInv, MaybeEntry
<1>2. TypeOK'
  <2>1. misused' \in BOOLEAN
    BY Zenon DEF EnqueueTail, Touch, IInv, TypeOK
  <2>. QED  BY <1>1, <2>1 DEF EnqueueTail, Linked, IInv, TypeOK, MaybeEntry
<1>3. ThreadInv'
  BY DEF EnqueueTail, Linked, IInv, TypeOK, ThreadInv
<1>4. LinkInv'
  <2>. SUFFICES ASSUME Unbroken' PROVE LinkInv'
    BY DEF LinkInv, Unbroken
  <2>1. Unbroken
    BY DEF EnqueueTail, Linked, Unbroken
  <2>2. PICK q : PendingInv /\ IsChain(q)
    BY <2>1, SoundChain DEF IInv
  <2>. QED  BY <2>2, EnqueueTailChain, ChainIsEnough DEF IInv
<1>5. RefsFollowData' /\ FiniteInv'
  BY LinkedRefs DEF IInv, EnqueueTail
<1>. QED  BY <1>2, <1>3, <1>4, <1>5 DEF IInv

LEMMA DequeueHeadStep ==
  ASSUME IInv, ~misused, ~gone, NEW t \in Threads, DequeueHead(t)
  PROVE  IInv'
<1>1. head \in Entries /\ head # NULL /\ result[t] = NULL /\ head' = next[head]
  BY DEF IInv, DequeueHead, Idle, TypeOK, MaybeEntry
<1>2. TypeOK'
  <2>1. misused' \in BOOLEAN
    BY Zenon DEF DequeueHead, Touch, IInv, TypeOK
  <2>2. prev' \in [Entries -> MaybeEntry]
    BY <1>1 DEF DequeueHead, IInv, TypeOK, MaybeEntry
  <2>. QED  BY <1>1, <2>1, <2>2 DEF DequeueHead, Taken, IInv, TypeOK, MaybeEntry
<1>3. ThreadInv'
  BY DEF DequeueHead, Taken, IInv, ThreadInv
<1>4. LinkInv'
  <2>. SUFFICES ASSUME Unbroken' PROVE LinkInv'
    BY DEF LinkInv, Unbroken
  <2>1. Unbroken
    BY DEF DequeueHead, Unbroken
  <2>2. PICK q : PendingInv /\ IsChain(q)
    BY <2>1, SoundChain DEF IInv
  <2>. QED  BY <2>2, DequeueHeadChain, ChainIsEnough DEF IInv
<1>5. misused' \/ head \in allocated
  BY <1>1 DEF DequeueHead, Touch
<1>6. RefsFollowData' /\ FiniteInv'
  BY <1>1, <1>5, TakenRefs DEF IInv, DequeueHead
<1>. QED  BY <1>2, <1>3, <1>4, <1>6 DEF IInv

LEMMA DequeueTailStep ==
  ASSUME IInv, ~misused, ~gone, NEW t \in Threads, DequeueTail(t)
  PROVE  IInv'
<1>1. tail \in Entries /\ tail # NULL /\ result[t] = NULL /\ tail' = prev[tail]
  BY DEF IInv, DequeueTail, Idle, TypeOK, MaybeEntry
<1>2. TypeOK'
  <2>1. misused' \in BOOLEAN /\ cut' \in BOOLEAN
    BY Zenon DEF DequeueTail, Touch, IInv, TypeOK
  <2>2. next' \in [Entries -> MaybeEntry]
    BY <1>1 DEF DequeueTail, IInv, TypeOK, MaybeEntry
  <2>. QED  BY <1>1, <2>1, <2>2 DEF DequeueTail, Taken, IInv, TypeOK, MaybeEntry
<1>3. ThreadInv'
  BY DEF DequeueTail, Taken, IInv, ThreadInv
<1>4. LinkInv'
  <2>. SUFFICES ASSUME Unbroken' PROVE LinkInv'
    BY DEF LinkInv, Unbroken
  <2>1. Unbroken /\ ~cut'
    BY DEF DequeueTail, Unbroken
  <2>2. PICK q : PendingInv /\ IsChain(q)
    BY <2>1, SoundChain DEF IInv
  <2>. QED  BY <2>1, <2>2, DequeueTailChain, ChainIsEnough DEF IInv
<1>5. misused' \/ tail \in allocated
  BY <1>1 DEF DequeueTail, Touch
<1>6. RefsFollowData' /\ FiniteInv'
  BY <1>1, <1>5, TakenRefs DEF IInv, DequeueTail
<1>. QED  BY <1>2, <1>3, <1>4, <1>6 DEF IInv

LEMMA ReleaseStep ==
  ASSUME IInv, ~misused, ~gone, NEW t \in Threads, Release(t)
  PROVE  IInv'
<1>1. RefsFollowData' /\ FiniteInv' /\ refs' \in [Data -> Nat]
  BY ReleaseRefs DEF IInv
<1>2. TypeOK'
  BY <1>1 DEF Release, IInv, TypeOK, listVars, entryVars
<1>3. ThreadInv'
  BY DEF Release, IInv, ThreadInv
<1>4. LinkInv'
  BY DEF Release, IInv, LinkInv, PendingInv, Pending, IsChain, listVars, entryVars
<1>. QED  BY <1>1, <1>2, <1>3, <1>4 DEF IInv

LEMMA EmptyStep ==
  ASSUME IInv, ~misused, ~gone, Empty
  PROVE  IInv'
<1>1. RefsFollowData' /\ FiniteInv' /\ refs' \in [Data -> Nat]
  BY EmptyRefs DEF IInv
<1>2. TypeOK'
  <2>1. misused' \in BOOLEAN
    BY Zenon DEF Empty
  <2>. QED  BY <1>1, <2>1 DEF Empty, IInv, TypeOK, MaybeEntry, threadVars
<1>3. ThreadInv'
  BY DEF Empty, IInv, ThreadInv, threadVars
<1>4. LinkInv'
  <2>. SUFFICES ASSUME Unbroken' PROVE LinkInv'
    BY DEF LinkInv, Unbroken
  <2>1. Unbroken /\ ~misused'
    BY DEF Empty, Unbroken
  <2>2. PICK q : PendingInv /\ IsChain(q)
    BY <2>1, SoundChain DEF IInv
  <2>. QED  BY <2>1, <2>2, EmptyChain, ChainIsEnough DEF IInv
<1>. QED  BY <1>1, <1>2, <1>3, <1>4 DEF IInv

LEMMA FreeStep ==
  ASSUME IInv, ~misused, ~gone, Free
  PROVE  IInv'
<1>1. RefsFollowData' /\ FiniteInv'
  BY DEF Free, RefsFollowData, IInv, FiniteInv, threadVars
<1>2. TypeOK'
  <2>1. misused' \in BOOLEAN
    BY Zenon DEF Free
  <2>2. Chain \subseteq Entries
    <3>1. \A n \in Nat : Nth[n] \in MaybeEntry
      BY NthType DEF Nth, IInv, TypeOK
    <3>. QED  BY <3>1, FS_CardinalityType, ListAssumption DEF Chain, MaybeEntry
  <2>3. Cardinality(Chain) \in Nat
    BY <2>2, FS_Subset, FS_CardinalityType, ListAssumption
  <2>. QED  BY <2>1, <2>3 DEF Free, IInv, TypeOK, MaybeEntry, threadVars
<1>3. ThreadInv'
  BY DEF Free, IInv, ThreadInv, threadVars
<1>4. LinkInv'
  <2>. SUFFICES ASSUME Unbroken' PROVE LinkInv'
    BY DEF LinkInv, Unbroken
  <2>1. Unbroken
    BY DEF Free, Unbroken
  <2>2. PICK q : PendingInv /\ IsChain(q)
    BY <2>1, SoundChain DEF IInv
  <2>. QED  BY <2>2, FreeChain, ChainIsEnough DEF IInv
<1>. QED  BY <1>1, <1>2, <1>3, <1>4 DEF IInv

LEMMA StutterStep ==
  ASSUME IInv, UNCHANGED vars
  PROVE  IInv'
<1>1. /\ UNCHANGED <<head, tail, size, allocated, data, prev, next, refs>>
      /\ UNCHANGED <<pc, entry, result, misused, cut, gone>>
  BY DEF vars, listVars, entryVars, threadVars
<1>2. TypeOK' /\ ThreadInv'
  BY <1>1 DEF IInv, TypeOK, ThreadInv
<1>3. LinkInv'
  BY <1>1 DEF IInv, LinkInv, PendingInv, Pending, IsChain
<1>4. RefsFollowData' /\ FiniteInv'
  BY <1>1 DEF IInv, RefsFollowData, FiniteInv
<1>. QED  BY <1>2, <1>3, <1>4 DEF IInv

LEMMA StepIInv == IInv /\ [Next]_vars => IInv'
<1>. SUFFICES ASSUME IInv, [Next]_vars PROVE IInv'
  OBVIOUS
<1>1. ASSUME ~misused, ~gone, NEW t \in Threads, ThreadStep(t)  PROVE IInv'
  BY <1>1, EntryAllocStep, EnqueueHeadStep, EnqueueTailStep, DequeueHeadStep,
     DequeueTailStep, ReleaseStep
     DEF ThreadStep
<1>2. ASSUME ~misused, ~gone, Empty  PROVE IInv'
  BY <1>2, EmptyStep
<1>3. ASSUME ~misused, ~gone, Free  PROVE IInv'
  BY <1>3, FreeStep
<1>4. ASSUME UNCHANGED vars  PROVE IInv'
  BY <1>4, StutterStep
<1>. QED  BY <1>1, <1>2, <1>3, <1>4 DEF Next, Halted

\* In every reachable state (list.c) the references follow the data, and unless a
\* dequeue at the tail cut the list the entries from the head on are a chain
\* without repetition.
THEOREM Invariance == Spec => []IInv
BY InitIInv, StepIInv, PTL DEF Spec

\* The fields of the list and its entries keep their types, and no reference count
\* goes below zero.
THEOREM TypeCorrect == Spec => []TypeOK
<1>1. IInv => TypeOK
  BY DEF IInv
<1>. QED  BY <1>1, Invariance, PTL

\* Every reference the list has taken (list.c:40) is on a datum in an entry or in
\* the hands of the thread that dequeued it, also after the links were cut.
THEOREM ReferencesFollow == Spec => []RefsFollowData
<1>1. IInv => RefsFollowData
  BY DEF IInv
<1>. QED  BY <1>1, Invariance, PTL

\* The size (list.c:241-253) counts the entries from the head on, and the tail is
\* the last of them.
THEOREM SizeCorrect == Spec => []SizeIsLength
<1>1. ASSUME IInv PROVE SizeIsLength
  <2>. SUFFICES ASSUME Unbroken
                PROVE  /\ \A n \in 0..(size - 1) : Nth[n] # NULL
                       /\ Nth[size] = NULL
                       /\ tail = IF size = 0 THEN NULL ELSE Nth[size - 1]
    BY DEF SizeIsLength, Unbroken
  <2>1. PICK q : IsChain(q)
    BY <1>1, SoundChain DEF IInv
  <2>2. \A n \in Nat : Nth[n] = IF n < size THEN q[n + 1] ELSE NULL
    BY <2>1, NthOfChain DEF IsChain, Nth
  <2>3. size \in Nat /\ \A i \in 1..size : q[i] # NULL
    BY <2>1, ListAssumption DEF IsChain, Links
  <2>4. \A n \in 0..(size - 1) : Nth[n] # NULL
    <3>. TAKE n \in 0..(size - 1)
    <3>1. n + 1 \in 1..size /\ n < size /\ n \in Nat
      BY <2>3
    <3>. QED  BY <2>2, <2>3, <3>1
  <2>5. Nth[size] = NULL
    BY <2>2, <2>3
  <2>6. tail = IF size = 0 THEN NULL ELSE Nth[size - 1]
    <3>1. size # 0 => size - 1 \in Nat /\ size - 1 < size /\ (size - 1) + 1 = size
      BY <2>3
    <3>2. tail = IF size = 0 THEN NULL ELSE q[size]
      BY <2>1 DEF IsChain, Links
    <3>. QED  BY <2>2, <3>1, <3>2
  <2>. QED  BY <2>4, <2>5, <2>6
<1>. QED  BY <1>1, Invariance, PTL

\* No entry is lost (list.c:85-95): those allocated are in the list or about to
\* enter it, so a list that was freed leaves none behind.
THEOREM NothingLost == Spec => []NoEntryLost
<1>1. ASSUME IInv PROVE NoEntryLost
  <2>. SUFFICES ASSUME Unbroken
                PROVE  allocated = Chain \cup Pending
    BY DEF NoEntryLost, Unbroken, Pending
  <2>1. PICK q : IsChain(q)
    BY <1>1, SoundChain DEF IInv
  <2>2. allocated = Elements(q, size) \cup Pending
    BY <2>1 DEF IsChain
  <2>. QED  BY <2>1, <2>2, ChainIs
<1>. QED  BY <1>1, Invariance, PTL
-----------------------------------------------------------------------------
(* The list is a double-ended queue.                                       *)

\* What the mapping of List gives for the variables of Deque.
Held    == [n \in 1..size |-> data[Nth[n - 1]]]
Waiting == [t \in Threads |-> IF pc[t] = "idle" THEN <<>> ELSE <<pc[t], data[entry[t]]>>]

Values == Data \cup {NULL}

LEMMA FunctionIsSeq ==
  ASSUME NEW S, NEW k \in Nat, NEW f \in [1..k -> S]
  PROVE  f \in Seq(S) /\ Len(f) = k
<1>1. f \in Seq(S)
  BY SeqDef
<1>2. Len(f) \in Nat /\ 1..k = 1..Len(f)
  BY <1>1, LenProperties
<1>3. Len(f) = k
  BY <1>2
<1>. QED  BY <1>1, <1>3

LEMMA HeldOfChain ==
  ASSUME NEW q, NEW k, NEW h, NEW tl, NEW nx, Links(q, k, h, tl, nx),
         NEW da \in [Entries -> Values],
         NEW s, s = [n \in 1..k |-> da[NthOf(h, nx)[n - 1]]]
  PROVE  /\ k \in Nat /\ s \in Seq(Values) /\ Len(s) = k
         /\ \A n \in 1..k : s[n] = da[q[n]]
<1>1. k \in Nat /\ q \in [1..k -> Entries]
  BY DEF Links
<1>2. ASSUME NEW n \in 1..k
      PROVE  NthOf(h, nx)[n - 1] = q[n]
  <2>1. n - 1 \in Nat /\ n - 1 < k /\ (n - 1) + 1 = n
    BY <1>1
  <2>. QED  BY <2>1, NthOfChain
<1>3. \A n \in 1..k : s[n] = da[q[n]]
  BY <1>2
<1>4. s \in [1..k -> Values]
  BY <1>1, <1>2
<1>. QED  BY <1>1, <1>3, <1>4, FunctionIsSeq

LEMMA HeldIs ==
  ASSUME TypeOK, NEW q, IsChain(q)
  PROVE  /\ size \in Nat /\ Held \in Seq(Values) /\ Len(Held) = size
         /\ \A n \in 1..size : Held[n] = data[q[n]]
<1>1. Links(q, size, head, tail, next) /\ data \in [Entries -> Values]
  BY DEF TypeOK, IsChain, Values
<1>2. Held = [n \in 1..size |-> data[NthOf(head, next)[n - 1]]]
  BY DEF Held, Nth
<1>. QED  BY <1>1, <1>2, HeldOfChain

LEMMA HeldIsPrimed ==
  ASSUME TypeOK', NEW p, IsChain(p)'
  PROVE  /\ size' \in Nat /\ Held' \in Seq(Values) /\ Len(Held') = size'
         /\ \A n \in 1..size' : Held'[n] = data'[p[n]]
<1>1. Links(p, size', head', tail', next') /\ data' \in [Entries -> Values]
  BY DEF TypeOK, IsChain, Values
<1>2. Held' = [n \in 1..size' |-> data'[NthOf(head', next')[n - 1]]]
  BY DEF Held, Nth
<1>. QED  BY <1>1, <1>2, HeldOfChain

\* An operation of Deque, by what it does to the values its variables are mapped to.
LEMMA QueueSteps ==
  ASSUME NEW t \in Threads
  PROVE  /\ \A op \in {"enqueue_head", "enqueue_tail"}, d \in Data :
              Waiting[t] = <<>> /\ Waiting' = [Waiting EXCEPT ![t] = <<op, d>>]
                /\ UNCHANGED <<Held, result>> => Queue!Next
         /\ /\ Waiting[t] # <<>>
            /\ Held' = IF Waiting[t][1] = "enqueue_head"
                       THEN <<Waiting[t][2]>> \o Held ELSE Append(Held, Waiting[t][2])
            /\ Waiting' = [Waiting EXCEPT ![t] = <<>>]
            /\ UNCHANGED result
            => Queue!Next
         /\ /\ Held # <<>> /\ result[t] = NULL
            /\ result' = [result EXCEPT ![t] = Head(Held)]
            /\ Held' = Tail(Held)
            /\ UNCHANGED Waiting
            => Queue!Next
         /\ /\ Held # <<>> /\ result[t] = NULL
            /\ result' = [result EXCEPT ![t] = Held[Len(Held)]]
            /\ Held' = SubSeq(Held, 1, Len(Held) - 1)
            /\ UNCHANGED Waiting
            => Queue!Next
         /\ result' = [result EXCEPT ![t] = NULL] /\ UNCHANGED <<Held, Waiting>>
            => Queue!Next
BY Zenon DEF Queue!Next, Queue!Ask, Queue!Put, Queue!TakeHead, Queue!TakeTail,
   Queue!Release, Held, Waiting

LEMMA QueueEmpty ==
  ASSUME Held' = <<>>, UNCHANGED <<Waiting, result>>
  PROVE  Queue!Next
BY Zenon DEF Queue!Next, Queue!Empty, Held, Waiting

LEMMA AskRefines ==
  ASSUME IInv, Unbroken, TypeOK',
         NEW t \in Threads, NEW op \in {"enqueue_head", "enqueue_tail"}, NEW d \in Data,
         EntryAlloc(t, op, d)
  PROVE  Queue!Next
<1>1. PICK q : PendingInv /\ IsChain(q)
  BY SoundChain DEF IInv
<1>2. IsChain(q)' /\ \A i \in 1..size : data'[q[i]] = data[q[i]]
  BY <1>1, EntryAllocChain DEF IInv
<1>3. PICK e \in Entries \ allocated :
        data' = [data EXCEPT ![e] = d] /\ entry' = [entry EXCEPT ![t] = e]
  BY DEF EntryAlloc
<1>4. /\ pc[t] = "idle" /\ pc' = [pc EXCEPT ![t] = op]
      /\ size' = size /\ result' = result
  BY DEF EntryAlloc, Idle, listVars
<1>5. Held' = Held
  <2>1. Held \in Seq(Values) /\ Len(Held) = size /\ \A n \in 1..size : Held[n] = data[q[n]]
    BY <1>1, HeldIs DEF IInv
  <2>2. /\ Held' \in Seq(Values) /\ Len(Held') = size
        /\ \A n \in 1..size : Held'[n] = data'[q[n]]
    BY <1>2, <1>4, HeldIsPrimed
  <2>. QED  BY <1>2, <2>1, <2>2, SeqEqual
<1>6. Waiting[t] = <<>>
  BY <1>4 DEF Waiting
<1>7. Waiting' = [Waiting EXCEPT ![t] = <<op, d>>]
  <2>1. ASSUME NEW u \in Threads
        PROVE  (IF pc'[u] = "idle" THEN <<>> ELSE <<pc'[u], data'[entry'[u]]>>)
                 = IF u = t THEN <<op, d>>
                   ELSE IF pc[u] = "idle" THEN <<>> ELSE <<pc[u], data[entry[u]]>>
    <3>1. CASE u = t
      <4>1. pc'[u] = op /\ op # "idle" /\ data'[entry'[u]] = d
        BY <1>3, <1>4, <3>1 DEF IInv, TypeOK
      <4>. QED  BY <3>1, <4>1
    <3>2. CASE u # t /\ pc[u] = "idle"
      BY <1>4, <3>2 DEF IInv, TypeOK
    <3>3. CASE u # t /\ pc[u] # "idle"
      <4>1. pc'[u] = pc[u] /\ entry'[u] = entry[u]
        BY <1>3, <1>4, <3>3 DEF IInv, TypeOK
      <4>2. entry[u] \in allocated /\ entry[u] \in Entries
        BY <1>1, <3>3 DEF IInv, TypeOK, ThreadInv, MaybeEntry, IsChain, Pending
      <4>3. data'[entry[u]] = data[entry[u]]
        BY <1>3, <4>2 DEF IInv, TypeOK
      <4>. QED  BY <3>3, <4>1, <4>3
    <3>. QED  BY <3>1, <3>2, <3>3
  <2>. QED  BY <2>1 DEF Waiting
<1>. QED  BY <1>4, <1>5, <1>6, <1>7, QueueSteps

\* The entry of an enqueue as Deque sees it.
LEMMA WaitingLinked ==
  ASSUME IInv, NEW t \in Threads, pc[t] # "idle", Linked(t)
  PROVE  /\ Waiting[t] = <<pc[t], data[entry[t]]>> /\ Waiting[t] # <<>>
         /\ Waiting' = [Waiting EXCEPT ![t] = <<>>]
         /\ data[entry[t]] \in Values /\ entry[t] \in Entries
<1>1. Waiting[t] = <<pc[t], data[entry[t]]>>
  BY DEF Waiting
<1>2. Waiting[t] # <<>>
  BY <1>1
<1>3. data[entry[t]] \in Values /\ entry[t] \in Entries
  BY DEF IInv, TypeOK, ThreadInv, MaybeEntry, Values
<1>4. /\ pc' = [pc EXCEPT ![t] = "idle"] /\ entry' = [entry EXCEPT ![t] = NULL]
      /\ data' = data
  BY DEF Linked
<1>5. ASSUME NEW u \in Threads
      PROVE  (IF pc'[u] = "idle" THEN <<>> ELSE <<pc'[u], data'[entry'[u]]>>)
               = IF u = t THEN <<>>
                 ELSE IF pc[u] = "idle" THEN <<>> ELSE <<pc[u], data[entry[u]]>>
  <2>1. CASE u = t
    BY <1>4, <2>1 DEF IInv, TypeOK
  <2>2. CASE u # t
    <3>1. pc'[u] = pc[u] /\ entry'[u] = entry[u]
      BY <1>4, <2>2 DEF IInv, TypeOK
    <3>. QED  BY <1>4, <2>2, <3>1
  <2>. QED  BY <2>1, <2>2
<1>6. Waiting' = [Waiting EXCEPT ![t] = <<>>]
  BY <1>5 DEF Waiting
<1>. QED  BY <1>1, <1>2, <1>3, <1>6

LEMMA PutHeadRefines ==
  ASSUME IInv, Unbroken, TypeOK', NEW t \in Threads, EnqueueHead(t)
  PROVE  Queue!Next
<1>. DEFINE x == data[entry[t]]
<1>1. PICK q : PendingInv /\ IsChain(q)
  BY SoundChain DEF IInv
<1>2. PICK p : p = Pushed(q, size, entry[t]) /\ IsChain(p)'
  BY <1>1, EnqueueHeadChain DEF IInv
<1>3. pc[t] = "enqueue_head" /\ Linked(t)
  BY DEF EnqueueHead
<1>4. size' = size + 1 /\ data' = data /\ result' = result
  BY <1>3 DEF Linked
<1>5. /\ Waiting[t] = <<pc[t], x>> /\ Waiting[t] # <<>> /\ x \in Values
      /\ Waiting' = [Waiting EXCEPT ![t] = <<>>]
  BY <1>3, WaitingLinked
<1>6. /\ size \in Nat /\ Held \in Seq(Values) /\ Len(Held) = size
      /\ \A n \in 1..size : Held[n] = data[q[n]]
  BY <1>1, HeldIs DEF IInv
<1>7. /\ Held' \in Seq(Values) /\ Len(Held') = size + 1
      /\ \A n \in 1..(size + 1) : Held'[n] = data[p[n]]
  BY <1>2, <1>4, HeldIsPrimed
<1>8. \A n \in 1..(size + 1) : Held'[n] = IF n = 1 THEN x ELSE Held[n - 1]
  <2>. TAKE n \in 1..(size + 1)
  <2>1. p[n] = IF n = 1 THEN entry[t] ELSE q[n - 1]
    BY <1>2, <1>6 DEF Pushed
  <2>2. n # 1 => n - 1 \in 1..size
    BY <1>6
  <2>. QED  BY <1>6, <1>7, <2>1, <2>2
<1>. HIDE DEF x
<1>9. Held' = <<x>> \o Held
  <2>1. <<x>> \in Seq(Values) /\ Len(<<x>>) = 1 /\ <<x>>[1] = x
    BY <1>5
  <2>2. /\ <<x>> \o Held \in Seq(Values) /\ Len(<<x>> \o Held) = 1 + size
        /\ \A i \in 1..(1 + size) :
             (<<x>> \o Held)[i] = IF i <= 1 THEN <<x>>[i] ELSE Held[i - 1]
    BY <1>6, <2>1, ConcatProperties
  <2>3. \A i \in 1..(size + 1) : (<<x>> \o Held)[i] = IF i = 1 THEN x ELSE Held[i - 1]
    BY <1>6, <2>1, <2>2
  <2>4. Len(<<x>> \o Held) = size + 1
    BY <1>6, <2>2
  <2>. QED  BY <1>7, <1>8, <2>2, <2>3, <2>4, SeqEqual
<1>10. Waiting[t][1] = "enqueue_head" /\ Waiting[t][2] = x
  BY <1>3, <1>5
<1>. QED  BY <1>4, <1>5, <1>9, <1>10, QueueSteps

LEMMA PutTailRefines ==
  ASSUME IInv, Unbroken, TypeOK', NEW t \in Threads, EnqueueTail(t)
  PROVE  Queue!Next
<1>. DEFINE x == data[entry[t]]
<1>1. PICK q : PendingInv /\ IsChain(q)
  BY SoundChain DEF IInv
<1>2. PICK p : p = Appended(q, size, entry[t]) /\ IsChain(p)'
  BY <1>1, EnqueueTailChain DEF IInv
<1>3. pc[t] = "enqueue_tail" /\ Linked(t)
  BY DEF EnqueueTail
<1>4. size' = size + 1 /\ data' = data /\ result' = result
  BY <1>3 DEF Linked
<1>5. /\ Waiting[t] = <<pc[t], x>> /\ Waiting[t] # <<>> /\ x \in Values
      /\ Waiting' = [Waiting EXCEPT ![t] = <<>>]
  BY <1>3, WaitingLinked
<1>6. /\ size \in Nat /\ Held \in Seq(Values) /\ Len(Held) = size
      /\ \A n \in 1..size : Held[n] = data[q[n]]
  BY <1>1, HeldIs DEF IInv
<1>7. /\ Held' \in Seq(Values) /\ Len(Held') = size + 1
      /\ \A n \in 1..(size + 1) : Held'[n] = data[p[n]]
  BY <1>2, <1>4, HeldIsPrimed
<1>8. \A n \in 1..(size + 1) : Held'[n] = IF n = size + 1 THEN x ELSE Held[n]
  <2>. TAKE n \in 1..(size + 1)
  <2>1. p[n] = IF n = size + 1 THEN entry[t] ELSE q[n]
    BY <1>2, <1>6 DEF Appended
  <2>2. n # size + 1 => n \in 1..size
    BY <1>6
  <2>. QED  BY <1>6, <1>7, <2>1, <2>2
<1>. HIDE DEF x
<1>9. Held' = Append(Held, x)
  <2>1. /\ Append(Held, x) \in Seq(Values) /\ Len(Append(Held, x)) = size + 1
        /\ \A i \in 1..size : Append(Held, x)[i] = Held[i]
        /\ Append(Held, x)[size + 1] = x
    BY <1>5, <1>6, AppendProperties
  <2>2. \A i \in 1..(size + 1) : i # size + 1 => i \in 1..size
    BY <1>6
  <2>3. \A i \in 1..(size + 1) : Append(Held, x)[i] = Held'[i]
    BY <1>8, <2>1, <2>2
  <2>. QED  BY <1>7, <2>1, <2>3, SeqEqual
<1>10. Waiting[t][1] # "enqueue_head" /\ Waiting[t][2] = x
  BY <1>3, <1>5
<1>. QED  BY <1>4, <1>5, <1>9, <1>10, QueueSteps

\* What a dequeue leaves alone, and what it hands out.
LEMMA WaitingTaken ==
  ASSUME NEW t \in Threads, NEW e, Taken(t, e)
  PROVE  Waiting' = Waiting
BY DEF Taken, Waiting

LEMMA TakeHeadRefines ==
  ASSUME IInv, Unbroken, TypeOK', NEW t \in Threads, DequeueHead(t)
  PROVE  Queue!Next
<1>1. PICK q : PendingInv /\ IsChain(q)
  BY SoundChain DEF IInv
<1>2. PICK p : p = Popped(q, size) /\ IsChain(p)'
  BY <1>1, DequeueHeadChain DEF IInv
<1>3. head # NULL /\ result[t] = NULL /\ Taken(t, head)
  BY DEF DequeueHead, Idle
<1>4. size' = size - 1 /\ data' = data /\ result' = [result EXCEPT ![t] = data[head]]
  BY <1>3 DEF Taken
<1>5. /\ size \in Nat /\ Held \in Seq(Values) /\ Len(Held) = size
      /\ \A n \in 1..size : Held[n] = data[q[n]]
  BY <1>1, HeldIs DEF IInv
<1>6. /\ Held' \in Seq(Values) /\ Len(Held') = size - 1
      /\ \A n \in 1..(size - 1) : Held'[n] = data[p[n]]
  BY <1>2, <1>4, HeldIsPrimed
<1>7. size # 0 /\ head = q[1] /\ 1 \in 1..size
  BY <1>1, <1>3, <1>5 DEF IsChain, Links
<1>8. Held # <<>> /\ Head(Held) = data[head]
  <2>1. Held # <<>>
    BY <1>5, <1>7
  <2>2. Held[1] = data[head]
    BY <1>5, <1>7
  <2>. QED  BY <1>5, <2>1, <2>2
<1>9. \A n \in 1..(size - 1) : Held'[n] = Held[n + 1]
  <2>. TAKE n \in 1..(size - 1)
  <2>1. p[n] = q[n + 1] /\ n + 1 \in 1..size
    BY <1>2, <1>5 DEF Popped
  <2>. QED  BY <1>5, <1>6, <2>1
<1>10. Held' = Tail(Held)
  <2>1. /\ Tail(Held) \in Seq(Values) /\ Len(Tail(Held)) = size - 1
        /\ \A i \in 1..(size - 1) : Tail(Held)[i] = Held[i + 1]
    BY <1>5, <1>8, HeadTailProperties
  <2>. QED  BY <1>6, <1>9, <2>1, SeqEqual
<1>11. Waiting' = Waiting
  BY <1>3, WaitingTaken
<1>. QED  BY <1>3, <1>4, <1>8, <1>10, <1>11, QueueSteps

LEMMA TakeTailRefines ==
  ASSUME IInv, Unbroken, ~cut', TypeOK', NEW t \in Threads, DequeueTail(t)
  PROVE  Queue!Next
<1>1. PICK q : PendingInv /\ IsChain(q)
  BY SoundChain DEF IInv
<1>2. PICK p : IsChain(p)' /\ size = 1 /\ tail = q[1]
  BY <1>1, DequeueTailChain DEF IInv
<1>3. result[t] = NULL /\ Taken(t, tail)
  BY DEF DequeueTail, Idle
<1>4. size' = 0 /\ data' = data /\ result' = [result EXCEPT ![t] = data[tail]]
  BY <1>2, <1>3 DEF Taken
<1>5. /\ Held \in Seq(Values) /\ Len(Held) = 1
      /\ \A n \in 1..1 : Held[n] = data[q[n]]
  BY <1>1, <1>2, HeldIs DEF IInv
<1>6. Held' \in Seq(Values) /\ Len(Held') = 0
  BY <1>2, <1>4, HeldIsPrimed
<1>7. Held # <<>> /\ Held[Len(Held)] = data[tail]
  <2>1. Held # <<>>
    BY <1>5
  <2>2. Held[1] = data[q[1]]
    BY <1>5
  <2>3. Held[Len(Held)] = Held[1]
    BY <1>5
  <2>. QED  BY <1>2, <2>1, <2>2, <2>3
<1>8. Held' = SubSeq(Held, 1, Len(Held) - 1)
  <2>1. Held' = <<>>
    BY <1>6, EmptySeq
  <2>2. Len(Held) - 1 = 0
    BY <1>5
  <2>3. SubSeq(Held, 1, 0) = <<>>
    BY SubSeqEmpty
  <2>. QED  BY <2>1, <2>2, <2>3
<1>9. Waiting' = Waiting
  BY <1>3, WaitingTaken
<1>. QED  BY <1>3, <1>4, <1>7, <1>8, <1>9, QueueSteps

LEMMA EmptyRefines ==
  ASSUME IInv, Unbroken, Unbroken', TypeOK', Empty \/ Free
  PROVE  Queue!Next
<1>1. PICK q : PendingInv /\ IsChain(q)
  BY SoundChain DEF IInv
<1>2. PICK p : IsChain(p)' /\ size' = 0
  BY <1>1, EmptyChain, FreeChain DEF IInv, Unbroken
<1>3. Held' \in Seq(Values) /\ Len(Held') = 0
  BY <1>2, HeldIsPrimed
<1>4. Held' = <<>>
  BY <1>3, EmptySeq
<1>5. UNCHANGED <<Waiting, result>>
  BY DEF Empty, Free, Waiting, threadVars
<1>. QED  BY <1>4, <1>5, QueueEmpty

LEMMA ReleaseRefines ==
  ASSUME NEW t \in Threads, Release(t)
  PROVE  Queue!Next
<1>1. result' = [result EXCEPT ![t] = NULL] /\ UNCHANGED <<Held, Waiting>>
  BY DEF Release, Held, Nth, Waiting, listVars, entryVars
<1>. QED  BY <1>1, QueueSteps

LEMMA InitRefines == Init => Queue!Init
<1>. SUFFICES ASSUME Init PROVE Queue!Init
  OBVIOUS
<1>1. IInv /\ Unbroken
  BY InitIInv DEF Init, Unbroken
<1>2. PICK q : IsChain(q)
  BY <1>1, SoundChain DEF IInv
<1>3. Held \in Seq(Values) /\ Len(Held) = 0
  BY <1>1, <1>2, HeldIs DEF Init, IInv
<1>4. Held = <<>>
  BY <1>3, EmptySeq
<1>5. Waiting = [t \in Threads |-> <<>>] /\ result = [t \in Threads |-> NULL]
  BY DEF Init, Waiting
<1>. QED  BY <1>4, <1>5, Zenon DEF Queue!Init, Held, Waiting

LEMMA StepRefines ==
  IInv /\ IInv' /\ [Next]_vars => [misused' \/ cut' \/ Queue!Next]_(Queue!vars)
<1>. SUFFICES ASSUME IInv, TypeOK', [Next]_vars, Unbroken'
              PROVE  Queue!Next \/ UNCHANGED Queue!vars
  BY DEF IInv, Unbroken
<1>1. CASE UNCHANGED vars
  <2>1. UNCHANGED <<head, tail, size, data, next, pc, entry, result>>
    BY <1>1 DEF vars, listVars, entryVars, threadVars
  <2>2. UNCHANGED <<Held, Waiting, result>>
    BY <2>1 DEF Held, Nth, Waiting
  <2>. QED  BY <2>2, Zenon DEF Queue!vars, Held, Waiting
<1>2. ASSUME ~misused, NEW t \in Threads, ThreadStep(t)
      PROVE  Queue!Next
  <2>1. ~cut' /\ Unbroken
    <3>1. ~cut'
      BY DEF Unbroken
    <3>2. CASE DequeueTail(t)
      BY <1>2, <3>1, <3>2, Zenon DEF DequeueTail, Unbroken
    <3>3. ASSUME ~DequeueTail(t)  PROVE UNCHANGED cut
      BY <1>2, <3>3 DEF ThreadStep, EntryAlloc, EnqueueHead, EnqueueTail, DequeueHead,
                        Release, Linked
    <3>. QED  BY <1>2, <3>1, <3>2, <3>3 DEF Unbroken
  <2>. QED  BY <1>2, <2>1, AskRefines, PutHeadRefines, PutTailRefines, TakeHeadRefines,
               TakeTailRefines, ReleaseRefines
            DEF ThreadStep
<1>3. ASSUME ~misused, Empty \/ Free
      PROVE  Queue!Next
  <2>1. Unbroken
    BY <1>3 DEF Empty, Free, Unbroken
  <2>. QED  BY <1>3, <2>1, EmptyRefines
<1>. QED  BY <1>1, <1>2, <1>3 DEF Next, Halted

\* Any threads that share a list (list.c:97-239) see a double-ended queue that loses,
\* doubles and reorders nothing, until freed memory is used or a dequeue at the tail
\* follows a wrong prev.
THEOREM Refinement == Spec => ImplementsDeque
BY InitRefines, StepRefines, Invariance, PTL DEF Spec, ImplementsDeque
=============================================================================
