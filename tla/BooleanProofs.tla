--------------------------- MODULE BooleanProofs ---------------------------
(***************************************************************************)
(* Proofs about the boolean's merge pass: the section vertices are the     *)
(* classes of "the same within a tolerance", for every recipe and every    *)
(* list of candidates.                                                     *)
(*                                                                         *)
(* components (pave.rs) keeps a forest of parents.  The argument gives the *)
(* forest its roots as a function, says how joining a set of nodes changes *)
(* that function, and carries two facts over the nodes: those the same as  *)
(* a node already passed share its root, and nodes that share a root are   *)
(* in every set closed under sameness that holds one of them.              *)
(***************************************************************************)
EXTENDS Boolean, TLAPS

LOCAL O == INSTANCE Order

-----------------------------------------------------------------------------
(***************************************************************************)
(* Naturals and least elements.                                            *)
(***************************************************************************)

\* The least of a set of naturals is the one that is at most each of them:
\* the label of a component, and the root the others are put under.
LEMMA MinIs ==
    ASSUME NEW S \in SUBSET Nat, NEW k \in S, \A j \in S : k <= j
    PROVE  Min(S) = k
<1>1. \A x \in S : (\A y \in S : x <= y) => x = k
  OBVIOUS
<1>2. Min(S) = CHOOSE x \in S : \A y \in S : x <= y
  BY DEF Min
<1> QED
  BY <1>1, <1>2

\* A non-empty set of naturals has its least in it.
LEMMA MinOfSome ==
    ASSUME NEW S \in SUBSET Nat, S # {}
    PROVE  Min(S) \in S /\ \A j \in S : Min(S) <= j
<1>1. PICK k \in S : \A j \in S : k <= j
  BY O!LeastOfNats
<1> QED
  BY <1>1, MinIs

\* What holds of 0 and goes from each number to the next holds of all: the
\* loop over the nodes.
LEMMA ByNode ==
    ASSUME NEW N \in Nat, NEW G, 0 \in G,
           \A n \in 1 .. N : n - 1 \in G => n \in G
    PROVE  \A n \in 0 .. N : n \in G
<1> SUFFICES ASSUME NEW j \in 0 .. N, j \notin G PROVE FALSE
  OBVIOUS
<1> DEFINE T == {n \in 0 .. N : n \notin G}
<1>1. T \in SUBSET Nat /\ T # {}
  OBVIOUS
<1>2. PICK n \in T : \A k \in T : n <= k
  <2> HIDE DEF T
  <2> QED
    BY <1>1, O!LeastOfNats
<1>3. n \in 1 .. N /\ n - 1 \in 0 .. N
  OBVIOUS
<1> QED
  BY <1>2, <1>3

-----------------------------------------------------------------------------
(***************************************************************************)
(* The forest of parents.                                                  *)
(***************************************************************************)

\* q gives each of n nodes the root the parents lead it to.
Rooted(n, parent, q) ==
    /\ parent \in [1 .. n -> 1 .. n]
    /\ \A k \in 1 .. n : parent[k] <= k
    /\ q \in [1 .. n -> 1 .. n]
    /\ \A k \in 1 .. n : q[k] = IF parent[k] = k THEN k ELSE q[parent[k]]

\* Parents go down, so they lead each node to one root only: root()'s loop
\* ends, and where it ends is q.
LEMMA RootedOnce ==
    ASSUME NEW n \in Nat, NEW parent, NEW q, Rooted(n, parent, q), NEW f,
           f = [j \in DOMAIN parent |-> IF parent[j] = j THEN j ELSE f[parent[j]]]
    PROVE  f = q
<1>1. DOMAIN parent = 1 .. n
  BY DEF Rooted
<1>2. \A k \in 1 .. n : f[k] = IF parent[k] = k THEN k ELSE f[parent[k]]
  BY <1>1
<1> DEFINE T == {k \in 1 .. n : f[k] # q[k]}
<1>3. T = {}
  <2> SUFFICES ASSUME T # {} PROVE FALSE
    OBVIOUS
  <2>1. T \in SUBSET Nat
    OBVIOUS
  <2>2. PICK k \in T : \A j \in T : k <= j
    <3> HIDE DEF T
    <3> QED
      BY <2>1, O!LeastOfNats
  <2>3. k \in 1 .. n /\ parent[k] \in 1 .. n /\ parent[k] <= k
    BY DEF Rooted
  <2>4. CASE parent[k] = k
    BY <1>2, <2>3, <2>4 DEF Rooted
  <2>5. CASE parent[k] # k
    <3>1. parent[k] \notin T
      BY <2>2, <2>3, <2>5
    <3> QED
      BY <1>2, <2>3, <2>5, <3>1 DEF Rooted
  <2> QED
    BY <2>4, <2>5
<1>4. \A k \in 1 .. n : f[k] = q[k]
  BY <1>3
<1>5. DOMAIN q = 1 .. n /\ q = [k \in 1 .. n |-> q[k]]
  BY DEF Rooted
<1>6. f = [k \in 1 .. n |-> f[k]]
  BY <1>1, <1>2
<1> QED
  BY <1>4, <1>5, <1>6

\* Root is that function.
LEMMA RootIs ==
    ASSUME NEW n \in Nat, NEW parent, NEW q, Rooted(n, parent, q)
    PROVE  \A k \in 1 .. n : Root(parent, k) = q[k]
<1> DEFINE Goes(f) == f = [j \in DOMAIN parent |-> IF parent[j] = j THEN j ELSE f[parent[j]]]
<1>1. Goes(q)
  BY DEF Rooted
<1>2. \A f : Goes(f) => f = q
  BY RootedOnce
<1>3. (CHOOSE f : Goes(f)) = q
  <2> HIDE DEF Goes
  <2> QED
    BY <1>1, <1>2
<1> QED
  BY <1>3 DEF Root

\* A root is its own parent, and no node's root comes after it.
LEMMA RootsStand ==
    ASSUME NEW n \in Nat, NEW parent, NEW q, Rooted(n, parent, q)
    PROVE  \A k \in 1 .. n : /\ q[k] \in 1 .. n /\ q[k] <= k
                             /\ q[q[k]] = q[k]
                             /\ parent[q[k]] = q[k]
<1> DEFINE Good(k) == q[k] <= k /\ q[q[k]] = q[k] /\ parent[q[k]] = q[k]
           T == {k \in 1 .. n : ~ Good(k)}
<1>1. \A k \in 1 .. n : q[k] \in 1 .. n /\ parent[k] \in 1 .. n /\ parent[k] <= k
  BY DEF Rooted
<1>2. T = {}
  <2> SUFFICES ASSUME T # {} PROVE FALSE
    OBVIOUS
  <2>1. T \in SUBSET Nat
    OBVIOUS
  <2>2. PICK k \in T : \A j \in T : k <= j
    <3> HIDE DEF T
    <3> QED
      BY <2>1, O!LeastOfNats
  <2>3. k \in 1 .. n
    OBVIOUS
  <2>4. CASE parent[k] = k
    <3>1. q[k] = k
      BY <2>3, <2>4 DEF Rooted
    <3> QED
      BY <2>3, <2>4, <3>1
  <2>5. CASE parent[k] # k
    <3>1. parent[k] \notin T
      BY <1>1, <2>2, <2>3, <2>5
    <3>2. Good(parent[k])
      BY <1>1, <2>3, <3>1
    <3>3. q[k] = q[parent[k]]
      BY <2>3, <2>5 DEF Rooted
    <3> QED
      BY <1>1, <2>3, <3>2, <3>3
  <2> QED
    BY <2>4, <2>5
<1> QED
  BY <1>1, <1>2

\* Where the nodes are led once those of ks are put together: all that were
\* led to a root of one of ks go to the least of those roots.
PutTogether(q, ks) ==
    LET roots == {q[k] : k \in ks}
    IN  [k \in DOMAIN q |-> IF q[k] \in roots THEN Min(roots) ELSE q[k]]

\* The step of components: putting roots under the least of them leaves a
\* forest, and leads the nodes there.
LEMMA JoinRootsJoins ==
    ASSUME NEW n \in Nat, NEW parent, NEW q, Rooted(n, parent, q),
           NEW ks \in SUBSET (1 .. n), ks # {}
    PROVE  Rooted(n, JoinRoots(parent, ks), PutTogether(q, ks))
<1> DEFINE roots == {q[k] : k \in ks}
           m == Min(roots)
           p2 == JoinRoots(parent, ks)
           q2 == PutTogether(q, ks)
<1>1. \A k \in 1 .. n : q[k] \in 1 .. n /\ q[k] <= k /\ q[q[k]] = q[k] /\ parent[q[k]] = q[k]
  BY RootsStand
<1>2. DOMAIN parent = 1 .. n /\ DOMAIN q = 1 .. n
  BY DEF Rooted
<1>3. \A k \in 1 .. n : parent[k] \in 1 .. n /\ parent[k] <= k /\ q[k] = IF parent[k] = k THEN k ELSE q[parent[k]]
  BY DEF Rooted
<1>4. roots = {Root(parent, k) : k \in ks}
  BY RootIs
<1>5. \A r \in roots : r \in 1 .. n /\ q[r] = r /\ parent[r] = r
  BY <1>1
<1>6. m \in roots /\ \A r \in roots : m <= r
  <2>1. roots # {}
    OBVIOUS
  <2> HIDE DEF roots
  <2>2. roots \in SUBSET Nat
    BY <1>5
  <2> QED
    BY <2>1, <2>2, MinOfSome
<1>7. p2 = [k \in 1 .. n |-> IF k \in roots THEN m ELSE parent[k]]
  BY <1>2, <1>4 DEF JoinRoots
<1>8. q2 = [k \in 1 .. n |-> IF q[k] \in roots THEN m ELSE q[k]]
  BY <1>2 DEF PutTogether
<1> HIDE DEF roots, m, p2, q2
<1>9. p2 \in [1 .. n -> 1 .. n] /\ \A k \in 1 .. n : p2[k] <= k
  BY <1>3, <1>5, <1>6, <1>7
<1>10. q2 \in [1 .. n -> 1 .. n]
  BY <1>1, <1>5, <1>6, <1>8
<1>11. ASSUME NEW k \in 1 .. n PROVE q2[k] = IF p2[k] = k THEN k ELSE q2[p2[k]]
  <2>1. CASE k \in roots
    <3>1. p2[k] = m /\ q2[k] = m
      BY <1>5, <1>7, <1>8, <2>1
    <3>2. q2[m] = m
      BY <1>5, <1>6, <1>8
    <3> QED
      BY <3>1, <3>2
  <2>2. CASE k \notin roots
    <3>1. p2[k] = parent[k]
      BY <1>7, <2>2
    <3>2. CASE parent[k] = k
      BY <1>3, <1>8, <2>2, <3>1, <3>2
    <3>3. CASE parent[k] # k
      <4>1. q[k] = q[parent[k]] /\ parent[k] \in 1 .. n
        BY <1>3, <3>3
      <4>2. q2[k] = q2[parent[k]]
        BY <1>8, <4>1
      <4> QED
        BY <3>1, <3>3, <4>2
    <3> QED
      BY <3>2, <3>3
  <2> QED
    BY <2>1, <2>2
<1> QED
  BY <1>9, <1>10, <1>11 DEF Rooted, p2, q2

-----------------------------------------------------------------------------
(***************************************************************************)
(* Sameness and its classes.                                               *)
(***************************************************************************)

\* Two candidates are the same in either order.
LEMMA SameEitherWay ==
    ASSUME NEW x \in Candidate, NEW y \in Candidate, Same(x, y)
    PROVE  Same(y, x)
<1>1. \A a, b \in Int : Square(a - b) = Square(b - a)
  BY DEF Square
<1>2. /\ x.point \in [1 .. 3 -> Int] /\ y.point \in [1 .. 3 -> Int]
      /\ x.tolerance \in Nat /\ y.tolerance \in Nat
  BY DEF Candidate
<1>3. /\ x.point[1] \in Int /\ x.point[2] \in Int /\ x.point[3] \in Int
      /\ y.point[1] \in Int /\ y.point[2] \in Int /\ y.point[3] \in Int
  BY <1>2
<1>4. SquareDistance(x.point, y.point) = SquareDistance(y.point, x.point)
  BY <1>1, <1>3 DEF SquareDistance
<1>5. x.tolerance + y.tolerance = y.tolerance + x.tolerance
  BY <1>2
<1>6. x.existing \cap y.existing = y.existing \cap x.existing
  OBVIOUS
<1> QED
  BY <1>4, <1>5, <1>6 DEF Same

\* What holds once the nodes up to j are passed, q giving the roots: a later
\* node that is the same as one of them has its root, and every set closed
\* under sameness has all or none of the nodes of a root.
Passed(nodes, j, q) ==
    /\ \A a \in 1 .. j, b \in 1 .. Len(nodes) :
          a < b /\ Same(nodes[a], nodes[b]) => q[a] = q[b]
    /\ \A S \in SUBSET (1 .. Len(nodes)) : Whole(nodes, S) =>
          \A a, b \in 1 .. Len(nodes) : q[a] = q[b] /\ a \in S => b \in S

\* The nodes that components joins at node j.
SameAs(nodes, j) == {j} \cup {k \in DOMAIN nodes : k > j /\ Same(nodes[j], nodes[k])}

LEMMA PassesOn ==
    ASSUME NEW nodes \in Seq(Candidate), NEW j \in 1 .. Len(nodes), NEW parent, NEW q,
           Rooted(Len(nodes), parent, q), Passed(nodes, j - 1, q)
    PROVE  Passed(nodes, j, PutTogether(q, SameAs(nodes, j)))
<1> DEFINE n == Len(nodes)
           ks == SameAs(nodes, j)
           roots == {q[k] : k \in ks}
           m == Min(roots)
           q2 == PutTogether(q, ks)
<1>1. n \in Nat /\ DOMAIN nodes = 1 .. n /\ \A k \in 1 .. n : nodes[k] \in Candidate
  OBVIOUS
<1>2. ks \in SUBSET (1 .. n) /\ j \in ks
  BY <1>1 DEF SameAs
<1>3. \A k \in 1 .. n : q[k] \in 1 .. n /\ q[q[k]] = q[k]
  BY <1>1, RootsStand
<1>4. m \in roots
  <2>1. roots \in SUBSET Nat /\ roots # {}
    BY <1>2, <1>3
  <2> HIDE DEF roots
  <2> QED
    BY <2>1, MinOfSome
<1>5. \A k \in 1 .. n : q2[k] = IF q[k] \in roots THEN m ELSE q[k]
  <2>1. DOMAIN q = 1 .. n
    BY DEF Rooted
  <2> QED
    BY <2>1 DEF PutTogether
<1>6. \A k \in ks : q[k] \in roots
  OBVIOUS
<1>7. ASSUME NEW a \in 1 .. j, NEW b \in 1 .. n, a < b, Same(nodes[a], nodes[b])
      PROVE  q2[a] = q2[b]
  <2>1. a \in 1 .. n
    BY <1>1
  <2>2. CASE a = j
    <3>1. b \in ks
      BY <1>1, <1>7, <2>2 DEF SameAs
    <3> QED
      BY <1>2, <1>5, <1>6, <2>1, <2>2, <3>1
  <2>3. CASE a # j
    <3>1. a \in 1 .. (j - 1)
      BY <2>3
    <3>2. q[a] = q[b]
      BY <1>7, <3>1 DEF Passed
    <3> QED
      BY <1>5, <2>1, <3>2
  <2> QED
    BY <2>2, <2>3
<1>8. ASSUME NEW S \in SUBSET (1 .. n), Whole(nodes, S),
             NEW a \in 1 .. n, NEW b \in 1 .. n, q2[a] = q2[b], a \in S
      PROVE  b \in S
  <2>1. \A x, y \in 1 .. n : q[x] = q[y] /\ x \in S => y \in S
    BY <1>8 DEF Passed
  <2>2. \A x \in S, y \in 1 .. n : Same(nodes[x], nodes[y]) => y \in S
    BY <1>1, <1>8 DEF Whole
  <2>3. CASE q[a] \in roots /\ q[b] \in roots
    <3>1. PICK x \in ks : q[x] = q[a]
      BY <2>3
    <3>2. PICK y \in ks : q[y] = q[b]
      BY <2>3
    <3>3. x \in 1 .. n /\ y \in 1 .. n /\ x \in S
      BY <1>2, <2>1, <1>8, <3>1
    <3>4. j \in S
      <4>1. CASE x = j
        BY <3>3, <4>1
      <4>2. CASE x # j
        <5>1. Same(nodes[j], nodes[x])
          BY <4>2 DEF SameAs
        <5>2. Same(nodes[x], nodes[j])
          BY <1>1, <3>3, <5>1, SameEitherWay
        <5> QED
          BY <1>1, <2>2, <3>3, <5>2
      <4> QED
        BY <4>1, <4>2
    <3>5. y \in S
      <4>1. CASE y = j
        BY <3>4, <4>1
      <4>2. CASE y # j
        <5>1. Same(nodes[j], nodes[y])
          BY <4>2 DEF SameAs
        <5> QED
          BY <2>2, <3>3, <3>4, <5>1
      <4> QED
        BY <4>1, <4>2
    <3> QED
      BY <2>1, <3>2, <3>3, <3>5
  <2>4. CASE ~ (q[a] \in roots /\ q[b] \in roots)
    <3>1. q[a] = q[b]
      BY <1>4, <1>5, <1>8, <2>4
    <3> QED
      BY <1>8, <2>1, <3>1
  <2> QED
    BY <2>3, <2>4
<1> QED
  BY <1>7, <1>8 DEF Passed

-----------------------------------------------------------------------------
(***************************************************************************)
(* The loop over the nodes.                                                *)
(***************************************************************************)

\* What components does at node j, to any forest.
Joining(nodes, j) ==
    [parent \in [DOMAIN nodes -> DOMAIN nodes] |-> JoinRoots(parent, SameAs(nodes, j))]

\* f is the forest after each of the first m nodes.
Goes(nodes, f, m) ==
    f = [j \in 0 .. m |-> IF j = 0 THEN [k \in DOMAIN nodes |-> k]
                          ELSE Joining(nodes, j)[f[j - 1]]]

LEMMA GoesBy ==
    ASSUME NEW nodes, NEW m \in Nat, NEW f, Goes(nodes, f, m)
    PROVE  /\ f[0] = [k \in DOMAIN nodes |-> k]
           /\ \A j \in 1 .. m : f[j] = Joining(nodes, j)[f[j - 1]]
<1> DEFINE v(j) == IF j = 0 THEN [k \in DOMAIN nodes |-> k] ELSE Joining(nodes, j)[f[j - 1]]
<1>1. f = [j \in 0 .. m |-> v(j)]
  BY DEF Goes
<1>2. v(0) = [k \in DOMAIN nodes |-> k] /\ \A j \in 1 .. m : v(j) = Joining(nodes, j)[f[j - 1]]
  OBVIOUS
<1> HIDE DEF v
<1>3. \A j \in 0 .. m : f[j] = v(j)
  BY <1>1
<1>4. 0 \in 0 .. m /\ \A j \in 1 .. m : j \in 0 .. m
  OBVIOUS
<1> QED
  BY <1>2, <1>3, <1>4

LEMMA GoesOn ==
    ASSUME NEW nodes, NEW m \in Nat \ {0}, NEW f, Goes(nodes, f, m - 1)
    PROVE  \E g : Goes(nodes, g, m)
<1> DEFINE last == Joining(nodes, m)[f[m - 1]]
           g == [j \in 0 .. m |-> IF j = m THEN last ELSE f[j]]
<1>1. g[m] = last /\ \A j \in 0 .. (m - 1) : g[j] = f[j]
  OBVIOUS
<1>2. \A j \in 0 .. (m - 1) : f[j] = IF j = 0 THEN [k \in DOMAIN nodes |-> k]
                                    ELSE Joining(nodes, j)[f[j - 1]]
  BY DEF Goes
<1>3. g = [j \in 0 .. m |-> g[j]]
  OBVIOUS
<1>4. last = Joining(nodes, m)[g[m - 1]]
  BY <1>1
<1> HIDE DEF g, last
<1>5. ASSUME NEW j \in 0 .. m
      PROVE  g[j] = IF j = 0 THEN [k \in DOMAIN nodes |-> k]
                    ELSE Joining(nodes, j)[g[j - 1]]
  <2>1. CASE j = m
    BY <1>1, <1>4, <2>1
  <2>2. CASE j # m
    <3>1. j \in 0 .. (m - 1)
      BY <2>2
    <3>2. j # 0 => j - 1 \in 0 .. (m - 1)
      BY <3>1
    <3> QED
      BY <1>1, <1>2, <3>1, <3>2
  <2> QED
    BY <2>1, <2>2
<1>6. Goes(nodes, g, m)
  BY <1>3, <1>5 DEF Goes
<1> QED
  BY <1>6

\* The loop is its steps: components labels each node with its root in the
\* forest left by the last.
LEMMA ComponentsGo ==
    ASSUME NEW nodes \in Seq(Candidate)
    PROVE  \E f : /\ f[0] = [k \in 1 .. Len(nodes) |-> k]
                  /\ \A j \in 1 .. Len(nodes) : f[j] = Joining(nodes, j)[f[j - 1]]
                  /\ Components(nodes) = [k \in 1 .. Len(nodes) |-> Root(f[Len(nodes)], k)]
<1> DEFINE N == Len(nodes)
           G == {m \in Nat : \E f : Goes(nodes, f, m)}
<1>1. N \in Nat /\ DOMAIN nodes = 1 .. N
  OBVIOUS
<1>2. 0 \in G
  <2> DEFINE f0 == [j \in 0 .. 0 |-> [k \in DOMAIN nodes |-> k]]
  <2>1. Goes(nodes, f0, 0)
    BY DEF Goes
  <2> QED
    BY <2>1
<1>3. \A m \in 1 .. N : m - 1 \in G => m \in G
  BY GoesOn
<1>4. N \in G
  <2> HIDE DEF G, N
  <2>1. \A m \in 0 .. N : m \in G
    BY <1>1, <1>2, <1>3, ByNode
  <2> QED
    BY <1>1, <2>1
<1>5. PICK f : Goes(nodes, f, N)
  BY <1>4
<1> DEFINE StepsOf(g) == /\ g[0] = [k \in DOMAIN nodes |-> k]
                         /\ \A j \in 1 .. N : g[j] = Joining(nodes, j)[g[j - 1]]
<1>6. ASSUME NEW g, Goes(nodes, g, N) PROVE StepsOf(g)
  <2> HIDE DEF G
  <2>1. N \in Nat
    BY <1>1
  <2> QED
    BY <1>6, <2>1, GoesBy
<1>7. ASSUME NEW g, Goes(nodes, g, N) PROVE g = f
  <2>1. StepsOf(f) /\ StepsOf(g)
    BY <1>5, <1>6, <1>7
  <2> DEFINE H == {m \in Nat : g[m] = f[m]}
  <2>2. 0 \in H
    BY <2>1
  <2>3. \A m \in 1 .. N : m - 1 \in H => m \in H
    BY <2>1
  <2>4. \A m \in 0 .. N : m \in H
    <3> HIDE DEF H, N
    <3> QED
      BY <1>1, <2>2, <2>3, ByNode
  <2> QED
    BY <1>5, <1>7, <2>4 DEF Goes
<1>8. (CHOOSE g : Goes(nodes, g, N)) = f
  BY <1>5, <1>7
<1>9. Components(nodes) = [k \in DOMAIN nodes |-> Root((CHOOSE g : Goes(nodes, g, N))[N], k)]
  BY DEF Components, Goes, Joining, SameAs
<1>10. Components(nodes) = [k \in 1 .. N |-> Root(f[N], k)]
  BY <1>1, <1>8, <1>9
<1>11. StepsOf(f) /\ f[0] = [k \in 1 .. N |-> k]
  BY <1>1, <1>5, <1>6
<1> QED
  BY <1>10, <1>11

\* The label of a node is its root, and what is passed is every node.
LEMMA ComponentsLead ==
    ASSUME NEW nodes \in Seq(Candidate)
    PROVE  \E parent, q : /\ Rooted(Len(nodes), parent, q)
                          /\ Passed(nodes, Len(nodes), q)
                          /\ \A k \in 1 .. Len(nodes) : Components(nodes)[k] = q[k]
<1> DEFINE N == Len(nodes)
<1>1. N \in Nat /\ DOMAIN nodes = 1 .. N
  OBVIOUS
<1>2. PICK f : /\ f[0] = [k \in 1 .. N |-> k]
               /\ \A j \in 1 .. N : f[j] = Joining(nodes, j)[f[j - 1]]
               /\ Components(nodes) = [k \in 1 .. N |-> Root(f[N], k)]
  BY ComponentsGo
<1> DEFINE G == {j \in Nat : \E q : Rooted(N, f[j], q) /\ Passed(nodes, j, q)}
<1>3. 0 \in G
  <2> DEFINE q == [k \in 1 .. N |-> k]
  <2>1. Rooted(N, f[0], q)
    BY <1>1, <1>2 DEF Rooted
  <2>2. Passed(nodes, 0, q)
    BY <1>1 DEF Passed
  <2> QED
    BY <2>1, <2>2
<1>4. ASSUME NEW j \in 1 .. N, j - 1 \in G PROVE j \in G
  <2>1. PICK q : Rooted(N, f[j - 1], q) /\ Passed(nodes, j - 1, q)
    BY <1>4
  <2>2. SameAs(nodes, j) \in SUBSET (1 .. N) /\ SameAs(nodes, j) # {}
    BY <1>1 DEF SameAs
  <2>3. f[j] = JoinRoots(f[j - 1], SameAs(nodes, j))
    <3>1. f[j - 1] \in [1 .. N -> 1 .. N]
      BY <2>1 DEF Rooted
    <3>2. f[j] = Joining(nodes, j)[f[j - 1]]
      BY <1>2
    <3> QED
      BY <1>1, <3>1, <3>2 DEF Joining
  <2>4. Rooted(N, f[j], PutTogether(q, SameAs(nodes, j)))
    BY <1>1, <2>1, <2>2, <2>3, JoinRootsJoins
  <2>5. Passed(nodes, j, PutTogether(q, SameAs(nodes, j)))
    BY <2>1, PassesOn
  <2> QED
    BY <1>1, <2>4, <2>5
<1>5. N \in G
  <2> HIDE DEF G, N
  <2>1. \A m \in 0 .. N : m \in G
    BY <1>1, <1>3, <1>4, ByNode
  <2> QED
    BY <1>1, <2>1
<1>6. PICK q : Rooted(N, f[N], q) /\ Passed(nodes, N, q)
  BY <1>5
<1>7. \A k \in 1 .. N : Components(nodes)[k] = q[k]
  BY <1>1, <1>2, <1>6, RootIs
<1> QED
  BY <1>6, <1>7

-----------------------------------------------------------------------------
(***************************************************************************)
(* The theorem.                                                            *)
(***************************************************************************)

\* Whatever the candidates and the order they come in, components labels
\* each with the least candidate of its class.
THEOREM ComponentsLabelClasses ==
    ASSUME NEW nodes \in Seq(Candidate), NEW k \in DOMAIN nodes
    PROVE  Components(nodes)[k] = Min(ClassOf(nodes, k))
<1> DEFINE N == Len(nodes)
<1>1. N \in Nat /\ DOMAIN nodes = 1 .. N /\ \A j \in 1 .. N : nodes[j] \in Candidate
  OBVIOUS
<1>2. PICK parent, q : /\ Rooted(N, parent, q)
                       /\ Passed(nodes, N, q)
                       /\ \A j \in 1 .. N : Components(nodes)[j] = q[j]
  BY ComponentsLead
<1>3. \A j \in 1 .. N : q[j] \in 1 .. N /\ q[j] <= j /\ q[q[j]] = q[j]
  BY <1>1, <1>2, RootsStand
<1> DEFINE C == {j \in 1 .. N : q[j] = q[k]}
<1>4. Whole(nodes, C)
  <2> SUFFICES ASSUME NEW a \in C, NEW b \in 1 .. N, Same(nodes[a], nodes[b]) PROVE q[b] = q[k]
    BY <1>1 DEF Whole
  <2>1. a \in 1 .. N /\ q[a] = q[k]
    OBVIOUS
  <2>2. CASE a < b
    BY <1>2, <2>1, <2>2 DEF Passed
  <2>3. CASE b < a
    <3>1. Same(nodes[b], nodes[a])
      BY <1>1, <2>1, SameEitherWay
    <3> QED
      BY <1>2, <2>1, <2>3, <3>1 DEF Passed
  <2>4. CASE a = b
    BY <2>1, <2>4
  <2> QED
    BY <1>1, <2>1, <2>2, <2>3, <2>4
<1>5. ASSUME NEW j \in C, NEW S \in SUBSET (1 .. N), k \in S, Whole(nodes, S) PROVE j \in S
  BY <1>1, <1>2, <1>5 DEF Passed
<1>6. ClassOf(nodes, k) = C
  <2>1. k \in C /\ C \in SUBSET (1 .. N)
    BY <1>1
  <2> HIDE DEF C
  <2> QED
    BY <1>1, <1>4, <1>5, <2>1 DEF ClassOf
<1>7. Min(C) = q[k]
  <2>1. C \in SUBSET Nat /\ q[k] \in C
    BY <1>1, <1>3
  <2>2. \A j \in C : q[k] <= j
    BY <1>3
  <2> HIDE DEF C
  <2> QED
    BY <2>1, <2>2, MinIs
<1> QED
  BY <1>1, <1>2, <1>6, <1>7

\* No pass changes the recipe, so what a merge labels is what the recipe
\* began with.
LEMMA RecipeStays == Spec => [](recipe \in Recipes)
<1>1. Init => recipe \in Recipes
  BY DEF Init
<1>2. ASSUME recipe \in Recipes, [Next]_vars PROVE (recipe \in Recipes)'
  BY <1>2 DEF Next, vars, Open, Meet, MergeAll, Section, Place, RealiseAll, SplitAll, SelectPieces,
     Group, Order, Assemble, Continue, Ended
<1> QED
  BY <1>1, <1>2, PTL DEF Spec

\* The section vertices of every boolean are the classes of "the same within
\* a tolerance" (components, pave.rs), whatever recipes there are.
THEOREM SectionVerticesAreClasses == Spec => []ComponentsAreClasses
<1>1. ASSUME recipe \in Recipes PROVE ComponentsAreClasses
  <2> SUFFICES ASSUME NEW nodes \in recipe.nodes, NEW k \in DOMAIN nodes
               PROVE  Components(nodes)[k] = Min(ClassOf(nodes, k))
    BY DEF ComponentsAreClasses
  <2>1. nodes \in Seq(Candidate)
    BY <1>1, BooleanAssumption
  <2> QED
    BY <2>1, ComponentsLabelClasses
<1> QED
  BY <1>1, RecipeStays, PTL
=============================================================================
