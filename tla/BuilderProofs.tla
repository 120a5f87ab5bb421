--------------------------- MODULE BuilderProofs ---------------------------
(***************************************************************************)
(* The promises of the builder, for any number of vertices, edges and      *)
(* faces and any sequence of Euler operators.                              *)
(***************************************************************************)
EXTENDS Builder

-----------------------------------------------------------------------------
(***************************************************************************)
(* Pools: a slot is live or on the stack of freed ones, there once.        *)
(***************************************************************************)

IsPool(p) ==
    /\ p \in [len : Nat, at : {p.at}, free : Seq(Nat)]
    /\ p.at = [i \in DOMAIN p.at |-> p.at[i]]
    /\ \A i \in Nat : i \in LiveSlots(p) \/ (\E k \in 1 .. Len(p.free) : p.free[k] = i)
                        <=> i < p.len
    /\ LiveSlots(p) \subseteq Nat
    /\ \A k \in 1 .. Len(p.free) : p.free[k] \notin LiveSlots(p)
    /\ \A j, k \in 1 .. Len(p.free) : p.free[j] = p.free[k] => j = k

LEMMA EmptyPoolIsPool == IsPool(EmptyPool) /\ LiveSlots(EmptyPool) = {}
BY DEF EmptyPool, IsPool, LiveSlots

LEMMA LiveIsFinite ==
    ASSUME NEW p, IsPool(p)
    PROVE  /\ IsFiniteSet(LiveSlots(p))
           /\ Cardinality(LiveSlots(p)) \in Nat
           /\ LiveSlots(p) \subseteq Nat
<1>1. p.len \in Nat /\ LiveSlots(p) \subseteq 0 .. (p.len - 1)
  BY DEF IsPool
<1>2. IsFiniteSet(0 .. (p.len - 1))
  BY <1>1, FS_Interval
<1>3. IsFiniteSet(LiveSlots(p))
  BY <1>1, <1>2, FS_Subset
<1> QED
  BY <1>1, <1>3, FS_CardinalityType

LEMMA PoolsAreOK == ASSUME NEW p, IsPool(p) PROVE PoolOK(p)
<1>1. ToSet(p.free) = {p.free[k] : k \in 1 .. Len(p.free)}
  BY DEF IsPool, ToSet
<1>2. LiveSlots(p) \cap ToSet(p.free) = {}
  BY <1>1 DEF IsPool
<1>3. LiveSlots(p) \cup ToSet(p.free) = 0 .. (p.len - 1)
  BY <1>1 DEF IsPool
<1>4. Cardinality(ToSet(p.free)) = Len(p.free)
  <2>1. Len(p.free) \in Nat /\ p.free \in [1 .. Len(p.free) -> ToSet(p.free)]
    BY <1>1 DEF IsPool
  <2>2. p.free \in Bijection(1 .. Len(p.free), ToSet(p.free))
    <3>1. p.free \in Injection(1 .. Len(p.free), ToSet(p.free))
      BY <2>1, Fun_IsInj DEF IsPool
    <3>2. p.free \in Surjection(1 .. Len(p.free), ToSet(p.free))
      BY <1>1, <2>1, Fun_IsSurj
    <3> QED
      BY <3>1, <3>2, Fun_IsBij, <2>1 DEF Bijection
  <2>3. ASSUME NEW n \in Nat PROVE IsFiniteSet(1 .. n) /\ Cardinality(1 .. n) = n
    BY FS_Interval
  <2>4. IsFiniteSet(1 .. Len(p.free)) /\ Cardinality(1 .. Len(p.free)) = Len(p.free)
    BY <2>1, <2>3
  <2> QED
    BY <2>2, <2>4, FS_Bijection DEF ExistsBijection
<1> QED
  BY <1>2, <1>3, <1>4 DEF PoolOK

\* A piece of a sequence.
LEMMA PieceIs ==
    ASSUME NEW S, NEW s \in Seq(S), NEW i \in Nat, NEW j \in Nat, i >= 1, j <= Len(s)
    PROVE  /\ SubSeq(s, i, j) \in Seq(S)
           /\ Len(SubSeq(s, i, j)) = IF i <= j THEN j - i + 1 ELSE 0
           /\ \A k \in 1 .. (j - i + 1) : SubSeq(s, i, j)[k] = s[i + k - 1]
<1>1. \A k \in i .. j : s[k] \in S
  OBVIOUS
<1> QED
  BY <1>1, SubSeqProperties

LEMMA FillPool ==
    ASSUME NEW p, IsPool(p), NEW x
    PROVE  LET q == Fill(p, x) IN
           /\ IsPool(q)
           /\ NewSlot(p) \in Nat /\ NewSlot(p) \notin LiveSlots(p)
           /\ LiveSlots(q) = LiveSlots(p) \cup {NewSlot(p)}
           /\ q.at[NewSlot(p)] = x
           /\ \A j \in LiveSlots(p) : q.at[j] = p.at[j]
<1> DEFINE q == Fill(p, x)
           n == NewSlot(p)
<1>1. CASE p.free = <<>>
  <2>1. n = p.len /\ n \in Nat /\ n \notin LiveSlots(p)
    BY <1>1 DEF IsPool, NewSlot
  <2>2. /\ q.len = p.len + 1 /\ q.free = <<>>
        /\ q.at = [j \in LiveSlots(p) \cup {n} |-> IF j = n THEN x ELSE p.at[j]]
        /\ q \in [len : Nat, at : {q.at}, free : Seq(Nat)]
    <3>1. p.len \in Nat
      BY DEF IsPool
    <3> QED
      BY <1>1, <3>1 DEF Fill
  <2>3. LiveSlots(q) = LiveSlots(p) \cup {n}
    BY <2>2 DEF LiveSlots
  <2> HIDE DEF q, n
  <2>4. IsPool(q)
    BY <1>1, <2>1, <2>2, <2>3 DEF IsPool
  <2> QED
    BY <2>1, <2>2, <2>3, <2>4 DEF q, n
<1>2. CASE p.free # <<>>
  <2> DEFINE L == Len(p.free)
  <2>1. /\ L \in Nat \ {0} /\ n = p.free[L] /\ n \in Nat /\ n \notin LiveSlots(p)
        /\ n < p.len
    BY <1>2 DEF IsPool, NewSlot, Last
  <2>2. /\ q.len = p.len /\ q.free = Front(p.free)
        /\ q.at = [j \in LiveSlots(p) \cup {n} |-> IF j = n THEN x ELSE p.at[j]]
        /\ q \in [len : Nat, at : {q.at}, free : Seq(Nat)]
    <3>1. p.len \in Nat /\ Front(p.free) \in Seq(Nat)
      BY <2>1 DEF IsPool, Front
    <3> QED
      BY <1>2, <3>1 DEF Fill
  <2>3. LiveSlots(q) = LiveSlots(p) \cup {n}
    BY <2>2 DEF LiveSlots
  <2>4. /\ q.free \in Seq(Nat) /\ Len(q.free) = L - 1
        /\ \A k \in 1 .. (L - 1) : q.free[k] = p.free[k]
    <3>1. p.free \in Seq(Nat)
      BY DEF IsPool
    <3>2. q.free = SubSeq(p.free, 1, L - 1)
      BY <2>2 DEF Front
    <3> DEFINE m == L - 1
    <3>3. m \in Nat /\ m <= L /\ 1 \in Nat
      BY <2>1
    <3> HIDE DEF q, m
    <3>4. /\ SubSeq(p.free, 1, m) \in Seq(Nat)
          /\ Len(SubSeq(p.free, 1, m)) = m
          /\ \A k \in 1 .. m : SubSeq(p.free, 1, m)[k] = p.free[k]
      BY <3>1, <3>3
    <3> QED
      BY <3>2, <3>4 DEF m
  <2> HIDE DEF q, n
  <2>5. \A j, k \in 1 .. L : p.free[j] = p.free[k] => j = k
    BY DEF IsPool
  <2>6. \A i \in Nat : i \in LiveSlots(q) \/ (\E k \in 1 .. Len(q.free) : q.free[k] = i)
                         <=> i < q.len
    <3> TAKE i \in Nat
    <3>1. CASE i = n
      BY <2>1, <2>2, <2>3, <3>1
    <3>2. CASE i # n
      <4>1. i \in LiveSlots(q) <=> i \in LiveSlots(p)
        BY <2>3, <3>2
      <4>2. ASSUME NEW k \in 1 .. (L - 1), q.free[k] = i
            PROVE  \E h \in 1 .. L : p.free[h] = i
        <5>1. k \in 1 .. L
          BY <2>1
        <5>2. p.free[k] = i
          BY <2>4, <4>2
        <5> WITNESS k \in 1 .. L
        <5> QED
          BY <5>2
      <4>3. ASSUME NEW k \in 1 .. L, p.free[k] = i
            PROVE  \E h \in 1 .. (L - 1) : q.free[h] = i
        <5>1. k \in 1 .. (L - 1)
          BY <2>1, <3>2, <4>3
        <5>2. q.free[k] = i
          BY <2>4, <4>3, <5>1
        <5> WITNESS k \in 1 .. (L - 1)
        <5> QED
          BY <5>2
      <4>4. i \in LiveSlots(p) \/ (\E k \in 1 .. L : p.free[k] = i) <=> i < p.len
        BY DEF IsPool
      <4> QED
        BY <2>2, <2>4, <4>1, <4>2, <4>3, <4>4
    <3> QED
      BY <3>1, <3>2
  <2>7. /\ \A k \in 1 .. Len(q.free) : q.free[k] \notin LiveSlots(q)
        /\ \A j, k \in 1 .. Len(q.free) : q.free[j] = q.free[k] => j = k
    <3>1. \A k \in 1 .. L : p.free[k] \notin LiveSlots(p)
      BY DEF IsPool
    <3>2. \A k \in 1 .. (L - 1) : k \in 1 .. L /\ k # L /\ L \in 1 .. L
      BY <2>1
    <3>4. \A k \in 1 .. (L - 1) : q.free[k] # n /\ q.free[k] \notin LiveSlots(p)
      BY <2>1, <2>4, <2>5, <3>1, <3>2
    <3>3. \A j, k \in 1 .. (L - 1) : q.free[j] = q.free[k] => j = k
      BY <2>4, <2>5, <3>2
    <3> QED
      BY <2>3, <2>4, <3>3, <3>4
  <2>8. q.len \in Nat /\ LiveSlots(q) \subseteq Nat /\ q.at = [i \in DOMAIN q.at |-> q.at[i]]
    BY <2>1, <2>2, <2>3 DEF IsPool
  <2>9. IsPool(q)
    BY <2>2, <2>4, <2>6, <2>7, <2>8 DEF IsPool
  <2> QED
    BY <2>1, <2>2, <2>3, <2>9 DEF q, n
<1> QED
  BY <1>1, <1>2

LEMMA VacatePool ==
    ASSUME NEW p, IsPool(p), NEW i \in LiveSlots(p)
    PROVE  LET q == Vacate(p, i) IN
           /\ IsPool(q)
           /\ LiveSlots(q) = LiveSlots(p) \ {i}
           /\ \A j \in LiveSlots(q) : q.at[j] = p.at[j]
<1> DEFINE q == Vacate(p, i)
           L == Len(p.free)
<1>1. /\ q.len = p.len /\ q.free = Append(p.free, i)
      /\ q.at = [j \in LiveSlots(p) \ {i} |-> p.at[j]]
      /\ q \in [len : Nat, at : {q.at}, free : Seq(Nat)]
  <2>1. p \in [len : Nat, at : {p.at}, free : Seq(Nat)] /\ i \in Nat
    BY DEF IsPool
  <2>2. Append(p.free, i) \in Seq(Nat)
    BY <2>1
  <2> QED
    BY <2>1, <2>2 DEF Vacate
<1>2. LiveSlots(q) = LiveSlots(p) \ {i}
  BY <1>1 DEF LiveSlots
<1>3. i \in Nat /\ L \in Nat
  BY DEF IsPool
<1>4. /\ q.free \in Seq(Nat) /\ Len(q.free) = L + 1
      /\ \A k \in 1 .. L : q.free[k] = p.free[k] /\ q.free[k] # i
      /\ q.free[L + 1] = i
  BY <1>1, <1>3 DEF IsPool
<1> HIDE DEF q
<1>5. \A j \in Nat : j \in LiveSlots(q) \/ (\E k \in 1 .. Len(q.free) : q.free[k] = j)
                       <=> j < q.len
  <2> TAKE j \in Nat
  <2>1. CASE j = i
    BY <1>1, <1>3, <1>4, <2>1 DEF IsPool
  <2>2. CASE j # i
    <3>1. ASSUME NEW k \in 1 .. (L + 1), q.free[k] = j
          PROVE  \E h \in 1 .. L : p.free[h] = j
      <4>1. k \in 1 .. L
        BY <1>3, <1>4, <2>2, <3>1
      <4> QED
        BY <1>4, <3>1, <4>1
    <3>2. ASSUME NEW k \in 1 .. L, p.free[k] = j
          PROVE  \E h \in 1 .. (L + 1) : q.free[h] = j
      <4>1. k \in 1 .. (L + 1)
        BY <1>3
      <4>2. q.free[k] = j
        BY <1>4, <3>2
      <4> WITNESS k \in 1 .. (L + 1)
      <4> QED
        BY <4>2
    <3>3. j \in LiveSlots(p) \/ (\E k \in 1 .. L : p.free[k] = j) <=> j < p.len
      BY DEF IsPool
    <3> QED
      BY <1>1, <1>2, <1>4, <2>2, <3>1, <3>2, <3>3
  <2> QED
    BY <2>1, <2>2
<1>6. \A j, k \in 1 .. Len(q.free) : q.free[j] = q.free[k] => j = k
  <2>1. \A j, k \in 1 .. L : p.free[j] = p.free[k] => j = k
    BY DEF IsPool
  <2> SUFFICES ASSUME NEW j \in 1 .. (L + 1), NEW k \in 1 .. (L + 1), q.free[j] = q.free[k]
               PROVE  j = k
    BY <1>4
  <2>2. (j \in 1 .. L \/ j = L + 1) /\ (k \in 1 .. L \/ k = L + 1)
    BY <1>3
  <2> QED
    BY <1>4, <2>1, <2>2
<1>7. IsPool(q)
  <2>1. \A k \in 1 .. Len(q.free) : q.free[k] \notin LiveSlots(q)
    <3>1. \A k \in 1 .. L : p.free[k] \notin LiveSlots(p)
      BY DEF IsPool
    <3>2. \A k \in 1 .. (L + 1) : k \in 1 .. L \/ k = L + 1
      BY <1>3
    <3> QED
      BY <1>2, <1>4, <3>1, <3>2
  <2>2. q.len \in Nat /\ LiveSlots(q) \subseteq Nat /\ q.at = [j \in DOMAIN q.at |-> q.at[j]]
    BY <1>1, <1>2 DEF IsPool
  <2> QED
    BY <1>1, <1>4, <1>5, <1>6, <2>1, <2>2 DEF IsPool
<1> QED
  BY <1>1, <1>2, <1>7 DEF q

-----------------------------------------------------------------------------
(***************************************************************************)
(* Loops over a set of edges E and of vertices V, and their canonical      *)
(* form: the same loops in some order, each turned.                        *)
(***************************************************************************)

\* Every pcurve a use may have been given.
Pcs == Pcurves \cup {s.pcs[k] : s \in Struts \cup Splits \cup Joins, k \in {1, 2}}
UsesOn(E) == [edge : E, dir : {FORWARD, REVERSED}, pc : Pcs]
LoopsOn(E, V) ==
    {l \in [uses : Seq(UsesOn(E)), seed : Nat] : l.uses = <<>> => l.seed \in V}

\* The place k steps on from place j of a loop of n uses.
Wrap(j, n) == IF j > n THEN j - n ELSE j

LEMMA RotateToIs ==
    ASSUME NEW S, NEW s \in Seq(S), NEW k \in 1 .. Len(s)
    PROVE  /\ RotateTo(s, k) \in Seq(S)
           /\ Len(RotateTo(s, k)) = Len(s)
           /\ \A i \in 1 .. Len(s) : RotateTo(s, k)[i] = s[Wrap(i + k - 1, Len(s))]
<1> DEFINE n == Len(s)
           p == SubSeq(s, k, n)
           q == SubSeq(s, 1, k - 1)
<1>1. n \in Nat /\ k \in Nat /\ k >= 1 /\ k <= n
  OBVIOUS
<1>2. /\ p \in Seq(S) /\ Len(p) = n - k + 1
      /\ \A i \in 1 .. (n - k + 1) : p[i] = s[i + k - 1]
  BY <1>1
<1>3. /\ q \in Seq(S) /\ Len(q) = k - 1
      /\ \A i \in 1 .. (k - 1) : q[i] = s[i]
  BY <1>1
<1>4. RotateTo(s, k) = p \o q
  BY DEF RotateTo
<1> HIDE DEF p, q, n
<1>5. /\ p \o q \in Seq(S) /\ Len(p \o q) = n
      /\ \A i \in 1 .. n : (p \o q)[i] = IF i <= n - k + 1 THEN p[i] ELSE q[i - (n - k + 1)]
  <2>1. /\ p \o q \in Seq(S) /\ Len(p \o q) = Len(p) + Len(q)
        /\ \A i \in 1 .. Len(p) + Len(q) :
             (p \o q)[i] = IF i <= Len(p) THEN p[i] ELSE q[i - Len(p)]
    BY <1>2, <1>3, ConcatProperties
  <2>2. Len(p) + Len(q) = n
    BY <1>1, <1>2, <1>3
  <2> QED
    BY <1>2, <2>1, <2>2
<1>6. ASSUME NEW i \in 1 .. n
      PROVE  (p \o q)[i] = s[Wrap(i + k - 1, n)]
  <2>0. i \in Nat /\ i >= 1 /\ i <= n /\ n - k + 1 \in Nat
    BY <1>1
  <2>1. CASE i <= n - k + 1
    BY <1>1, <1>2, <1>5, <2>1 DEF Wrap
  <2>2. CASE ~ (i <= n - k + 1)
    <3>1. i - (n - k + 1) \in 1 .. (k - 1) /\ i - (n - k + 1) = Wrap(i + k - 1, n)
      BY <1>1, <2>0, <2>2 DEF Wrap
    <3>2. (p \o q)[i] = q[i - (n - k + 1)]
      BY <1>5, <2>2
    <3> QED
      BY <1>3, <3>1, <3>2
  <2> QED
    BY <1>1, <2>1, <2>2
<1> QED
  BY <1>4, <1>5, <1>6 DEF n

LEMMA KeyIsNat ==
    ASSUME NEW E \in SUBSET Nat, NEW u \in UsesOn(E)
    PROVE  Key(u) \in Nat
<1>1. u.edge \in Nat /\ u.dir \in {0, 1}
  BY DEF UsesOn, FORWARD, REVERSED
<1> QED
  BY <1>1 DEF Key

LEMMA RotatedIs ==
    ASSUME NEW E \in SUBSET Nat, NEW s \in Seq(UsesOn(E))
    PROVE  /\ s = <<>> => Rotated(s) = <<>>
           /\ s # <<>> => \E k \in 1 .. Len(s) : Rotated(s) = RotateTo(s, k)
<1>1. CASE s = <<>>
  BY <1>1 DEF Rotated
<1>2. CASE s # <<>>
  <2> DEFINE Keys == {Key(s[k]) : k \in DOMAIN s}
             best(k) == \A j \in DOMAIN s : Key(s[k]) <= Key(s[j])
  <2>1. \A k \in DOMAIN s : Key(s[k]) \in Nat
    BY KeyIsNat
  <2>2. Keys \in SUBSET Nat /\ Keys # {}
    BY <1>2, <2>1
  <2>3. \E i \in Keys : \A j \in Keys : i <= j
    BY <2>2, LeastOfNats
  <2>4. \E k \in DOMAIN s : best(k)
    BY <2>3
  <2>5. (CHOOSE k \in DOMAIN s : best(k)) \in DOMAIN s
    <3> HIDE DEF best
    <3> QED
      BY <2>4
  <2>6. Rotated(s) = RotateTo(s, CHOOSE k \in DOMAIN s : best(k))
    BY <1>2 DEF Rotated
  <2>7. DOMAIN s = 1 .. Len(s)
    OBVIOUS
  <2> HIDE DEF best
  <2> QED
    BY <1>2, <2>5, <2>6, <2>7
<1> QED
  BY <1>1, <1>2

\* A loop turned to its lowest use is a loop of as many uses.
LEMMA TurnedIs ==
    ASSUME NEW E \in SUBSET Nat, NEW V \in SUBSET Nat, NEW l \in LoopsOn(E, V)
    PROVE  /\ Rotated(l.uses) \in Seq(UsesOn(E)) /\ Len(Rotated(l.uses)) = Len(l.uses)
           /\ Rotated(l.uses) = <<>> <=> l.uses = <<>>
           /\ Loop(Rotated(l.uses), l.seed) \in LoopsOn(E, V)
<1>1. l.uses \in Seq(UsesOn(E)) /\ l.seed \in Nat /\ (l.uses = <<>> => l.seed \in V)
  BY DEF LoopsOn
<1>2. Rotated(l.uses) \in Seq(UsesOn(E)) /\ Len(Rotated(l.uses)) = Len(l.uses)
  <2>1. CASE l.uses = <<>>
    BY <1>1, <2>1, RotatedIs
  <2>2. CASE l.uses # <<>>
    BY <1>1, <2>2, RotatedIs, RotateToIs
  <2> QED
    BY <2>1, <2>2
<1>3. Rotated(l.uses) = <<>> <=> l.uses = <<>>
  BY <1>1, <1>2
<1> QED
  BY <1>1, <1>2, <1>3 DEF Loop, LoopsOn

LEMMA CanonicalIs ==
    ASSUME NEW E \in SUBSET Nat, NEW V \in SUBSET Nat, NEW ls \in Seq(LoopsOn(E, V))
    PROVE  /\ CanonicalLoops(ls) \in Seq(LoopsOn(E, V))
           /\ Len(CanonicalLoops(ls)) = Len(ls)
           /\ \E r \in Bijection(1 .. Len(ls), 1 .. Len(ls)) : \A n \in 1 .. Len(ls) :
                CanonicalLoops(ls)[n] = Loop(Rotated(ls[r[n]].uses), ls[r[n]].seed)
<1> DEFINE N == Len(ls)
           c == [k \in DOMAIN ls |-> Loop(Rotated(ls[k].uses), ls[k].seed)]
           R == {Rank(c[k], k) : k \in DOMAIN ls}
           o == InOrder(R)
<1>1. N \in Nat /\ DOMAIN ls = 1 .. N /\ \A k \in 1 .. N : ls[k] \in LoopsOn(E, V)
  OBVIOUS
<1>2. \A k \in 1 .. N : c[k] \in LoopsOn(E, V)
  BY <1>1, TurnedIs
<1> HIDE DEF c
<1>3. ASSUME NEW k \in 1 .. N
      PROVE  Rank(c[k], k) \in Triples /\ Rank(c[k], k)[3] = k
  <2>1. c[k].uses \in Seq(UsesOn(E)) /\ c[k].seed \in Nat
    BY <1>2 DEF LoopsOn
  <2>2. k \in Nat
    BY <1>1
  <2>3. CASE c[k].uses = <<>>
    BY <2>1, <2>2, <2>3 DEF Rank, Triples
  <2>4. CASE c[k].uses # <<>>
    <3>1. c[k].uses[1] \in UsesOn(E)
      BY <2>1, <2>4
    <3>2. Key(c[k].uses[1]) \in Nat
      BY <3>1, KeyIsNat
    <3> QED
      BY <2>2, <2>4, <3>2 DEF Rank, Triples
  <2> QED
    BY <2>3, <2>4
<1>4. R \in SUBSET Triples
  BY <1>1, <1>3
<1>5. [k \in 1 .. N |-> Rank(c[k], k)] \in Bijection(1 .. N, R)
  <2> DEFINE g == [k \in 1 .. N |-> Rank(c[k], k)]
  <2>1. g \in [1 .. N -> R]
    BY <1>1
  <2>2. \A j, k \in 1 .. N : g[j] = g[k] => j = k
    BY <1>3
  <2>3. \A t \in R : \E k \in 1 .. N : g[k] = t
    BY <1>1
  <2> HIDE DEF g, R
  <2>4. g \in Injection(1 .. N, R) /\ g \in Surjection(1 .. N, R)
    BY <2>1, <2>2, <2>3, Fun_IsInj, Fun_IsSurj
  <2> QED
    BY <2>4 DEF Bijection, g
<1>6. IsFiniteSet(R) /\ Cardinality(R) = N
  <2>1. ASSUME NEW n \in Nat PROVE IsFiniteSet(1 .. n) /\ Cardinality(1 .. n) = n
    BY FS_Interval
  <2>2. ExistsBijection(1 .. N, R)
    BY <1>5 DEF ExistsBijection
  <2> HIDE DEF R
  <2> QED
    BY <1>1, <2>1, <2>2, FS_Bijection
<1>7. Enumerates(o, R) /\ Len(o) = N
  BY <1>4, <1>6, InOrderEnumerates
<1>8. CanonicalLoops(ls) = [n \in DOMAIN o |-> c[o[n][3]]]
  BY DEF CanonicalLoops, c
<1> DEFINE r == [n \in 1 .. N |-> o[n][3]]
<1>9. DOMAIN o = 1 .. N /\ \A n \in 1 .. N : o[n] \in R
  <2> HIDE DEF o, R
  <2> QED
    BY <1>7 DEF Enumerates
<1>10. \A n \in 1 .. N : o[n][3] \in 1 .. N /\ o[n] = Rank(c[o[n][3]], o[n][3])
  <2> TAKE n \in 1 .. N
  <2>1. PICK k \in 1 .. N : o[n] = Rank(c[k], k)
    BY <1>1, <1>9
  <2> QED
    BY <1>3, <2>1
<1>11. r \in Bijection(1 .. N, 1 .. N)
  <2>1. r \in [1 .. N -> 1 .. N]
    BY <1>10
  <2>2. \A i, j \in 1 .. N : r[i] = r[j] => i = j
    <3> SUFFICES ASSUME NEW i \in 1 .. N, NEW j \in 1 .. N, o[i][3] = o[j][3]
                 PROVE  i = j
      OBVIOUS
    <3>1. o[i] = o[j]
      BY <1>10
    <3> QED
      BY <1>7, <3>1 DEF Enumerates
  <2>3. ASSUME NEW k \in 1 .. N PROVE \E n \in 1 .. N : r[n] = k
    <3>1. Rank(c[k], k) \in R
      BY <1>1
    <3>2. PICK n \in 1 .. N : o[n] = Rank(c[k], k)
      BY <1>7, <3>1 DEF Enumerates
    <3> QED
      BY <1>3, <3>2
  <2> HIDE DEF r
  <2>4. r \in Injection(1 .. N, 1 .. N) /\ r \in Surjection(1 .. N, 1 .. N)
    BY <2>1, <2>2, <2>3, Fun_IsInj, Fun_IsSurj
  <2> QED
    BY <2>4 DEF Bijection
<1>12. CanonicalLoops(ls) = [n \in 1 .. N |-> c[r[n]]]
  BY <1>8, <1>9
<1>13. \A n \in 1 .. N : r[n] \in 1 .. N
  BY <1>10
<1> HIDE DEF r, o, R
<1>14. CanonicalLoops(ls) \in Seq(LoopsOn(E, V)) /\ Len(CanonicalLoops(ls)) = N
  <2>1. [n \in 1 .. N |-> c[r[n]]] \in [1 .. N -> LoopsOn(E, V)]
    BY <1>2, <1>13
  <2> QED
    BY <1>1, <1>12, <2>1
<1>15. \A n \in 1 .. N : CanonicalLoops(ls)[n] = Loop(Rotated(ls[r[n]].uses), ls[r[n]].seed)
  BY <1>1, <1>12, <1>13 DEF c
<1> QED
  BY <1>11, <1>14, <1>15

-----------------------------------------------------------------------------
(***************************************************************************)
(* A builder whose references are live, and what SetLoops does to it.      *)
(***************************************************************************)

IsFace(face, E, V) ==
    /\ face \in [surf : {face.surf}, dir : {face.dir}, shell : {0},
                 kept : {face.kept}, loops : Seq(LoopsOn(E, V))]
    /\ face.loops # <<>>

Record(x) == x \in [v : {x.v}, e : {x.e}, f : {x.f}, genus : {x.genus}]

Sound(x) ==
    /\ Record(x) /\ x.genus \in Nat
    /\ IsPool(x.v) /\ IsPool(x.e) /\ IsPool(x.f)
    /\ \A e \in LiveSlots(x.e) : /\ x.e.at[e].start \in LiveSlots(x.v)
                                 /\ x.e.at[e].end \in LiveSlots(x.v)
    /\ \A f \in LiveSlots(x.f) : IsFace(x.f.at[f], LiveSlots(x.e), LiveSlots(x.v))

LEMMA FaceEdited ==
    ASSUME NEW r, NEW c,
           r \in [surf : {r.surf}, dir : {r.dir}, shell : {r.shell}, kept : {r.kept},
                  loops : {r.loops}]
    PROVE  [r EXCEPT !.loops = c, !.kept = 0] =
              [surf |-> r.surf, dir |-> r.dir, shell |-> r.shell, kept |-> 0, loops |-> c]
<1> DEFINE q == [r EXCEPT !.loops = c, !.kept = 0]
<1>1. q \in [surf : {r.surf}, dir : {r.dir}, shell : {r.shell}, kept : {0}, loops : {c}]
  OBVIOUS
<1> HIDE DEF q
<1>2. q = [surf |-> r.surf, dir |-> r.dir, shell |-> r.shell, kept |-> 0, loops |-> c]
  BY <1>1
<1> QED
  BY <1>2, Zenon DEF q

LEMMA SetLoopsIs ==
    ASSUME NEW x, Record(x), IsPool(x.f), NEW f \in LiveSlots(x.f), NEW ls,
           x.f.at[f] \in [surf : {x.f.at[f].surf}, dir : {x.f.at[f].dir},
                          shell : {x.f.at[f].shell}, kept : {x.f.at[f].kept},
                          loops : {x.f.at[f].loops}]
    PROVE  LET y == SetLoops(x, f, ls) IN
           /\ Record(y) /\ y.v = x.v /\ y.e = x.e /\ y.genus = x.genus
           /\ IsPool(y.f) /\ LiveSlots(y.f) = LiveSlots(x.f)
           /\ y.f.at[f] = [surf |-> x.f.at[f].surf, dir |-> x.f.at[f].dir,
                           shell |-> x.f.at[f].shell, kept |-> 0,
                           loops |-> CanonicalLoops(ls)]
           /\ \A g \in LiveSlots(x.f) : g # f => y.f.at[g] = x.f.at[g]
<1> DEFINE y == SetLoops(x, f, ls)
           c == CanonicalLoops(ls)
           face == [surf |-> x.f.at[f].surf, dir |-> x.f.at[f].dir,
                    shell |-> x.f.at[f].shell, kept |-> 0, loops |-> c]
           at == [g \in LiveSlots(x.f) |-> IF g = f THEN face ELSE x.f.at[g]]
           pool == [len |-> x.f.len, at |-> at, free |-> x.f.free]
<1>1. x.f \in [len : Nat, at : {x.f.at}, free : Seq(Nat)]
  BY DEF IsPool
<1>2. x.f.at = [i \in DOMAIN x.f.at |-> x.f.at[i]]
  BY DEF IsPool
<1>3. y = [v |-> x.v, e |-> x.e, f |-> pool, genus |-> x.genus]
  <2>1. [x.f.at[f] EXCEPT !.loops = c, !.kept = 0] = face
    BY FaceEdited
  <2> HIDE DEF face
  <2>2. [x.f.at EXCEPT ![f] = face] = at
    BY <1>2 DEF LiveSlots
  <2> HIDE DEF at
  <2>3. [x.f EXCEPT !.at = at] = pool
    BY <1>1
  <2> HIDE DEF pool
  <2>4. [x EXCEPT !.f = pool] = [v |-> x.v, e |-> x.e, f |-> pool, genus |-> x.genus]
    BY DEF Record
  <2>5. y = [x EXCEPT !.f = [x.f EXCEPT !.at = [x.f.at EXCEPT ![f] =
                [x.f.at[f] EXCEPT !.loops = c, !.kept = 0]]]]
    BY <1>1, <1>2 DEF SetLoops, Record, LiveSlots
  <2> QED
    BY <2>1, <2>2, <2>3, <2>4, <2>5
<1>4. LiveSlots(pool) = LiveSlots(x.f)
  BY DEF LiveSlots
<1> HIDE DEF at
<1>5. at = [g \in DOMAIN at |-> at[g]]
  BY DEF at
<1>6. IsPool(pool)
  BY <1>1, <1>4, <1>5 DEF IsPool
<1>7. at[f] = face /\ \A g \in LiveSlots(x.f) : g # f => at[g] = x.f.at[g]
  BY DEF at
<1> HIDE DEF y, c
<1> QED
  BY <1>3, <1>4, <1>6, <1>7 DEF y, c, Record

-----------------------------------------------------------------------------
(***************************************************************************)
(* The loops of a builder and its uses.                                    *)
(***************************************************************************)

LEMMA FiniteUnion ==
    ASSUME NEW S, IsFiniteSet(S), NEW g, DOMAIN g = S, \A x \in S : IsFiniteSet(g[x])
    PROVE  IsFiniteSet(UNION {g[x] : x \in S})
<1> DEFINE T == {g[x] : x \in S}
           h == [x \in S |-> g[x]]
<1>1. h \in Surjection(S, T)
  <2>1. h \in [S -> T] /\ \A t \in T : \E x \in S : h[x] = t
    OBVIOUS
  <2> HIDE DEF h, T
  <2> QED
    BY <2>1, Fun_IsSurj
<1>2. \A t \in T : IsFiniteSet(t)
  OBVIOUS
<1> HIDE DEF T, h
<1>3. IsFiniteSet(T)
  BY <1>1, FS_Surjection
<1> QED
  BY <1>2, <1>3, FS_UNION DEF T

LEMMA FiniteImage ==
    ASSUME NEW S, IsFiniteSet(S), NEW g, DOMAIN g = S
    PROVE  IsFiniteSet({g[x] : x \in S})
<1> DEFINE T == {g[x] : x \in S}
           h == [x \in S |-> g[x]]
<1>1. h \in [S -> T] /\ \A t \in T : \E x \in S : h[x] = t
  OBVIOUS
<1> HIDE DEF h, T
<1>2. h \in Surjection(S, T)
  BY <1>1, Fun_IsSurj
<1> QED
  BY <1>2, FS_Surjection DEF T

LEMMA LoopsOfFace ==
    ASSUME NEW x, Sound(x), NEW f \in LiveSlots(x.f)
    PROVE  /\ LoopsOf(x, f) \in Seq(LoopsOn(LiveSlots(x.e), LiveSlots(x.v)))
           /\ Len(LoopsOf(x, f)) \in Nat \ {0}
           /\ DOMAIN LoopsOf(x, f) = 1 .. Len(LoopsOf(x, f))
           /\ x.f.at[f].shell = 0
<1>1. IsFace(x.f.at[f], LiveSlots(x.e), LiveSlots(x.v))
  BY DEF Sound
<1>2. /\ x.f.at[f].loops \in Seq(LoopsOn(LiveSlots(x.e), LiveSlots(x.v)))
      /\ x.f.at[f].shell = 0 /\ x.f.at[f].loops # <<>>
  BY <1>1 DEF IsFace
<1> QED
  BY <1>2 DEF LoopsOf

LEMMA LoopsMembers ==
    ASSUME NEW x, Sound(x)
    PROVE  /\ \A f \in LiveSlots(x.f) : \A li \in 1 .. Len(LoopsOf(x, f)) :
                <<f, li>> \in AllLoops(x)
           /\ \A at \in AllLoops(x) : /\ at = <<at[1], at[2]>>
                                      /\ at[1] \in LiveSlots(x.f)
                                      /\ at[2] \in 1 .. Len(LoopsOf(x, at[1]))
BY LoopsOfFace DEF AllLoops

LEMMA LoopsAreFinite ==
    ASSUME NEW x, Sound(x)
    PROVE  IsFiniteSet(AllLoops(x)) /\ Cardinality(AllLoops(x)) \in Nat
<1> DEFINE F == LiveSlots(x.f)
           g == [f \in F |-> {<<f, li>> : li \in DOMAIN LoopsOf(x, f)}]
<1>1. IsFiniteSet(F)
  BY LiveIsFinite DEF Sound
<1>2. ASSUME NEW f \in F PROVE IsFiniteSet(g[f])
  <2> DEFINE N == Len(LoopsOf(x, f))
             h == [li \in 1 .. N |-> <<f, li>>]
  <2>1. N \in Nat
    BY LoopsOfFace
  <2>2. IsFiniteSet(1 .. N)
    BY <2>1, FS_Interval
  <2>3. g[f] = {h[li] : li \in 1 .. N}
    BY LoopsOfFace
  <2>4. DOMAIN h = 1 .. N
    OBVIOUS
  <2> HIDE DEF h, g, N
  <2>5. IsFiniteSet({h[li] : li \in 1 .. N})
    BY <2>2, <2>4, FiniteImage
  <2> QED
    BY <2>3, <2>5
<1>3. AllLoops(x) = UNION {g[f] : f \in F}
  BY DEF AllLoops
<1>4. DOMAIN g = F
  OBVIOUS
<1> HIDE DEF g
<1>5. IsFiniteSet(AllLoops(x))
  BY <1>1, <1>2, <1>3, <1>4, FiniteUnion
<1> QED
  BY <1>5, FS_CardinalityType

\* Loop li of face f.
UsesAt(x, f, li) == LoopsOf(x, f)[li].uses

LEMMA UsesTyped ==
    ASSUME NEW x, Sound(x), NEW f \in LiveSlots(x.f), NEW li \in 1 .. Len(LoopsOf(x, f))
    PROVE  /\ LoopsOf(x, f)[li] \in LoopsOn(LiveSlots(x.e), LiveSlots(x.v))
           /\ UsesAt(x, f, li) \in Seq(UsesOn(LiveSlots(x.e)))
           /\ Len(UsesAt(x, f, li)) \in Nat
           /\ DOMAIN UsesAt(x, f, li) = 1 .. Len(UsesAt(x, f, li))
           /\ \A ci \in 1 .. Len(UsesAt(x, f, li)) :
                /\ UsesAt(x, f, li)[ci].edge \in LiveSlots(x.e)
                /\ UsesAt(x, f, li)[ci].dir \in {FORWARD, REVERSED}
           /\ LoopsOf(x, f)[li].seed \in Nat
           /\ UsesAt(x, f, li) = <<>> => LoopsOf(x, f)[li].seed \in LiveSlots(x.v)
<1>1. LoopsOf(x, f)[li] \in LoopsOn(LiveSlots(x.e), LiveSlots(x.v))
  BY LoopsOfFace
<1>2. /\ UsesAt(x, f, li) \in Seq(UsesOn(LiveSlots(x.e)))
      /\ LoopsOf(x, f)[li].seed \in Nat
      /\ UsesAt(x, f, li) = <<>> => LoopsOf(x, f)[li].seed \in LiveSlots(x.v)
  BY <1>1 DEF LoopsOn, UsesAt
<1>3. /\ Len(UsesAt(x, f, li)) \in Nat
      /\ DOMAIN UsesAt(x, f, li) = 1 .. Len(UsesAt(x, f, li))
      /\ \A ci \in 1 .. Len(UsesAt(x, f, li)) : UsesAt(x, f, li)[ci] \in UsesOn(LiveSlots(x.e))
  BY <1>2
<1>4. \A u \in UsesOn(LiveSlots(x.e)) : u.edge \in LiveSlots(x.e) /\ u.dir \in {FORWARD, REVERSED}
  BY DEF UsesOn
<1> QED
  BY <1>1, <1>2, <1>3, <1>4

\* The k-th use of loop li of face f is of edge e in direction d.
IsUseAt(x, f, li, k, e, d) ==
    /\ f \in LiveSlots(x.f) /\ li \in 1 .. Len(LoopsOf(x, f))
    /\ k \in 1 .. Len(UsesAt(x, f, li))
    /\ UsesAt(x, f, li)[k].edge = e /\ UsesAt(x, f, li)[k].dir = d

Place(f, li, k, d) == [face |-> f, li |-> li, ci |-> k - 1, dir |-> d]

LEMMA PlacesOf ==
    ASSUME NEW x, Sound(x), NEW e
    PROVE  /\ \A f, li, k, d : IsUseAt(x, f, li, k, e, d) => Place(f, li, k, d) \in UsesOf(x, e)
           /\ \A w \in UsesOf(x, e) : \E f, li, k, d :
                IsUseAt(x, f, li, k, e, d) /\ w = Place(f, li, k, d)
<1> DEFINE uses(at) == LoopsOf(x, at[1])[at[2]].uses
           here(at) == {[face |-> at[1], li |-> at[2], ci |-> ci - 1, dir |-> uses(at)[ci].dir] :
                          ci \in {k \in DOMAIN uses(at) : uses(at)[k].edge = e}}
<1>1. UsesOf(x, e) = UNION {here(at) : at \in AllLoops(x)}
  BY DEF UsesOf
<1>2. ASSUME NEW f, NEW li, NEW k, NEW d, IsUseAt(x, f, li, k, e, d)
      PROVE  Place(f, li, k, d) \in UsesOf(x, e)
  <2>1. <<f, li>> \in AllLoops(x)
    BY <1>2, LoopsMembers DEF IsUseAt
  <2>2. k \in DOMAIN uses(<<f, li>>) /\ uses(<<f, li>>)[k].edge = e /\ uses(<<f, li>>)[k].dir = d
    BY <1>2, UsesTyped DEF IsUseAt, UsesAt
  <2>3. Place(f, li, k, d) \in here(<<f, li>>)
    BY <2>2 DEF Place
  <2> HIDE DEF here
  <2> QED
    BY <1>1, <2>1, <2>3
<1>3. ASSUME NEW w \in UsesOf(x, e)
      PROVE  \E f, li, k, d : IsUseAt(x, f, li, k, e, d) /\ w = Place(f, li, k, d)
  <2>1. PICK at \in AllLoops(x) : w \in here(at)
    BY <1>1
  <2>2. PICK k \in DOMAIN uses(at) :
            uses(at)[k].edge = e /\ w = Place(at[1], at[2], k, uses(at)[k].dir)
    BY <2>1 DEF Place
  <2>3. at[1] \in LiveSlots(x.f) /\ at[2] \in 1 .. Len(LoopsOf(x, at[1]))
    BY LoopsMembers
  <2>4. IsUseAt(x, at[1], at[2], k, e, uses(at)[k].dir)
    <3>1. UsesAt(x, at[1], at[2]) = uses(at)
      BY DEF UsesAt
    <3>2. DOMAIN uses(at) = 1 .. Len(uses(at))
      BY <2>3, <3>1, UsesTyped
    <3> HIDE DEF uses
    <3> QED
      BY <2>2, <2>3, <3>1, <3>2 DEF IsUseAt
  <2> QED
    BY <2>2, <2>4
<1> QED
  BY <1>2, <1>3

LEMMA UsesAreFinite ==
    ASSUME NEW x, Sound(x), NEW e
    PROVE  IsFiniteSet(UsesOf(x, e))
<1> DEFINE uses(at) == LoopsOf(x, at[1])[at[2]].uses
           places(at) == {k \in DOMAIN uses(at) : uses(at)[k].edge = e}
           here(at) == {[face |-> at[1], li |-> at[2], ci |-> ci - 1, dir |-> uses(at)[ci].dir] :
                          ci \in places(at)}
           g == [at \in AllLoops(x) |-> here(at)]
<1>1. UsesOf(x, e) = UNION {g[at] : at \in AllLoops(x)}
  BY DEF UsesOf
<1>2. ASSUME NEW at \in AllLoops(x) PROVE IsFiniteSet(g[at])
  <2> DEFINE h == [ci \in places(at) |->
                [face |-> at[1], li |-> at[2], ci |-> ci - 1, dir |-> uses(at)[ci].dir]]
             N == Len(uses(at))
  <2>1. N \in Nat /\ DOMAIN uses(at) = 1 .. N
    BY LoopsMembers, UsesTyped DEF UsesAt
  <2>2. ASSUME NEW n \in Nat PROVE IsFiniteSet(1 .. n)
    BY FS_Interval
  <2>3. places(at) \in SUBSET (1 .. N)
    BY <2>1
  <2>4. IsFiniteSet(places(at))
    <3> HIDE DEF places, N
    <3> QED
      BY <2>1, <2>2, <2>3, FS_Subset
  <2>5. g[at] = {h[ci] : ci \in places(at)} /\ DOMAIN h = places(at)
    OBVIOUS
  <2> HIDE DEF h, g, places
  <2>6. IsFiniteSet({h[ci] : ci \in places(at)})
    BY <2>4, <2>5, FiniteImage
  <2> QED
    BY <2>5, <2>6
<1>3. DOMAIN g = AllLoops(x)
  OBVIOUS
<1> HIDE DEF g
<1>4. IsFiniteSet(UNION {g[at] : at \in AllLoops(x)})
  BY <1>2, <1>3, LoopsAreFinite, FiniteUnion
<1> QED
  BY <1>1, <1>4

\* An edge used once each way: the use in a direction is where UseOf says and
\* nowhere else.
LEMMA TheUseOf ==
    ASSUME NEW x, Sound(x), NEW e, UsedBothWays(x, e), NEW d \in {FORWARD, REVERSED}
    PROVE  LET w == UseOf(x, e, d) IN
           /\ IsUseAt(x, w.face, w.li, w.ci + 1, e, d) /\ w.ci \in Nat /\ w.dir = d
           /\ \A f, li, k : IsUseAt(x, f, li, k, e, d) =>
                f = w.face /\ li = w.li /\ k = w.ci + 1
<1> DEFINE U == UsesOf(x, e)
           w == UseOf(x, e, d)
<1>1. IsFiniteSet(U) /\ Cardinality(U) = 2 /\ {u.dir : u \in U} = {FORWARD, REVERSED}
  BY UsesAreFinite DEF UsedBothWays
<1>2. \E u \in U : u.dir = d
  BY <1>1
<1>3. w \in U /\ w.dir = d
  BY <1>2 DEF UseOf
<1>4. \A u \in U : u.dir = d => u = w
  <2>1. PICK o \in U : o.dir # d
    BY <1>1 DEF FORWARD, REVERSED
  <2>2. {o, w} \in SUBSET U /\ o # w
    BY <1>3, <2>1
  <2>3. Cardinality({o, w}) = 2
    <3>1. IsFiniteSet({w}) /\ Cardinality({w}) = 1
      BY FS_Singleton
    <3>2. {o, w} = {w} \cup {o}
      OBVIOUS
    <3> HIDE DEF w
    <3> QED
      BY <2>2, <3>1, <3>2, FS_AddElement
  <2> HIDE DEF U, w
  <2>4. {o, w} = U
    BY <1>1, <2>2, <2>3, FS_Subset
  <2> QED
    BY <2>1, <2>4
<1> HIDE DEF w
<1>5. PICK f, li, k, c : IsUseAt(x, f, li, k, e, c) /\ w = Place(f, li, k, c)
  BY <1>3, PlacesOf
<1>6. w.face = f /\ w.li = li /\ w.ci = k - 1 /\ c = d
  BY <1>3, <1>5 DEF Place
<1>7. k \in Nat /\ k - 1 \in Nat /\ w.ci + 1 = k
  BY <1>5, <1>6, UsesTyped DEF IsUseAt
<1>8. ASSUME NEW g, NEW lj, NEW j, IsUseAt(x, g, lj, j, e, d)
      PROVE  g = w.face /\ lj = w.li /\ j = w.ci + 1
  <2>1. Place(g, lj, j, d) = w
    <3>1. Place(g, lj, j, d) \in U /\ Place(g, lj, j, d).dir = d
      BY <1>8, PlacesOf DEF Place
    <3> QED
      BY <1>4, <3>1
  <2>2. j \in Nat
    BY <1>8, UsesTyped DEF IsUseAt
  <2>3. g = w.face /\ lj = w.li /\ j - 1 = w.ci
    BY <2>1 DEF Place
  <2> QED
    BY <2>2, <2>3
<1> QED
  BY <1>3, <1>5, <1>6, <1>7, <1>8 DEF w

LEMMA VertexAtIsLive ==
    ASSUME NEW x, Sound(x), NEW at, IsLoop(x, at), at.ci \in Nat
    PROVE  VertexAt(x, at) \in LiveSlots(x.v)
<1> DEFINE uses == UsesAt(x, at.face, at.li)
           n == Len(uses)
<1>1. at.face \in LiveSlots(x.f) /\ at.li \in 1 .. Len(LoopsOf(x, at.face))
  BY LoopsOfFace DEF IsLoop
<1>2. /\ n \in Nat /\ DOMAIN uses = 1 .. n /\ uses \in Seq(UsesOn(LiveSlots(x.e)))
      /\ \A ci \in 1 .. n : uses[ci].edge \in LiveSlots(x.e)
      /\ uses = <<>> => LoopsOf(x, at.face)[at.li].seed \in LiveSlots(x.v)
  BY <1>1, UsesTyped
<1>3. uses = LoopAt(x, at).uses
  BY DEF UsesAt, LoopAt
<1> HIDE DEF uses
<1>4. CASE uses = <<>>
  BY <1>2, <1>3, <1>4 DEF VertexAt, LoopAt
<1>5. CASE uses # <<>>
  <2>1. n > 0
    BY <1>2, <1>5
  <2>2. (at.ci % n) + 1 \in 1 .. n
    BY <1>2, <2>1
  <2>3. VertexAt(x, at) = StartOf(x, uses[(at.ci % n) + 1])
    BY <1>3, <1>5 DEF VertexAt
  <2> HIDE DEF n
  <2>4. uses[(at.ci % n) + 1].edge \in LiveSlots(x.e)
    BY <1>2, <2>2
  <2> QED
    BY <2>3, <2>4 DEF StartOf, Sound
<1> QED
  BY <1>4, <1>5

-----------------------------------------------------------------------------
(***************************************************************************)
(* Typed pieces: what there is over fewer edges is there over more, and    *)
(* what does not use an edge is there without it.                          *)
(***************************************************************************)

LEMMA LoopsGrow ==
    ASSUME NEW E, NEW V, NEW D, NEW W, E \subseteq D, V \subseteq W
    PROVE  /\ Seq(UsesOn(E)) \subseteq Seq(UsesOn(D))
           /\ LoopsOn(E, V) \subseteq LoopsOn(D, W)
           /\ Seq(LoopsOn(E, V)) \subseteq Seq(LoopsOn(D, W))
           /\ \A face : IsFace(face, E, V) => IsFace(face, D, W)
<1>1. UsesOn(E) \subseteq UsesOn(D)
  BY DEF UsesOn
<1>2. Seq(UsesOn(E)) \subseteq Seq(UsesOn(D))
  BY <1>1, SeqMonotonic
<1>3. LoopsOn(E, V) \subseteq LoopsOn(D, W)
  BY <1>2 DEF LoopsOn
<1>4. Seq(LoopsOn(E, V)) \subseteq Seq(LoopsOn(D, W))
  BY <1>3, SeqMonotonic
<1> QED
  BY <1>2, <1>3, <1>4 DEF IsFace

LEMMA UsesNarrow ==
    ASSUME NEW E, NEW e, NEW s \in Seq(UsesOn(E)), \A i \in 1 .. Len(s) : s[i].edge # e
    PROVE  s \in Seq(UsesOn(E \ {e}))
<1>1. \A i \in 1 .. Len(s) : s[i] \in UsesOn(E \ {e})
  <2>1. \A i \in 1 .. Len(s) : s[i] \in UsesOn(E)
    OBVIOUS
  <2> QED
    BY <2>1 DEF UsesOn
<1>2. Len(s) \in Nat /\ s = [i \in 1 .. Len(s) |-> s[i]]
  OBVIOUS
<1>3. s \in [1 .. Len(s) -> UsesOn(E \ {e})]
  BY <1>1, <1>2
<1>4. ASSUME NEW S, NEW n \in Nat, NEW t \in [1 .. n -> S] PROVE t \in Seq(S)
  OBVIOUS
<1> QED
  BY <1>2, <1>3, <1>4

LEMMA LoopNarrows ==
    ASSUME NEW E, NEW V, NEW e, NEW W, NEW l \in LoopsOn(E, V),
           \A i \in 1 .. Len(l.uses) : l.uses[i].edge # e,
           l.uses = <<>> => l.seed \in W
    PROVE  l \in LoopsOn(E \ {e}, W)
<1>1. l \in [uses : Seq(UsesOn(E)), seed : Nat]
  BY DEF LoopsOn
<1>2. l.uses \in Seq(UsesOn(E \ {e}))
  BY <1>1, UsesNarrow
<1>3. l \in [uses : Seq(UsesOn(E \ {e})), seed : Nat]
  BY <1>1, <1>2
<1> QED
  BY <1>3 DEF LoopsOn

\* A loop given other uses.
LEMMA LoopGiven ==
    ASSUME NEW E, NEW V, NEW l \in LoopsOn(E, V), NEW t \in Seq(UsesOn(E)), t # <<>>
    PROVE  /\ [l EXCEPT !.uses = t] \in LoopsOn(E, V)
           /\ [l EXCEPT !.uses = t].uses = t
           /\ [l EXCEPT !.uses = t].seed = l.seed
<1> DEFINE k == [uses |-> t, seed |-> l.seed]
<1>1. l \in [uses : Seq(UsesOn(E)), seed : Nat]
  BY DEF LoopsOn
<1>2. [l EXCEPT !.uses = t] = k
  BY <1>1
<1>3. k \in [uses : Seq(UsesOn(E)), seed : Nat] /\ k.uses = t /\ k.seed = l.seed
  BY <1>1
<1> QED
  BY <1>2, <1>3 DEF LoopsOn

-----------------------------------------------------------------------------
(***************************************************************************)
(* Every operator ends in SetLoops on a builder whose pools are already    *)
(* what they will be.                                                      *)
(***************************************************************************)

LEMMA SetLoopsSound ==
    ASSUME NEW z, Record(z), z.genus \in Nat, IsPool(z.v), IsPool(z.e), IsPool(z.f),
           \A e \in LiveSlots(z.e) : /\ z.e.at[e].start \in LiveSlots(z.v)
                                     /\ z.e.at[e].end \in LiveSlots(z.v),
           NEW f \in LiveSlots(z.f),
           z.f.at[f] \in [surf : {z.f.at[f].surf}, dir : {z.f.at[f].dir}, shell : {0},
                          kept : {z.f.at[f].kept}, loops : {z.f.at[f].loops}],
           \A g \in LiveSlots(z.f) \ {f} :
                IsFace(z.f.at[g], LiveSlots(z.e), LiveSlots(z.v)),
           NEW ls \in Seq(LoopsOn(LiveSlots(z.e), LiveSlots(z.v))), ls # <<>>
    PROVE  LET y == SetLoops(z, f, ls) IN
           /\ Sound(y) /\ y.v = z.v /\ y.e = z.e /\ y.genus = z.genus
           /\ LiveSlots(y.f) = LiveSlots(z.f)
           /\ LoopsOf(y, f) = CanonicalLoops(ls) /\ Len(LoopsOf(y, f)) = Len(ls)
           /\ \A g \in LiveSlots(z.f) \ {f} : LoopsOf(y, g) = LoopsOf(z, g)
<1> DEFINE y == SetLoops(z, f, ls)
           E == LiveSlots(z.e)
           V == LiveSlots(z.v)
           c == CanonicalLoops(ls)
<1>1. z.f.at[f].shell = 0
  OBVIOUS
<1>2. /\ Record(y) /\ y.v = z.v /\ y.e = z.e /\ y.genus = z.genus
      /\ IsPool(y.f) /\ LiveSlots(y.f) = LiveSlots(z.f)
      /\ y.f.at[f] = [surf |-> z.f.at[f].surf, dir |-> z.f.at[f].dir,
                      shell |-> 0, kept |-> 0, loops |-> c]
      /\ \A g \in LiveSlots(z.f) : g # f => y.f.at[g] = z.f.at[g]
  BY <1>1, SetLoopsIs
<1>3. E \in SUBSET Nat /\ V \in SUBSET Nat
  BY DEF IsPool
<1>4. c \in Seq(LoopsOn(E, V)) /\ Len(c) = Len(ls)
  BY <1>3, CanonicalIs
<1>5. c # <<>>
  BY <1>4
<1> HIDE DEF y, c, E, V
<1>6. IsFace(y.f.at[f], E, V)
  BY <1>2, <1>4, <1>5 DEF IsFace
<1>7. \A g \in LiveSlots(z.f) : IsFace(y.f.at[g], E, V)
  BY <1>2, <1>6 DEF E, V
<1>8. Sound(y)
  BY <1>2, <1>7 DEF Sound, E, V
<1>9. LoopsOf(y, f) = c /\ \A g \in LiveSlots(z.f) \ {f} : LoopsOf(y, g) = LoopsOf(z, g)
  BY <1>2 DEF LoopsOf
<1> QED
  BY <1>2, <1>4, <1>8, <1>9 DEF y, c

\* A face of a sound builder, with the fields SetLoops keeps.
LEMMA FaceOfSound ==
    ASSUME NEW x, Sound(x), NEW f \in LiveSlots(x.f)
    PROVE  x.f.at[f] \in [surf : {x.f.at[f].surf}, dir : {x.f.at[f].dir}, shell : {0},
                          kept : {x.f.at[f].kept}, loops : {x.f.at[f].loops}]
BY DEF Sound, IsFace

\* Uses with pieces put between them.
LEMMA SeqOfMembers ==
    ASSUME NEW S, NEW T, NEW s \in Seq(S), \A i \in 1 .. Len(s) : s[i] \in T
    PROVE  s \in Seq(T)
<1>1. Len(s) \in Nat /\ s = [i \in 1 .. Len(s) |-> s[i]]
  OBVIOUS
<1>2. s \in [1 .. Len(s) -> T]
  BY <1>1
<1> QED
  BY <1>1, <1>2

LEMMA AroundIs ==
    ASSUME NEW S, NEW s \in Seq(S), NEW i \in 0 .. Len(s), NEW j \in 0 .. Len(s)
    PROVE  /\ Around(s, i, j) \in Seq(S)
           /\ Len(Around(s, i, j)) = IF i <= j THEN j - i ELSE Len(s) - i + j
           /\ \A k \in 1 .. Len(Around(s, i, j)) : Around(s, i, j)[k] = s[Wrap(i + k, Len(s))]
<1> DEFINE n == Len(s)
           p == SubSeq(s, i + 1, n)
           q == SubSeq(s, 1, j)
<1>1. n \in Nat /\ i \in Nat /\ j \in Nat /\ i <= n /\ j <= n
  OBVIOUS
<1>2. CASE i <= j
  <2>1. /\ SubSeq(s, i + 1, j) \in Seq(S) /\ Len(SubSeq(s, i + 1, j)) = j - i
        /\ \A k \in 1 .. (j - i) : SubSeq(s, i + 1, j)[k] = s[i + k]
    BY <1>1, <1>2
  <2>2. \A k \in 1 .. (j - i) : Wrap(i + k, n) = i + k
    BY <1>1, <1>2 DEF Wrap
  <2> QED
    BY <1>2, <2>1, <2>2 DEF Around
<1>3. CASE ~ (i <= j)
  <2>1. /\ p \in Seq(S) /\ Len(p) = n - i
        /\ \A k \in 1 .. (n - i) : p[k] = s[i + k]
    BY <1>1
  <2>2. /\ q \in Seq(S) /\ Len(q) = j /\ \A k \in 1 .. j : q[k] = s[k]
    BY <1>1
  <2>3. Around(s, i, j) = p \o q
    BY <1>3 DEF Around
  <2> HIDE DEF p, q, n
  <2>4. /\ p \o q \in Seq(S) /\ Len(p \o q) = Len(p) + Len(q)
        /\ \A k \in 1 .. (Len(p) + Len(q)) :
             (p \o q)[k] = IF k <= Len(p) THEN p[k] ELSE q[k - Len(p)]
    BY <2>1, <2>2, ConcatProperties
  <2>5. ASSUME NEW k \in 1 .. (n - i + j) PROVE (p \o q)[k] = s[Wrap(i + k, n)]
    <3>1. CASE k <= n - i
      BY <1>1, <2>1, <2>2, <2>4, <3>1 DEF Wrap
    <3>2. CASE ~ (k <= n - i)
      <4>1. k - (n - i) \in 1 .. j /\ k - (n - i) = Wrap(i + k, n)
        BY <1>1, <3>2 DEF Wrap
      <4>2. (p \o q)[k] = q[k - (n - i)]
        BY <1>1, <2>1, <2>2, <2>4, <3>2
      <4> QED
        BY <2>2, <4>1, <4>2
    <3> QED
      BY <3>1, <3>2
  <2>6. Len(p \o q) = n - i + j
    BY <1>1, <2>1, <2>2, <2>4
  <2> QED
    BY <1>3, <2>3, <2>4, <2>5, <2>6 DEF n
<1> QED
  BY <1>2, <1>3

LEMMA RemoveAtIs ==
    ASSUME NEW S, NEW s \in Seq(S), NEW i \in 1 .. Len(s)
    PROVE  /\ RemoveAt(s, i) \in Seq(S) /\ Len(RemoveAt(s, i)) = Len(s) - 1
           /\ \A k \in 1 .. (Len(s) - 1) :
                RemoveAt(s, i)[k] = IF k < i THEN s[k] ELSE s[k + 1]
<1> DEFINE n == Len(s)
           p == SubSeq(s, 1, i - 1)
           q == SubSeq(s, i + 1, n)
<1>1. n \in Nat /\ i \in Nat /\ i >= 1 /\ i <= n
  OBVIOUS
<1>2. p \in Seq(S) /\ Len(p) = i - 1 /\ \A k \in 1 .. (i - 1) : p[k] = s[k]
  BY <1>1
<1>3. q \in Seq(S) /\ Len(q) = n - i /\ \A k \in 1 .. (n - i) : q[k] = s[i + k]
  BY <1>1
<1>4. RemoveAt(s, i) = p \o q
  BY DEF RemoveAt
<1> HIDE DEF p, q, n
<1>5. /\ p \o q \in Seq(S) /\ Len(p \o q) = Len(p) + Len(q)
      /\ \A k \in 1 .. (Len(p) + Len(q)) :
           (p \o q)[k] = IF k <= Len(p) THEN p[k] ELSE q[k - Len(p)]
  BY <1>2, <1>3, ConcatProperties
<1>6. Len(p \o q) = n - 1
  BY <1>1, <1>2, <1>3, <1>5
<1>7. ASSUME NEW k \in 1 .. (n - 1)
      PROVE  (p \o q)[k] = IF k < i THEN s[k] ELSE s[k + 1]
  <2>1. CASE k < i
    BY <1>1, <1>2, <1>3, <1>5, <2>1
  <2>2. CASE ~ (k < i)
    <3>1. k - (i - 1) \in 1 .. (n - i) /\ i + (k - (i - 1)) = k + 1
      BY <1>1, <2>2
    <3>2. (p \o q)[k] = q[k - (i - 1)]
      BY <1>1, <1>2, <1>3, <1>5, <2>2
    <3> QED
      BY <1>3, <2>2, <3>1, <3>2
  <2> QED
    BY <2>1, <2>2
<1> QED
  BY <1>4, <1>5, <1>6, <1>7 DEF n

LEMMA ThreePiecesAt ==
    ASSUME NEW S, NEW p \in Seq(S), NEW q \in Seq(S), NEW r \in Seq(S)
    PROVE  /\ p \o q \o r \in Seq(S)
           /\ Len(p \o q \o r) = Len(p) + Len(q) + Len(r)
           /\ \A k \in 1 .. Len(p) : (p \o q \o r)[k] = p[k]
           /\ \A k \in 1 .. Len(q) : (p \o q \o r)[Len(p) + k] = q[k]
           /\ \A k \in 1 .. Len(r) : (p \o q \o r)[Len(p) + Len(q) + k] = r[k]
<1>1. /\ p \o q \in Seq(S) /\ Len(p \o q) = Len(p) + Len(q)
      /\ \A k \in 1 .. (Len(p) + Len(q)) :
           (p \o q)[k] = IF k <= Len(p) THEN p[k] ELSE q[k - Len(p)]
  BY ConcatProperties
<1> DEFINE h == p \o q
<1>2. Len(p) \in Nat /\ Len(q) \in Nat /\ Len(r) \in Nat
  OBVIOUS
<1> HIDE DEF h
<1>3. /\ h \o r \in Seq(S) /\ Len(h \o r) = Len(h) + Len(r)
      /\ \A k \in 1 .. (Len(h) + Len(r)) :
           (h \o r)[k] = IF k <= Len(h) THEN h[k] ELSE r[k - Len(h)]
  BY <1>1, ConcatProperties DEF h
<1>4. /\ h \in Seq(S) /\ Len(h) = Len(p) + Len(q)
      /\ \A k \in 1 .. (Len(p) + Len(q)) :
           h[k] = IF k <= Len(p) THEN p[k] ELSE q[k - Len(p)]
  BY <1>1 DEF h
<1>5. \A k \in 1 .. Len(p) : (h \o r)[k] = p[k]
  BY <1>2, <1>3, <1>4
<1>6. \A k \in 1 .. Len(q) : (h \o r)[Len(p) + k] = q[k]
  BY <1>2, <1>3, <1>4
<1>7. \A k \in 1 .. Len(r) : (h \o r)[Len(p) + Len(q) + k] = r[k]
  BY <1>2, <1>3, <1>4
<1> QED
  BY <1>3, <1>4, <1>5, <1>6, <1>7 DEF h

LEMMA UsesGrow ==
    ASSUME NEW E, NEW D, E \subseteq D, NEW s \in Seq(UsesOn(E))
    PROVE  s \in Seq(UsesOn(D))
BY LoopsGrow

LEMMA LoopSeqGrows ==
    ASSUME NEW E, NEW V, NEW D, NEW W, E \subseteq D, V \subseteq W,
           NEW ls \in Seq(LoopsOn(E, V))
    PROVE  ls \in Seq(LoopsOn(D, W))
BY LoopsGrow

LEMMA FaceGrows ==
    ASSUME NEW E, NEW V, NEW D, NEW W, E \subseteq D, V \subseteq W,
           NEW face, IsFace(face, E, V)
    PROVE  IsFace(face, D, W)
BY LoopsGrow

\* Every face of a sound builder is one over more edges and vertices.
LEMMA FacesGrow ==
    ASSUME NEW x, Sound(x), NEW D, NEW W, LiveSlots(x.e) \subseteq D, LiveSlots(x.v) \subseteq W
    PROVE  \A g \in LiveSlots(x.f) : IsFace(x.f.at[g], D, W)
BY FaceGrows DEF Sound

LEMMA ThreePieces ==
    ASSUME NEW S, NEW p \in Seq(S), NEW q \in Seq(S), NEW r \in Seq(S)
    PROVE  p \o q \o r \in Seq(S) /\ Len(p \o q \o r) = Len(p) + Len(q) + Len(r)
BY ThreePiecesAt

LEMMA NewUseIs ==
    ASSUME NEW E, NEW e \in E, NEW d \in {FORWARD, REVERSED},
           NEW s \in Struts \cup Splits \cup Joins, NEW k \in {1, 2}
    PROVE  Use(e, d, s.pcs[k]) \in UsesOn(E)
BY DEF Use, UsesOn, Pcs

\* A sequence of loops with one of them another.
LEMMA LoopPut ==
    ASSUME NEW S, NEW T, NEW ls \in Seq(S), NEW li \in 1 .. Len(ls), NEW l \in T,
           \A j \in 1 .. Len(ls) : j # li => ls[j] \in T
    PROVE  LET k == [ls EXCEPT ![li] = l] IN
           /\ k \in Seq(T) /\ Len(k) = Len(ls) /\ k[li] = l
           /\ \A j \in 1 .. Len(ls) : j # li => k[j] = ls[j]
<1> DEFINE k == [ls EXCEPT ![li] = l]
           U == S \cup T
<1>1. ls \in Seq(U) /\ l \in U
  BY SeqMonotonic
<1> HIDE DEF U
<1>2. /\ k \in Seq(U) /\ Len(k) = Len(ls) /\ k[li] = l
      /\ \A j \in 1 .. Len(ls) : j # li => k[j] = ls[j]
  BY <1>1, ExceptSeq
<1> HIDE DEF k
<1>3. \A j \in 1 .. Len(k) : k[j] \in T
  BY <1>2
<1>4. k \in Seq(T)
  BY <1>2, <1>3, SeqOfMembers
<1> QED
  BY <1>2, <1>4 DEF k

\* Uses of an edge used once each way are the two there are.
LEMMA UsesElsewhere ==
    ASSUME NEW x, Sound(x), NEW e, UsedBothWays(x, e),
           NEW f \in LiveSlots(x.f), NEW li \in 1 .. Len(LoopsOf(x, f)),
           NEW k \in 1 .. Len(UsesAt(x, f, li)), UsesAt(x, f, li)[k].edge = e
    PROVE  \E d \in {FORWARD, REVERSED} : LET w == UseOf(x, e, d) IN
             f = w.face /\ li = w.li /\ k = w.ci + 1 /\ UsesAt(x, f, li)[k].dir = d
<1> DEFINE d == UsesAt(x, f, li)[k].dir
<1>1. d \in {FORWARD, REVERSED}
  BY UsesTyped
<1>2. IsUseAt(x, f, li, k, e, d)
  BY DEF IsUseAt
<1> QED
  BY <1>1, <1>2, TheUseOf

\* The loops of a face that an edge and a seed have nothing to do with.
LEMMA FaceNarrows ==
    ASSUME NEW x, Sound(x), NEW f \in LiveSlots(x.f), NEW e, NEW W,
           \A li \in 1 .. Len(LoopsOf(x, f)) :
              LoopsOf(x, f)[li] \in LoopsOn(LiveSlots(x.e) \ {e}, W)
    PROVE  IsFace(x.f.at[f], LiveSlots(x.e) \ {e}, W)
<1>1. IsFace(x.f.at[f], LiveSlots(x.e), LiveSlots(x.v))
  BY DEF Sound
<1>2. LoopsOf(x, f) \in Seq(LoopsOn(LiveSlots(x.e) \ {e}, W))
  <2> DEFINE S == LoopsOn(LiveSlots(x.e), LiveSlots(x.v))
             T == LoopsOn(LiveSlots(x.e) \ {e}, W)
             ls == LoopsOf(x, f)
  <2>1. ls \in Seq(S) /\ \A li \in 1 .. Len(ls) : ls[li] \in T
    BY LoopsOfFace
  <2> HIDE DEF S, T, ls
  <2>2. ls \in Seq(T)
    BY <2>1, SeqOfMembers
  <2> QED
    BY <2>2 DEF T, ls
<1> QED
  BY <1>1, <1>2 DEF IsFace, LoopsOf

LEMMA LoopOfSound ==
    ASSUME NEW x, Sound(x), NEW e, NEW W,
           NEW f \in LiveSlots(x.f), NEW li \in 1 .. Len(LoopsOf(x, f)),
           \A k \in 1 .. Len(UsesAt(x, f, li)) : UsesAt(x, f, li)[k].edge # e,
           UsesAt(x, f, li) = <<>> => LoopsOf(x, f)[li].seed \in W
    PROVE  LoopsOf(x, f)[li] \in LoopsOn(LiveSlots(x.e) \ {e}, W)
BY UsesTyped, LoopNarrows DEF UsesAt

-----------------------------------------------------------------------------
(***************************************************************************)
(* The operators keep a builder sound; what each does to its live slots    *)
(* and to the number of loops of its faces.                                *)
(***************************************************************************)

SameFaces(x, y) ==
    /\ LiveSlots(y.f) = LiveSlots(x.f)
    /\ \A f \in LiveSlots(x.f) : Len(LoopsOf(y, f)) = Len(LoopsOf(x, f))
\* The loops of face f are ls in canonical form, those of other faces as they were.
Edited(x, y, f, ls) ==
    /\ f \in LiveSlots(y.f)
    /\ ls \in Seq(LoopsOn(LiveSlots(y.e), LiveSlots(y.v)))
    /\ LoopsOf(y, f) = CanonicalLoops(ls)
    /\ \A g \in LiveSlots(x.f) : g \in LiveSlots(y.f) /\ g # f => LoopsOf(y, g) = LoopsOf(x, g)
\* Face f is made of the loops ls.
MadeOf(y, f, ls) ==
    /\ ls \in Seq(LoopsOn(LiveSlots(y.e), LiveSlots(y.v)))
    /\ LoopsOf(y, f) = CanonicalLoops(ls)
\* y has the edges of x and e.
EdgeMore(x, y, e) ==
    /\ e \notin LiveSlots(x.e) /\ LiveSlots(y.e) = LiveSlots(x.e) \cup {e}
    /\ \A k \in LiveSlots(x.e) : /\ y.e.at[k].start = x.e.at[k].start
                                 /\ y.e.at[k].end = x.e.at[k].end
EdgeFrom(y, e, start, end) == y.e.at[e].start = start /\ y.e.at[e].end = end

MvfsMade(x) == <<Loop(<<>>, NewSlot(x.v))>>

LEMMA MvfsIs ==
    ASSUME NEW x, Sound(x), NEW seed, CanMvfs(x)
    PROVE  LET y == Mvfs(x, seed) IN
           /\ Sound(y)
           /\ LiveSlots(y.v) = {NewSlot(x.v)} /\ LiveSlots(y.f) = {NewSlot(x.f)}
           /\ y.e = x.e /\ y.genus = x.genus
           /\ LiveSlots(x.v) = {} /\ LiveSlots(x.e) = {} /\ LiveSlots(x.f) = {}
           /\ Len(LoopsOf(y, NewSlot(x.f))) = 1
           /\ MadeOf(y, NewSlot(x.f), MvfsMade(x))
<1> DEFINE y == Mvfs(x, seed)
           n == NewSlot(x.v)
           m == NewSlot(x.f)
           ls == <<Loop(<<>>, n)>>
           face == NewFace(seed.surf, seed.dir, 0, ls)
           E == LiveSlots(x.e)
<1>1. LiveSlots(x.v) = {} /\ E = {} /\ LiveSlots(x.f) = {}
  BY DEF CanMvfs, IsEmpty
<1>2. /\ Record(x) /\ x.genus \in Nat /\ IsPool(x.v) /\ IsPool(x.e) /\ IsPool(x.f)
  BY DEF Sound
<1>3. IsPool(Fill(x.v, NewVertex)) /\ LiveSlots(Fill(x.v, NewVertex)) = {n} /\ n \in Nat
  BY <1>1, <1>2, FillPool
<1>4. /\ IsPool(Fill(x.f, face)) /\ LiveSlots(Fill(x.f, face)) = {m}
      /\ Fill(x.f, face).at[m] = face
  BY <1>1, <1>2, FillPool
<1>5. ls \in Seq(LoopsOn(E, {n}))
  BY <1>3 DEF Loop, LoopsOn
<1>6. CanonicalLoops(ls) \in Seq(LoopsOn(E, {n})) /\ Len(CanonicalLoops(ls)) = 1
  <2>1. E \in SUBSET Nat /\ {n} \in SUBSET Nat /\ Len(ls) = 1
    BY <1>1, <1>3
  <2> HIDE DEF ls, n, E
  <2> QED
    BY <1>5, <2>1, CanonicalIs
<1>7. IsFace(face, E, {n}) /\ face.loops = CanonicalLoops(ls)
  <2> HIDE DEF ls, n, E
  <2>1. CanonicalLoops(ls) # <<>>
    BY <1>6
  <2> QED
    BY <1>6, <2>1 DEF IsFace, NewFace
<1> HIDE DEF face
<1>8. /\ y.v = Fill(x.v, NewVertex) /\ y.f = Fill(x.f, face)
      /\ y.e = x.e /\ y.genus = x.genus /\ Record(y)
  BY <1>2 DEF Mvfs, Record, face
<1> HIDE DEF y, n, m, ls
<1>9. Sound(y)
  BY <1>1, <1>2, <1>3, <1>4, <1>7, <1>8 DEF Sound
<1>10. LoopsOf(y, m) = CanonicalLoops(ls)
  BY <1>4, <1>7, <1>8 DEF LoopsOf
<1>11. MadeOf(y, m, ls)
  BY <1>1, <1>3, <1>5, <1>8, <1>10 DEF MadeOf
<1>12. ls = MvfsMade(x)
  BY DEF ls, n, MvfsMade
<1> QED
  BY <1>1, <1>3, <1>4, <1>6, <1>8, <1>9, <1>10, <1>11, <1>12 DEF y, n, m

LEMMA EmptyBuilderIs ==
    /\ Sound(EmptyBuilder)
    /\ LiveSlots(EmptyBuilder.v) = {} /\ LiveSlots(EmptyBuilder.e) = {}
    /\ LiveSlots(EmptyBuilder.f) = {} /\ EmptyBuilder.genus = 0
<1>1. /\ Record(EmptyBuilder) /\ EmptyBuilder.genus = 0 /\ EmptyBuilder.v = EmptyPool
      /\ EmptyBuilder.e = EmptyPool /\ EmptyBuilder.f = EmptyPool
  BY DEF EmptyBuilder, Record
<1> QED
  BY <1>1, EmptyPoolIsPool DEF Sound

Strutted(uses, i, away, back) == SubSeq(uses, 1, i) \o <<away, back>> \o SubSeq(uses, i + 1, Len(uses))
NewUse(x, d, s) == Use(NewSlot(x.e), d, s.pcs[IF d = FORWARD THEN 1 ELSE 2])
MevLoops(x, at, s) ==
    LET loops == LoopsOf(x, at.face)
    IN  [loops EXCEPT ![at.li].uses = Strutted(loops[at.li].uses, at.ci, NewUse(x, FORWARD, s),
                                               NewUse(x, REVERSED, s))]

LEMMA MevIs ==
    ASSUME NEW x, Sound(x), NEW at, NEW s \in Struts, CanMev(x, at, s)
    PROVE  LET y == Mev(x, at, s) IN
           /\ Sound(y) /\ SameFaces(x, y) /\ y.genus = x.genus
           /\ LiveSlots(y.v) = LiveSlots(x.v) \cup {NewSlot(x.v)}
           /\ LiveSlots(y.e) = LiveSlots(x.e) \cup {NewSlot(x.e)}
           /\ NewSlot(x.v) \notin LiveSlots(x.v) /\ NewSlot(x.e) \notin LiveSlots(x.e)
           /\ LiveSlots(x.f) # {}
           /\ EdgeMore(x, y, NewSlot(x.e))
           /\ EdgeFrom(y, NewSlot(x.e), VertexAt(x, at), NewSlot(x.v))
           /\ Edited(x, y, at.face, MevLoops(x, at, s))
<1> DEFINE n == NewSlot(x.v)
           e == NewSlot(x.e)
           f == at.face
           loops == LoopsOf(x, f)
           uses == loops[at.li].uses
           mid == <<Use(e, FORWARD, s.pcs[1]), Use(e, REVERSED, s.pcs[2])>>
           spliced == SubSeq(uses, 1, at.ci) \o mid \o SubSeq(uses, at.ci + 1, Len(uses))
           edge == NewEdge(VertexAt(x, at), n, FALSE)
           z == [x EXCEPT !.v = Fill(x.v, NewVertex), !.e = Fill(x.e, edge)]
           ls == [loops EXCEPT ![at.li].uses = spliced]
           V == LiveSlots(x.v)
           E == LiveSlots(x.e)
           W == V \cup {n}
           D == E \cup {e}
<1>1. /\ Record(x) /\ x.genus \in Nat /\ IsPool(x.v) /\ IsPool(x.e) /\ IsPool(x.f)
      /\ \A k \in E : x.e.at[k].start \in V /\ x.e.at[k].end \in V
  BY DEF Sound
<1>2. IsPool(Fill(x.v, NewVertex)) /\ LiveSlots(Fill(x.v, NewVertex)) = W /\ n \notin V
  BY <1>1, FillPool
<1>3. /\ IsPool(Fill(x.e, edge)) /\ LiveSlots(Fill(x.e, edge)) = D /\ e \notin E
      /\ Fill(x.e, edge).at[e] = edge /\ \A k \in E : Fill(x.e, edge).at[k] = x.e.at[k]
  BY <1>1, FillPool
<1>4. IsLoop(x, at) /\ at.ci \in 0 .. Len(LoopAt(x, at).uses)
  BY DEF CanMev, IsJunction
<1>5. f \in LiveSlots(x.f) /\ at.li \in 1 .. Len(loops)
  BY <1>4, LoopsOfFace DEF IsLoop
<1>6. uses \in Seq(UsesOn(E)) /\ Len(uses) \in Nat /\ at.ci \in 0 .. Len(uses)
  BY <1>4, <1>5, UsesTyped DEF UsesAt, LoopAt
<1>7. VertexAt(x, at) \in V
  BY <1>4, <1>6, VertexAtIsLive
<1> HIDE DEF edge
<1>8. z.v = Fill(x.v, NewVertex) /\ z.e = Fill(x.e, edge) /\ z.f = x.f
      /\ z.genus = x.genus /\ Record(z)
  BY <1>1 DEF Record
<1>9. Mev(x, at, s) = SetLoops(z, f, ls)
  BY <1>1 DEF Mev, Record, edge
<1> HIDE DEF z
<1>10. \A k \in D : z.e.at[k].start \in W /\ z.e.at[k].end \in W
  <2>1. edge.start \in W /\ edge.end \in W
    BY <1>7 DEF edge, NewEdge
  <2> QED
    BY <1>1, <1>3, <1>8, <2>1
<1>11. spliced \in Seq(UsesOn(D)) /\ spliced # <<>>
  <2>1. uses \in Seq(UsesOn(D))
    <3>1. E \subseteq D
      OBVIOUS
    <3> HIDE DEF D, E, uses
    <3> QED
      BY <1>6, <3>1, UsesGrow
  <2>2. mid \in Seq(UsesOn(D)) /\ Len(mid) = 2
    <3>1. Use(e, FORWARD, s.pcs[1]) \in UsesOn(D) /\ Use(e, REVERSED, s.pcs[2]) \in UsesOn(D)
      BY NewUseIs
    <3> QED
      BY <3>1
  <2> HIDE DEF mid, uses, D
  <2>3. /\ SubSeq(uses, 1, at.ci) \in Seq(UsesOn(D))
        /\ SubSeq(uses, at.ci + 1, Len(uses)) \in Seq(UsesOn(D))
    BY <1>6, <2>1, PieceIs
  <2> DEFINE S == UsesOn(D)
             p == SubSeq(uses, 1, at.ci)
             q == SubSeq(uses, at.ci + 1, Len(uses))
  <2> HIDE DEF S, p, q
  <2>4. p \in Seq(S) /\ q \in Seq(S) /\ mid \in Seq(S)
    BY <2>2, <2>3 DEF S, p, q
  <2>5. p \o mid \o q \in Seq(S) /\ Len(p \o mid \o q) = Len(p) + Len(mid) + Len(q)
    BY <2>4, ThreePieces
  <2>6. p \o mid \o q # <<>>
    BY <2>2, <2>4, <2>5
  <2> QED
    BY <2>5, <2>6 DEF S, p, q
<1>12. ls \in Seq(LoopsOn(D, W)) /\ Len(ls) = Len(loops) /\ ls # <<>>
  <2>1. loops \in Seq(LoopsOn(D, W))
    <3>1. loops \in Seq(LoopsOn(E, V)) /\ E \subseteq D /\ V \subseteq W
      BY <1>5, LoopsOfFace
    <3> HIDE DEF E, V, D, W, loops
    <3> QED
      BY <3>1, LoopSeqGrows
  <2>2. ls \in Seq(LoopsOn(D, W)) /\ Len(ls) = Len(loops)
    <3>1. at.li \in 1 .. Len(loops) /\ spliced \in Seq(UsesOn(D)) /\ spliced # <<>>
      BY <1>5, <1>11
    <3> DEFINE l == [loops[at.li] EXCEPT !.uses = spliced]
    <3>2. ls = [loops EXCEPT ![at.li] = l]
      OBVIOUS
    <3> HIDE DEF ls, spliced, D, W, loops
    <3>3. l \in LoopsOn(D, W)
      BY <2>1, <3>1, LoopGiven
    <3> HIDE DEF l
    <3> QED
      BY <2>1, <3>1, <3>2, <3>3, ExceptSeq
  <2> QED
    BY <1>5, <2>2
<1>13. \A g \in LiveSlots(x.f) : IsFace(x.f.at[g], D, W)
  <2>1. LiveSlots(x.e) \subseteq D /\ LiveSlots(x.v) \subseteq W
    OBVIOUS
  <2> HIDE DEF D, W
  <2> QED
    BY <2>1, FacesGrow
<1> DEFINE y == SetLoops(z, f, ls)
<1>14. /\ Sound(y) /\ y.v = z.v /\ y.e = z.e /\ y.genus = z.genus
       /\ LiveSlots(y.f) = LiveSlots(z.f) /\ Len(LoopsOf(y, f)) = Len(ls)
       /\ LoopsOf(y, f) = CanonicalLoops(ls)
       /\ \A g \in LiveSlots(z.f) \ {f} : LoopsOf(y, g) = LoopsOf(z, g)
  <2>1. z.f.at[f] \in [surf : {z.f.at[f].surf}, dir : {z.f.at[f].dir}, shell : {0},
                       kept : {z.f.at[f].kept}, loops : {z.f.at[f].loops}]
    BY <1>5, <1>8, FaceOfSound
  <2>2. LiveSlots(z.v) = W /\ LiveSlots(z.e) = D /\ LiveSlots(z.f) = LiveSlots(x.f)
    BY <1>2, <1>3, <1>8
  <2>3. \A g \in LiveSlots(z.f) \ {f} : IsFace(z.f.at[g], D, W)
    BY <1>8, <1>13
  <2> HIDE DEF ls, D, W
  <2> QED
    BY <1>1, <1>2, <1>3, <1>5, <1>8, <1>10, <1>12, <2>1, <2>2, <2>3, SetLoopsSound
<1>15. \A g \in LiveSlots(x.f) : LoopsOf(z, g) = LoopsOf(x, g)
  BY <1>8 DEF LoopsOf
<1>17. ls = MevLoops(x, at, s)
  <2>1. mid = <<NewUse(x, FORWARD, s), NewUse(x, REVERSED, s)>>
    BY DEF NewUse, FORWARD, REVERSED
  <2> HIDE DEF mid
  <2>2. spliced = Strutted(uses, at.ci, NewUse(x, FORWARD, s), NewUse(x, REVERSED, s))
    BY <2>1 DEF Strutted
  <2> QED
    BY <2>2 DEF MevLoops
<1>18. EdgeMore(x, y, e) /\ EdgeFrom(y, e, VertexAt(x, at), n)
  <2>1. y.e = Fill(x.e, edge) /\ edge.start = VertexAt(x, at) /\ edge.end = n
    BY <1>8, <1>14 DEF edge, NewEdge
  <2> HIDE DEF y
  <2> QED
    BY <1>3, <2>1 DEF EdgeMore, EdgeFrom
<1> HIDE DEF y, ls
<1>19. Edited(x, y, f, ls)
  BY <1>2, <1>3, <1>5, <1>8, <1>12, <1>14, <1>15 DEF Edited
<1>16. SameFaces(x, y)
  BY <1>8, <1>12, <1>14, <1>15 DEF SameFaces
<1> QED
  BY <1>2, <1>3, <1>5, <1>8, <1>9, <1>14, <1>16, <1>17, <1>18, <1>19 DEF y

\* What the two uses of an edge say of the builder.
LEMMA BothUses ==
    ASSUME NEW x, Sound(x), NEW e, UsedBothWays(x, e), NEW d \in {FORWARD, REVERSED}
    PROVE  LET w == UseOf(x, e, d) IN
           /\ e \in LiveSlots(x.e) /\ e \in Nat
           /\ w.face \in LiveSlots(x.f) /\ w.li \in 1 .. Len(LoopsOf(x, w.face))
           /\ w.ci \in Nat /\ w.ci + 1 \in 1 .. Len(UsesAt(x, w.face, w.li))
           /\ UsesAt(x, w.face, w.li)[w.ci + 1].edge = e
           /\ UsesAt(x, w.face, w.li)[w.ci + 1].dir = d
<1>1. e \in LiveSlots(x.e) /\ e \in Nat
  BY DEF UsedBothWays, Sound, IsPool
<1> DEFINE w == UseOf(x, e, d)
<1>2. IsUseAt(x, w.face, w.li, w.ci + 1, e, d) /\ w.ci \in Nat
  BY TheUseOf
<1> HIDE DEF w
<1>3. /\ w.face \in LiveSlots(x.f) /\ w.li \in 1 .. Len(LoopsOf(x, w.face))
      /\ w.ci \in Nat /\ w.ci + 1 \in 1 .. Len(UsesAt(x, w.face, w.li))
      /\ UsesAt(x, w.face, w.li)[w.ci + 1].edge = e
      /\ UsesAt(x, w.face, w.li)[w.ci + 1].dir = d
  BY <1>2 DEF IsUseAt
<1> QED
  BY <1>1, <1>3 DEF w

\* What is left of a loop without the strut at place p.
WithoutStrut(uses, p) == SubSeq(RotateTo(uses, p + 1), 3, Len(uses))

LEMMA WithoutStrutIs ==
    ASSUME NEW S, NEW s \in Seq(S), NEW p \in Nat, NEW m \in Nat,
           p + 1 \in 1 .. Len(s), m + 1 \in 1 .. Len(s), p # m, (p + 1) % Len(s) = m
    PROVE  /\ WithoutStrut(s, p) \in Seq(S) /\ Len(WithoutStrut(s, p)) = Len(s) - 2
           /\ \A i \in 1 .. (Len(s) - 2) :
                /\ WithoutStrut(s, p)[i] = s[Wrap(i + 2 + p, Len(s))]
                /\ Wrap(i + 2 + p, Len(s)) \in 1 .. Len(s)
                /\ Wrap(i + 2 + p, Len(s)) # p + 1 /\ Wrap(i + 2 + p, Len(s)) # m + 1
<1> DEFINE n == Len(s)
           r == RotateTo(s, p + 1)
<1>1. n \in Nat /\ p + 1 <= n /\ m + 1 <= n /\ n >= 2
  OBVIOUS
<1>2. m = IF p + 1 = n THEN 0 ELSE p + 1
  <2> HIDE DEF n
  <2>1. CASE p + 1 = n
    BY <1>1, <2>1 DEF n
  <2>2. CASE p + 1 # n
    BY <1>1, <2>2 DEF n
  <2> QED
    BY <2>1, <2>2
<1>3. /\ r \in Seq(S) /\ Len(r) = n
      /\ \A i \in 1 .. n : r[i] = s[Wrap(i + p, n)]
  <2>1. \A i \in 1 .. n : i + (p + 1) - 1 = i + p
    OBVIOUS
  <2> QED
    BY <2>1, RotateToIs
<1> HIDE DEF r, n
<1>4. /\ SubSeq(r, 3, n) \in Seq(S) /\ Len(SubSeq(r, 3, n)) = n - 2
      /\ \A i \in 1 .. (n - 2) : SubSeq(r, 3, n)[i] = r[i + 2]
  <2>1. /\ SubSeq(r, 3, n) \in Seq(S)
        /\ Len(SubSeq(r, 3, n)) = IF 3 <= n THEN n - 3 + 1 ELSE 0
        /\ \A i \in 1 .. (n - 3 + 1) : SubSeq(r, 3, n)[i] = r[3 + i - 1]
    BY <1>1, <1>3, PieceIs
  <2>2. \A i \in 1 .. (n - 2) : 3 + i - 1 = i + 2
    BY <1>1
  <2> QED
    BY <1>1, <2>1, <2>2
<1>5. ASSUME NEW i \in 1 .. (n - 2)
      PROVE  /\ SubSeq(r, 3, n)[i] = s[Wrap(i + 2 + p, n)]
             /\ Wrap(i + 2 + p, n) \in 1 .. n
             /\ Wrap(i + 2 + p, n) # p + 1 /\ Wrap(i + 2 + p, n) # m + 1
  <2>1. SubSeq(r, 3, n)[i] = s[Wrap(i + 2 + p, n)]
    <3>1. i + 2 \in 1 .. n
      BY <1>1
    <3> QED
      BY <1>3, <1>4, <3>1
  <2>2. /\ Wrap(i + 2 + p, n) \in 1 .. n
        /\ Wrap(i + 2 + p, n) # p + 1 /\ Wrap(i + 2 + p, n) # m + 1
    BY <1>1, <1>2 DEF Wrap
  <2> QED
    BY <2>1, <2>2
<1> QED
  BY <1>4, <1>5 DEF WithoutStrut, r, n

\* What kev reads of the strut it kills.
LEMMA TheStrut ==
    ASSUME NEW x, Sound(x), NEW e, CanKev(x, e)
    PROVE  LET plus == UseOf(x, e, FORWARD)
               minus == UseOf(x, e, REVERSED)
               uses == UsesAt(x, plus.face, plus.li) IN
           /\ UsedBothWays(x, e)
           /\ plus.face = minus.face /\ plus.li = minus.li
           /\ plus.ci # minus.ci /\ (plus.ci + 1) % Len(uses) = minus.ci
           /\ x.e.at[e].start # x.e.at[e].end
           /\ \A k \in LiveSlots(x.e) : k # e =>
                x.e.at[k].start # x.e.at[e].end /\ x.e.at[k].end # x.e.at[e].end
           /\ \A f \in LiveSlots(x.f) : \A li \in 1 .. Len(LoopsOf(x, f)) :
                UsesAt(x, f, li) = <<>> => LoopsOf(x, f)[li].seed # x.e.at[e].end
<1> DEFINE plus == UseOf(x, e, FORWARD)
           minus == UseOf(x, e, REVERSED)
           uses == UsesAt(x, plus.face, plus.li)
           tip == x.e.at[e].end
<1>1. /\ UsedBothWays(x, e)
      /\ plus.face = minus.face /\ plus.li = minus.li
      /\ (plus.ci + 1) % Len(uses) = minus.ci
      /\ x.e.at[e].start # tip
      /\ \A k \in LiveSlots(x.e) \ {e} : tip \notin {x.e.at[k].start, x.e.at[k].end}
      /\ \A f \in LiveSlots(x.f) : \A l \in DOMAIN LoopsOf(x, f) :
            LoopsOf(x, f)[l] # Loop(<<>>, tip)
  BY DEF CanKev, UsesAt
<1>2. plus.ci # minus.ci
  <2>1. /\ uses[plus.ci + 1].dir = FORWARD
        /\ UsesAt(x, minus.face, minus.li)[minus.ci + 1].dir = REVERSED
    BY <1>1, BothUses
  <2> HIDE DEF plus, minus
  <2> QED
    BY <1>1, <2>1 DEF FORWARD, REVERSED
<1>3. ASSUME NEW f \in LiveSlots(x.f), NEW li \in 1 .. Len(LoopsOf(x, f)),
             UsesAt(x, f, li) = <<>>
      PROVE  LoopsOf(x, f)[li].seed # tip
  <2>1. LoopsOf(x, f)[li] # Loop(<<>>, tip)
    BY <1>1, LoopsOfFace
  <2>2. LoopsOf(x, f)[li] \in LoopsOn(LiveSlots(x.e), LiveSlots(x.v))
    BY UsesTyped
  <2>3. LoopsOf(x, f)[li] = [uses |-> <<>>, seed |-> LoopsOf(x, f)[li].seed]
    BY <1>3, <2>2 DEF LoopsOn, UsesAt
  <2> QED
    BY <2>1, <2>3 DEF Loop
<1> QED
  BY <1>1, <1>2, <1>3

KevLoops(x, e) ==
    LET plus == UseOf(x, e, FORWARD)
        rest == WithoutStrut(UsesAt(x, plus.face, plus.li), plus.ci)
    IN  [LoopsOf(x, plus.face) EXCEPT ![plus.li] = Loop(rest, x.e.at[e].start)]

LEMMA KevIs ==
    ASSUME NEW x, Sound(x), NEW e, CanKev(x, e)
    PROVE  LET y == Kev(x, e) IN
           /\ Sound(y) /\ SameFaces(x, y) /\ y.genus = x.genus
           /\ LiveSlots(y.v) = LiveSlots(x.v) \ {x.e.at[e].end}
           /\ LiveSlots(y.e) = LiveSlots(x.e) \ {e}
           /\ e \in LiveSlots(x.e)
           /\ x.e.at[e].start \in LiveSlots(x.v) /\ x.e.at[e].end \in LiveSlots(x.v)
           /\ x.e.at[e].start # x.e.at[e].end
           /\ EdgeMore(y, x, e)
           /\ Edited(x, y, UseOf(x, e, FORWARD).face, KevLoops(x, e))
<1> DEFINE plus == UseOf(x, e, FORWARD)
           minus == UseOf(x, e, REVERSED)
           f == plus.face
           loops == LoopsOf(x, f)
           uses == UsesAt(x, f, plus.li)
           start == x.e.at[e].start
           tip == x.e.at[e].end
           rest == WithoutStrut(uses, plus.ci)
           z == [x EXCEPT !.v = Vacate(x.v, tip), !.e = Vacate(x.e, e)]
           ls == [loops EXCEPT ![plus.li] = Loop(rest, start)]
           V == LiveSlots(x.v)
           E == LiveSlots(x.e)
           W == V \ {tip}
           D == E \ {e}
<1>1. /\ Record(x) /\ x.genus \in Nat /\ IsPool(x.v) /\ IsPool(x.e) /\ IsPool(x.f)
      /\ \A k \in E : x.e.at[k].start \in V /\ x.e.at[k].end \in V
  BY DEF Sound
<1>2. /\ UsedBothWays(x, e)
      /\ f = minus.face /\ plus.li = minus.li
      /\ plus.ci # minus.ci /\ (plus.ci + 1) % Len(uses) = minus.ci
      /\ start # tip
      /\ \A k \in E : k # e => x.e.at[k].start # tip /\ x.e.at[k].end # tip
      /\ \A g \in LiveSlots(x.f) : \A li \in 1 .. Len(LoopsOf(x, g)) :
            UsesAt(x, g, li) = <<>> => LoopsOf(x, g)[li].seed # tip
  BY TheStrut
<1>3. /\ e \in E /\ f \in LiveSlots(x.f) /\ plus.li \in 1 .. Len(loops)
      /\ plus.ci \in Nat /\ plus.ci + 1 \in 1 .. Len(uses)
  BY <1>2, BothUses
<1>4. minus.ci \in Nat /\ minus.ci + 1 \in 1 .. Len(uses)
  <2>1. minus.ci \in Nat /\ minus.ci + 1 \in 1 .. Len(UsesAt(x, minus.face, minus.li))
    BY <1>2, BothUses
  <2> QED
    BY <1>2, <2>1
<1>5. start \in V /\ tip \in V
  BY <1>1, <1>3
<1>6. /\ IsPool(Vacate(x.v, tip)) /\ LiveSlots(Vacate(x.v, tip)) = W
      /\ IsPool(Vacate(x.e, e)) /\ LiveSlots(Vacate(x.e, e)) = D
      /\ \A k \in D : Vacate(x.e, e).at[k] = x.e.at[k]
  BY <1>1, <1>3, <1>5, VacatePool
<1>7. /\ z.v = Vacate(x.v, tip) /\ z.e = Vacate(x.e, e) /\ z.f = x.f
      /\ z.genus = x.genus /\ Record(z)
  BY <1>1 DEF Record
<1>8. Kev(x, e) = SetLoops(z, f, ls)
  BY <1>1 DEF Kev, KevResult, Record, UsesAt, WithoutStrut
<1>9. \A g \in LiveSlots(x.f) : \A li \in 1 .. Len(LoopsOf(x, g)) :
        g # f \/ li # plus.li => LoopsOf(x, g)[li] \in LoopsOn(D, W)
  <2> SUFFICES ASSUME NEW g \in LiveSlots(x.f), NEW li \in 1 .. Len(LoopsOf(x, g)),
                      g # f \/ li # plus.li
               PROVE  LoopsOf(x, g)[li] \in LoopsOn(D, W)
    OBVIOUS
  <2> HIDE DEF plus, minus
  <2>1. ASSUME NEW k \in 1 .. Len(UsesAt(x, g, li)), UsesAt(x, g, li)[k].edge = e
        PROVE  FALSE
    BY <1>2, <2>1, UsesElsewhere DEF plus, minus
  <2>2. UsesAt(x, g, li) = <<>> => LoopsOf(x, g)[li].seed \in W
    BY <1>2, UsesTyped
  <2> QED
    BY <2>1, <2>2, LoopOfSound
<1>10. rest \in Seq(UsesOn(D))
  <2>1. uses \in Seq(UsesOn(E))
    BY <1>3, UsesTyped
  <2>2. /\ rest \in Seq(UsesOn(E)) /\ Len(rest) = Len(uses) - 2
        /\ \A i \in 1 .. (Len(uses) - 2) :
             /\ rest[i] = uses[Wrap(i + 2 + plus.ci, Len(uses))]
             /\ Wrap(i + 2 + plus.ci, Len(uses)) \in 1 .. Len(uses)
             /\ Wrap(i + 2 + plus.ci, Len(uses)) # plus.ci + 1
             /\ Wrap(i + 2 + plus.ci, Len(uses)) # minus.ci + 1
    <3> DEFINE S == UsesOn(E)
    <3> HIDE DEF plus, minus, uses, S
    <3> QED
      BY <1>2, <1>3, <1>4, <2>1, WithoutStrutIs DEF S
  <2>3. ASSUME NEW k \in 1 .. Len(uses), k # plus.ci + 1, k # minus.ci + 1
        PROVE  uses[k].edge # e
    <3> HIDE DEF plus, minus
    <3> QED
      BY <1>2, <1>3, <2>3, UsesElsewhere DEF plus, minus
  <2> HIDE DEF rest, uses, plus, minus
  <2>4. \A i \in 1 .. Len(rest) : rest[i].edge # e
    BY <2>2, <2>3
  <2> QED
    BY <2>2, <2>4, UsesNarrow
<1>11. Loop(rest, start) \in LoopsOn(D, W)
  <2>1. start \in W /\ start \in Nat
    BY <1>1, <1>2, <1>5 DEF IsPool
  <2> HIDE DEF rest, start, D, W
  <2> QED
    BY <1>10, <2>1 DEF Loop, LoopsOn
<1>12. ls \in Seq(LoopsOn(D, W)) /\ Len(ls) = Len(loops) /\ ls # <<>>
  <2> DEFINE S == LoopsOn(E, V)
             T == LoopsOn(D, W)
             l == Loop(rest, start)
  <2>1. loops \in Seq(S)
    BY <1>3, LoopsOfFace
  <2>2. \A j \in 1 .. Len(loops) : j # plus.li => loops[j] \in T
    BY <1>3, <1>9
  <2>3. l \in T /\ ls = [loops EXCEPT ![plus.li] = l]
    BY <1>11
  <2> HIDE DEF S, T, l, ls, loops, plus
  <2>4. ls \in Seq(T) /\ Len(ls) = Len(loops)
    BY <1>3, <2>1, <2>2, <2>3, LoopPut
  <2> QED
    BY <1>3, <2>4 DEF T
<1>13. \A g \in LiveSlots(x.f) : g # f => IsFace(x.f.at[g], D, W)
  <2> HIDE DEF W, f
  <2> QED
    BY <1>9, FaceNarrows
<1> HIDE DEF z
<1> DEFINE y == SetLoops(z, f, ls)
<1>14. /\ Sound(y) /\ y.v = z.v /\ y.e = z.e /\ y.genus = z.genus
       /\ LiveSlots(y.f) = LiveSlots(z.f) /\ Len(LoopsOf(y, f)) = Len(ls)
       /\ LoopsOf(y, f) = CanonicalLoops(ls)
       /\ \A g \in LiveSlots(z.f) \ {f} : LoopsOf(y, g) = LoopsOf(z, g)
  <2>1. z.f.at[f] \in [surf : {z.f.at[f].surf}, dir : {z.f.at[f].dir}, shell : {0},
                       kept : {z.f.at[f].kept}, loops : {z.f.at[f].loops}]
    BY <1>3, <1>7, FaceOfSound
  <2>2. LiveSlots(z.v) = W /\ LiveSlots(z.e) = D /\ LiveSlots(z.f) = LiveSlots(x.f)
    BY <1>6, <1>7
  <2>3. \A g \in LiveSlots(z.f) \ {f} : IsFace(z.f.at[g], LiveSlots(z.e), LiveSlots(z.v))
    BY <1>7, <1>13, <2>2
  <2>4. \A k \in LiveSlots(z.e) : /\ z.e.at[k].start \in LiveSlots(z.v)
                                  /\ z.e.at[k].end \in LiveSlots(z.v)
    BY <1>1, <1>2, <1>6, <1>7
  <2>5. /\ Record(z) /\ z.genus \in Nat /\ IsPool(z.v) /\ IsPool(z.e) /\ IsPool(z.f)
        /\ f \in LiveSlots(z.f)
        /\ ls \in Seq(LoopsOn(LiveSlots(z.e), LiveSlots(z.v))) /\ ls # <<>>
    BY <1>1, <1>3, <1>6, <1>7, <1>12, <2>2
  <2> HIDE DEF ls, D, W, f
  <2> QED
    BY <2>1, <2>3, <2>4, <2>5, SetLoopsSound
<1>15. \A g \in LiveSlots(x.f) : LoopsOf(z, g) = LoopsOf(x, g)
  BY <1>7 DEF LoopsOf
<1>17. ls = KevLoops(x, e)
  BY DEF KevLoops
<1>18. EdgeMore(y, x, e)
  <2> HIDE DEF y
  <2> QED
    BY <1>3, <1>6, <1>7, <1>14 DEF EdgeMore
<1> HIDE DEF y, ls, f
<1>19. Edited(x, y, f, ls)
  BY <1>3, <1>6, <1>7, <1>12, <1>14, <1>15 DEF Edited
<1>16. SameFaces(x, y)
  BY <1>7, <1>12, <1>14, <1>15 DEF SameFaces
<1> QED
  BY <1>2, <1>3, <1>5, <1>6, <1>7, <1>8, <1>14, <1>16, <1>17, <1>18, <1>19 DEF y, f

LEMMA AllFromIs ==
    ASSUME NEW S, NEW s \in Seq(S), NEW i \in 0 .. Len(s)
    PROVE  /\ AllFrom(s, i) \in Seq(S) /\ Len(AllFrom(s, i)) = Len(s)
           /\ \A k \in 1 .. Len(s) : AllFrom(s, i)[k] = s[Wrap(i + k, Len(s))]
<1> DEFINE n == Len(s)
           p == SubSeq(s, i + 1, n)
           q == SubSeq(s, 1, i)
<1>1. n \in Nat /\ i \in Nat /\ i <= n
  OBVIOUS
<1>2. p \in Seq(S) /\ Len(p) = n - i /\ \A k \in 1 .. (n - i) : p[k] = s[i + k]
  BY <1>1
<1>3. q \in Seq(S) /\ Len(q) = i /\ \A k \in 1 .. i : q[k] = s[k]
  BY <1>1
<1>4. AllFrom(s, i) = p \o q
  BY DEF AllFrom
<1> HIDE DEF p, q, n
<1>5. /\ p \o q \in Seq(S) /\ Len(p \o q) = Len(p) + Len(q)
      /\ \A k \in 1 .. (Len(p) + Len(q)) :
           (p \o q)[k] = IF k <= Len(p) THEN p[k] ELSE q[k - Len(p)]
  BY <1>2, <1>3, ConcatProperties
<1>6. Len(p \o q) = n
  BY <1>1, <1>2, <1>3, <1>5
<1>7. ASSUME NEW k \in 1 .. n PROVE (p \o q)[k] = s[Wrap(i + k, n)]
  <2>1. CASE k <= n - i
    BY <1>1, <1>2, <1>3, <1>5, <2>1 DEF Wrap
  <2>2. CASE ~ (k <= n - i)
    <3>1. k - (n - i) \in 1 .. i /\ k - (n - i) = Wrap(i + k, n)
      BY <1>1, <2>2 DEF Wrap
    <3>2. (p \o q)[k] = q[k - (n - i)]
      BY <1>1, <1>2, <1>3, <1>5, <2>2
    <3> QED
      BY <1>3, <3>1, <3>2
  <2> QED
    BY <2>1, <2>2
<1> QED
  BY <1>4, <1>5, <1>6, <1>7 DEF n

LEMMA UseThen ==
    ASSUME NEW S, NEW u \in S, NEW p \in Seq(S)
    PROVE  /\ <<u>> \o p \in Seq(S) /\ Len(<<u>> \o p) = Len(p) + 1
           /\ (<<u>> \o p)[1] = u /\ <<u>> \o p # <<>>
           /\ \A k \in 1 .. Len(p) : (<<u>> \o p)[k + 1] = p[k]
<1> DEFINE h == <<u>>
<1>1. h \in Seq(S) /\ Len(h) = 1 /\ h[1] = u /\ Len(p) \in Nat
  OBVIOUS
<1> HIDE DEF h
<1>2. /\ h \o p \in Seq(S) /\ Len(h \o p) = Len(h) + Len(p)
      /\ \A k \in 1 .. (Len(h) + Len(p)) :
           (h \o p)[k] = IF k <= Len(h) THEN h[k] ELSE p[k - Len(h)]
  BY <1>1, ConcatProperties
<1>3. (h \o p)[1] = u /\ \A k \in 1 .. Len(p) : (h \o p)[k + 1] = p[k]
  BY <1>1, <1>2
<1> QED
  BY <1>1, <1>2, <1>3 DEF h

LEMMA NewFaceIs ==
    ASSUME NEW E \in SUBSET Nat, NEW V \in SUBSET Nat, NEW l \in LoopsOn(E, V),
           NEW surf, NEW dir
    PROVE  LET face == NewFace(surf, dir, 0, <<l>>) IN
           /\ IsFace(face, E, V)
           /\ face.loops = CanonicalLoops(<<l>>) /\ Len(face.loops) = 1
<1> DEFINE ls == <<l>>
<1>1. ls \in Seq(LoopsOn(E, V)) /\ Len(ls) = 1
  OBVIOUS
<1> HIDE DEF ls
<1>2. CanonicalLoops(ls) \in Seq(LoopsOn(E, V)) /\ Len(CanonicalLoops(ls)) = 1
  BY <1>1, CanonicalIs
<1>3. CanonicalLoops(ls) # <<>>
  BY <1>2
<1>4. IsFace(NewFace(surf, dir, 0, ls), E, V)
  BY <1>2, <1>3 DEF IsFace, NewFace
<1>5. NewFace(surf, dir, 0, ls).loops = CanonicalLoops(ls)
  BY DEF NewFace
<1> QED
  BY <1>2, <1>4, <1>5 DEF ls

\* The uses mef moves to the new face, and those it leaves.
IsTurn(s, i, j) == Len(s) > 0 /\ i = j + Len(s)
Moved(s, i, j) == CASE IsTurn(s, i, j) -> AllFrom(s, j)
                    [] i = j /\ ~ IsTurn(s, i, j) -> <<>>
                    [] OTHER -> Around(s, j, i)
Stay(s, i, j) == CASE IsTurn(s, i, j) -> <<>>
                   [] i = j /\ ~ IsTurn(s, i, j) -> AllFrom(s, i)
                   [] OTHER -> Around(s, i, j)

LEMMA SplitIs ==
    ASSUME NEW S, NEW s \in Seq(S), NEW i, NEW j \in 0 .. Len(s),
           i \in 0 .. Len(s) \/ IsTurn(s, i, j)
    PROVE  Moved(s, i, j) \in Seq(S) /\ Stay(s, i, j) \in Seq(S)
<1>1. CASE IsTurn(s, i, j)
  BY <1>1, AllFromIs DEF Moved, Stay
<1>2. CASE ~ IsTurn(s, i, j) /\ i = j
  BY <1>2, AllFromIs DEF Moved, Stay
<1>3. CASE ~ IsTurn(s, i, j) /\ i # j
  BY <1>3, AroundIs DEF Moved, Stay
<1> QED
  BY <1>1, <1>2, <1>3

MefMade(x, from, to, s) ==
    LET uses == LoopsOf(x, from.face)[from.li].uses
    IN  <<Loop(<<NewUse(x, FORWARD, s)>> \o Moved(uses, from.ci, to.ci), VertexAt(x, to))>>
MefLoops(x, from, to, s) ==
    LET loops == LoopsOf(x, from.face)
    IN  [loops EXCEPT ![from.li].uses = <<NewUse(x, REVERSED, s)>>
                                          \o Stay(loops[from.li].uses, from.ci, to.ci)]

\* What make-edge-face leaves of the edges and of the loops.
MefEdits(x, y, from, to, s) ==
    /\ EdgeMore(x, y, NewSlot(x.e))
    /\ EdgeFrom(y, NewSlot(x.e), VertexAt(x, from), VertexAt(x, to))
    /\ from.face \in LiveSlots(x.f)
    /\ Edited(x, y, from.face, MefLoops(x, from, to, s))
    /\ MadeOf(y, NewSlot(x.f), MefMade(x, from, to, s))

LEMMA MefIs ==
    ASSUME NEW x, Sound(x), NEW from, NEW to, NEW s \in Splits, CanMef(x, from, to, s)
    PROVE  LET y == Mef(x, from, to, s)
               m == NewSlot(x.f) IN
           /\ Sound(y) /\ y.v = x.v /\ y.genus = x.genus
           /\ LiveSlots(y.e) = LiveSlots(x.e) \cup {NewSlot(x.e)}
           /\ NewSlot(x.e) \notin LiveSlots(x.e)
           /\ LiveSlots(y.f) = LiveSlots(x.f) \cup {m} /\ m \notin LiveSlots(x.f)
           /\ Len(LoopsOf(y, m)) = 1
           /\ \A g \in LiveSlots(x.f) : Len(LoopsOf(y, g)) = Len(LoopsOf(x, g))
           /\ LiveSlots(x.f) # {}
           /\ MefEdits(x, y, from, to, s)
<1> DEFINE e == NewSlot(x.e)
           m == NewSlot(x.f)
           f == from.face
           end == VertexAt(x, to)
           loops == LoopsOf(x, f)
           uses == loops[from.li].uses
           moved == Moved(uses, from.ci, to.ci)
           stay == Stay(uses, from.ci, to.ci)
           edge == NewEdge(VertexAt(x, from), end, s.deg)
           away == <<Use(e, FORWARD, s.pcs[1])>> \o moved
           back == <<Use(e, REVERSED, s.pcs[2])>> \o stay
           left == NewFace(s.surf, s.dir, x.f.at[f].shell, <<Loop(away, end)>>)
           z == [x EXCEPT !.e = Fill(x.e, edge), !.f = Fill(x.f, left)]
           ls == [loops EXCEPT ![from.li].uses = back]
           V == LiveSlots(x.v)
           E == LiveSlots(x.e)
           F == LiveSlots(x.f)
           D == E \cup {e}
<1>1. /\ Record(x) /\ x.genus \in Nat /\ IsPool(x.v) /\ IsPool(x.e) /\ IsPool(x.f)
      /\ \A k \in E : x.e.at[k].start \in V /\ x.e.at[k].end \in V
      /\ E \in SUBSET Nat /\ V \in SUBSET Nat
  BY DEF Sound, IsPool
<1>2. /\ IsPool(Fill(x.e, edge)) /\ LiveSlots(Fill(x.e, edge)) = D /\ e \notin E /\ e \in Nat
      /\ Fill(x.e, edge).at[e] = edge /\ \A k \in E : Fill(x.e, edge).at[k] = x.e.at[k]
  BY <1>1, FillPool
<1>3. /\ IsPool(Fill(x.f, left)) /\ LiveSlots(Fill(x.f, left)) = F \cup {m} /\ m \notin F
      /\ Fill(x.f, left).at[m] = left /\ \A g \in F : Fill(x.f, left).at[g] = x.f.at[g]
  BY <1>1, FillPool
<1>4. /\ IsLoop(x, from) /\ from.face = to.face /\ from.li = to.li /\ IsLoop(x, to)
      /\ to.ci \in 0 .. Len(uses)
      /\ from.ci \in 0 .. Len(uses) \/ IsTurn(uses, from.ci, to.ci)
  BY DEF CanMef, IsJunction, LoopAt, FullTurn, IsTurn
<1>5. f \in F /\ from.li \in 1 .. Len(loops)
  BY <1>4, LoopsOfFace DEF IsLoop
<1>6. uses \in Seq(UsesOn(E)) /\ Len(uses) \in Nat
  BY <1>5, UsesTyped DEF UsesAt
<1>7. VertexAt(x, from) \in V /\ end \in V
  <2>1. to.ci \in Nat /\ from.ci \in Nat
    BY <1>4, <1>6 DEF IsTurn
  <2> QED
    BY <1>4, <2>1, VertexAtIsLive
<1>8. away \in Seq(UsesOn(D)) /\ back \in Seq(UsesOn(D)) /\ away # <<>> /\ back # <<>>
  <2>1. E \subseteq D /\ e \in D
    OBVIOUS
  <2>2. Use(e, FORWARD, s.pcs[1]) \in UsesOn(D) /\ Use(e, REVERSED, s.pcs[2]) \in UsesOn(D)
    BY <2>1, NewUseIs
  <2>3. uses \in Seq(UsesOn(D))
    <3> HIDE DEF D, E, uses
    <3> QED
      BY <1>6, <2>1, UsesGrow
  <2> DEFINE S == UsesOn(D)
  <2> HIDE DEF S, D, uses, e
  <2>4. moved \in Seq(S) /\ stay \in Seq(S)
    BY <1>4, <2>3, SplitIs DEF S
  <2> HIDE DEF moved, stay
  <2> QED
    BY <2>2, <2>4, UseThen DEF S
<1>9. Loop(away, end) \in LoopsOn(D, V)
  <2> HIDE DEF away, D, end
  <2> QED
    BY <1>8 DEF Loop, LoopsOn
<1>10. IsFace(left, D, V) /\ Len(left.loops) = 1
       /\ left.loops = CanonicalLoops(<<Loop(away, end)>>)
  <2>1. D \in SUBSET Nat /\ x.f.at[f].shell = 0
    BY <1>1, <1>2, <1>5, LoopsOfFace
  <2> DEFINE l == Loop(away, end)
  <2> HIDE DEF l
  <2>2. IsFace(NewFace(s.surf, s.dir, 0, <<l>>), D, V)
        /\ Len(NewFace(s.surf, s.dir, 0, <<l>>).loops) = 1
        /\ NewFace(s.surf, s.dir, 0, <<l>>).loops = CanonicalLoops(<<l>>)
    <3> HIDE DEF D, V
    <3> QED
      BY <1>1, <1>9, <2>1, NewFaceIs DEF l, V
  <2> QED
    BY <2>1, <2>2 DEF l
<1>11. Mef(x, from, to, s) = SetLoops(z, f, ls)
  BY <1>1 DEF Mef, FullTurn, Moved, Stay, IsTurn, Record
<1> HIDE DEF edge, left
<1>12. /\ z.v = x.v /\ z.e = Fill(x.e, edge) /\ z.f = Fill(x.f, left)
       /\ z.genus = x.genus /\ Record(z)
  BY <1>1 DEF Record
<1> HIDE DEF z
<1>13. ls \in Seq(LoopsOn(D, V)) /\ Len(ls) = Len(loops) /\ ls # <<>>
  <2>1. loops \in Seq(LoopsOn(D, V))
    <3>1. loops \in Seq(LoopsOn(E, V)) /\ E \subseteq D /\ V \subseteq V
      BY <1>5, LoopsOfFace
    <3> HIDE DEF E, V, D, loops
    <3> QED
      BY <3>1, LoopSeqGrows
  <2>2. ls \in Seq(LoopsOn(D, V)) /\ Len(ls) = Len(loops)
    <3> DEFINE l == [loops[from.li] EXCEPT !.uses = back]
    <3>1. ls = [loops EXCEPT ![from.li] = l]
      OBVIOUS
    <3> HIDE DEF ls, back, D, V, loops
    <3>2. l \in LoopsOn(D, V)
      BY <1>5, <1>8, <2>1, LoopGiven
    <3> HIDE DEF l
    <3> QED
      BY <1>5, <2>1, <3>1, <3>2, ExceptSeq
  <2> QED
    BY <1>5, <2>2
<1>14. \A g \in F : IsFace(x.f.at[g], D, V)
  <2>1. LiveSlots(x.e) \subseteq D /\ LiveSlots(x.v) \subseteq V
    OBVIOUS
  <2> HIDE DEF D, V
  <2> QED
    BY <2>1, FacesGrow
<1> DEFINE y == SetLoops(z, f, ls)
<1>15. /\ Sound(y) /\ y.v = z.v /\ y.e = z.e /\ y.genus = z.genus
       /\ LiveSlots(y.f) = LiveSlots(z.f) /\ Len(LoopsOf(y, f)) = Len(ls)
       /\ LoopsOf(y, f) = CanonicalLoops(ls)
       /\ \A g \in LiveSlots(z.f) \ {f} : LoopsOf(y, g) = LoopsOf(z, g)
  <2>1. z.f.at[f] \in [surf : {z.f.at[f].surf}, dir : {z.f.at[f].dir}, shell : {0},
                       kept : {z.f.at[f].kept}, loops : {z.f.at[f].loops}]
    <3>1. z.f.at[f] = x.f.at[f]
      BY <1>3, <1>5, <1>12
    <3> QED
      BY <1>5, <3>1, FaceOfSound
  <2>2. LiveSlots(z.v) = V /\ LiveSlots(z.e) = D /\ LiveSlots(z.f) = F \cup {m}
    BY <1>2, <1>3, <1>12
  <2>3. \A g \in LiveSlots(z.f) \ {f} : IsFace(z.f.at[g], LiveSlots(z.e), LiveSlots(z.v))
    BY <1>3, <1>10, <1>12, <1>14, <2>2
  <2>4. \A k \in LiveSlots(z.e) : /\ z.e.at[k].start \in LiveSlots(z.v)
                                  /\ z.e.at[k].end \in LiveSlots(z.v)
    <3>1. edge.start \in V /\ edge.end \in V
      BY <1>7 DEF edge, NewEdge
    <3> QED
      BY <1>1, <1>2, <1>12, <2>2, <3>1
  <2>5. /\ Record(z) /\ z.genus \in Nat /\ IsPool(z.v) /\ IsPool(z.e) /\ IsPool(z.f)
        /\ f \in LiveSlots(z.f)
        /\ ls \in Seq(LoopsOn(LiveSlots(z.e), LiveSlots(z.v))) /\ ls # <<>>
    BY <1>1, <1>2, <1>3, <1>5, <1>12, <1>13, <2>2
  <2> HIDE DEF ls, D, f
  <2> QED
    BY <2>1, <2>3, <2>4, <2>5, SetLoopsSound
<1>16. LoopsOf(z, m) = left.loops /\ \A g \in F : LoopsOf(z, g) = LoopsOf(x, g)
  BY <1>3, <1>12 DEF LoopsOf
<1>19. ls = MefLoops(x, from, to, s) /\ <<Loop(away, end)>> = MefMade(x, from, to, s)
  <2>1. Use(e, FORWARD, s.pcs[1]) = NewUse(x, FORWARD, s)
        /\ Use(e, REVERSED, s.pcs[2]) = NewUse(x, REVERSED, s)
    BY DEF NewUse, FORWARD, REVERSED
  <2>2. away = <<NewUse(x, FORWARD, s)>> \o moved /\ back = <<NewUse(x, REVERSED, s)>> \o stay
    BY <2>1
  <2> HIDE DEF away, back
  <2> QED
    BY <2>2 DEF MefLoops, MefMade
<1>20. EdgeMore(x, y, e) /\ EdgeFrom(y, e, VertexAt(x, from), end)
  <2>1. y.e = Fill(x.e, edge) /\ edge.start = VertexAt(x, from) /\ edge.end = end
    BY <1>12, <1>15 DEF edge, NewEdge
  <2> HIDE DEF y
  <2> QED
    BY <1>2, <2>1 DEF EdgeMore, EdgeFrom
<1>21. <<Loop(away, end)>> \in Seq(LoopsOn(LiveSlots(y.e), LiveSlots(y.v)))
  <2>1. LiveSlots(y.e) = D /\ LiveSlots(y.v) = V
    BY <1>2, <1>12, <1>15
  <2> DEFINE l == Loop(away, end)
  <2> HIDE DEF y, l
  <2> QED
    BY <1>9, <2>1 DEF l
<1> HIDE DEF y, ls, f, away, end
<1>22. LoopsOf(y, m) = CanonicalLoops(<<Loop(away, end)>>)
  BY <1>3, <1>5, <1>10, <1>12, <1>15, <1>16
<1>23. Edited(x, y, f, ls)
  BY <1>2, <1>3, <1>5, <1>12, <1>13, <1>15, <1>16 DEF Edited
<1>17. LiveSlots(y.f) = F \cup {m} /\ \A g \in F : Len(LoopsOf(y, g)) = Len(LoopsOf(x, g))
  BY <1>3, <1>12, <1>13, <1>15, <1>16 DEF f
<1>18. Len(LoopsOf(y, m)) = 1
  BY <1>3, <1>5, <1>10, <1>12, <1>15, <1>16
<1>24. MadeOf(y, m, MefMade(x, from, to, s))
  BY <1>19, <1>21, <1>22 DEF MadeOf
<1> QED
  <2>1. MefEdits(x, y, from, to, s)
    BY <1>5, <1>19, <1>20, <1>23, <1>24 DEF MefEdits, f, end
  <2> QED
    BY <1>2, <1>3, <1>5, <1>11, <1>12, <1>15, <1>17, <1>18, <2>1 DEF y, f

\* What is left of a loop without the use at place p, from the next use on.
WithoutUse(uses, p) == SubSeq(RotateTo(uses, p + 1), 2, Len(uses))

LEMMA WithoutUseIs ==
    ASSUME NEW S, NEW s \in Seq(S), NEW p \in Nat, p + 1 \in 1 .. Len(s)
    PROVE  /\ WithoutUse(s, p) \in Seq(S) /\ Len(WithoutUse(s, p)) = Len(s) - 1
           /\ \A i \in 1 .. (Len(s) - 1) :
                /\ WithoutUse(s, p)[i] = s[Wrap(i + 1 + p, Len(s))]
                /\ Wrap(i + 1 + p, Len(s)) \in 1 .. Len(s)
                /\ Wrap(i + 1 + p, Len(s)) # p + 1
<1> DEFINE n == Len(s)
           r == RotateTo(s, p + 1)
<1>1. n \in Nat /\ p + 1 <= n
  OBVIOUS
<1>2. /\ r \in Seq(S) /\ Len(r) = n
      /\ \A i \in 1 .. n : r[i] = s[Wrap(i + p, n)]
  <2>1. \A i \in 1 .. n : i + (p + 1) - 1 = i + p
    OBVIOUS
  <2> QED
    BY <2>1, RotateToIs
<1> HIDE DEF r, n
<1>3. /\ SubSeq(r, 2, n) \in Seq(S) /\ Len(SubSeq(r, 2, n)) = n - 1
      /\ \A i \in 1 .. (n - 1) : SubSeq(r, 2, n)[i] = r[i + 1]
  <2>1. /\ SubSeq(r, 2, n) \in Seq(S)
        /\ Len(SubSeq(r, 2, n)) = IF 2 <= n THEN n - 2 + 1 ELSE 0
        /\ \A i \in 1 .. (n - 2 + 1) : SubSeq(r, 2, n)[i] = r[2 + i - 1]
    BY <1>1, <1>2, PieceIs
  <2>2. \A i \in 1 .. (n - 1) : 2 + i - 1 = i + 1
    BY <1>1
  <2>3. n - 2 + 1 = n - 1
    BY <1>1
  <2> QED
    BY <1>1, <2>1, <2>2, <2>3
<1>4. ASSUME NEW i \in 1 .. (n - 1)
      PROVE  /\ SubSeq(r, 2, n)[i] = s[Wrap(i + 1 + p, n)]
             /\ Wrap(i + 1 + p, n) \in 1 .. n /\ Wrap(i + 1 + p, n) # p + 1
  <2>1. SubSeq(r, 2, n)[i] = s[Wrap(i + 1 + p, n)]
    <3>1. i + 1 \in 1 .. n
      BY <1>1
    <3> QED
      BY <1>2, <1>3, <3>1
  <2>2. Wrap(i + 1 + p, n) \in 1 .. n /\ Wrap(i + 1 + p, n) # p + 1
    BY <1>1 DEF Wrap
  <2> QED
    BY <2>1, <2>2
<1> QED
  BY <1>3, <1>4 DEF WithoutUse, r, n

\* A loop with the use at place m taken out and others put there.
Spliced(uses, m, t) == SubSeq(uses, 1, m) \o t \o SubSeq(uses, m + 2, Len(uses))

LEMMA SplicedIs ==
    ASSUME NEW S, NEW T, NEW s \in Seq(S), NEW m \in Nat, m + 1 \in 1 .. Len(s),
           NEW t \in Seq(T), \A k \in 1 .. Len(s) : k # m + 1 => s[k] \in T
    PROVE  Spliced(s, m, t) \in Seq(T)
<1> DEFINE n == Len(s)
           p == SubSeq(s, 1, m)
           q == SubSeq(s, m + 2, n)
<1>1. n \in Nat /\ m + 1 <= n
  OBVIOUS
<1>2. p \in Seq(T)
  <2>1. p \in Seq(S) /\ Len(p) = m /\ \A k \in 1 .. m : p[k] = s[k]
    BY <1>1
  <2>2. \A k \in 1 .. m : k \in 1 .. n /\ k # m + 1
    BY <1>1
  <2> HIDE DEF p
  <2> QED
    BY <2>1, <2>2, SeqOfMembers
<1>3. q \in Seq(T)
  <2>1. q \in Seq(S) /\ Len(q) = n - m - 1 /\ \A k \in 1 .. (n - m - 1) : q[k] = s[m + 1 + k]
    <3> DEFINE i == m + 2
    <3>4. i \in Nat /\ i >= 1 /\ n <= Len(s) /\ q = SubSeq(s, i, n)
      BY <1>1
    <3> HIDE DEF i, q, n
    <3>5. /\ q \in Seq(S) /\ Len(q) = IF i <= n THEN n - i + 1 ELSE 0
          /\ \A k \in 1 .. (n - i + 1) : q[k] = s[i + k - 1]
      BY <1>1, <3>4, PieceIs
    <3>1. /\ q \in Seq(S) /\ Len(q) = IF m + 2 <= n THEN n - (m + 2) + 1 ELSE 0
          /\ \A k \in 1 .. (n - (m + 2) + 1) : q[k] = s[m + 2 + k - 1]
      BY <3>5 DEF i
    <3>2. \A k \in 1 .. (n - m - 1) : m + 2 + k - 1 = m + 1 + k
      BY <1>1
    <3>3. n - (m + 2) + 1 = n - m - 1 /\ Len(q) = n - m - 1
      BY <1>1, <3>1
    <3> QED
      BY <3>1, <3>2, <3>3
  <2>2. \A k \in 1 .. (n - m - 1) : m + 1 + k \in 1 .. n /\ m + 1 + k # m + 1
    BY <1>1
  <2> HIDE DEF q
  <2>3. \A k \in 1 .. Len(q) : q[k] \in T
    BY <2>1, <2>2
  <2> QED
    BY <2>1, <2>3, SeqOfMembers
<1> HIDE DEF p, q
<1>4. p \o t \o q \in Seq(T)
  BY <1>2, <1>3, ThreePieces
<1> QED
  BY <1>4 DEF Spliced, p, q

KefLoops(x, e) ==
    LET plus == UseOf(x, e, FORWARD)
        minus == UseOf(x, e, REVERSED)
        spliced == WithoutUse(UsesAt(x, plus.face, plus.li), plus.ci)
        merged == Spliced(UsesAt(x, minus.face, minus.li), minus.ci, spliced)
    IN  [LoopsOf(x, minus.face) EXCEPT ![minus.li] = Loop(merged, x.e.at[e].start)]

LEMMA KefIs ==
    ASSUME NEW x, Sound(x), NEW e, CanKef(x, e)
    PROVE  LET y == Kef(x, e)
               g == UseOf(x, e, FORWARD).face IN
           /\ Sound(y) /\ y.v = x.v /\ y.genus = x.genus
           /\ LiveSlots(y.e) = LiveSlots(x.e) \ {e} /\ e \in LiveSlots(x.e)
           /\ LiveSlots(y.f) = LiveSlots(x.f) \ {g} /\ g \in LiveSlots(x.f)
           /\ Len(LoopsOf(x, g)) = 1
           /\ \A h \in LiveSlots(y.f) : Len(LoopsOf(y, h)) = Len(LoopsOf(x, h))
           /\ LiveSlots(y.f) # {}
           /\ EdgeMore(y, x, e)
           /\ UseOf(x, e, REVERSED).face # g
           /\ Edited(x, y, UseOf(x, e, REVERSED).face, KefLoops(x, e))
<1> DEFINE plus == UseOf(x, e, FORWARD)
           minus == UseOf(x, e, REVERSED)
           g == plus.face
           f == minus.face
           gone == UsesAt(x, g, plus.li)
           loops == LoopsOf(x, f)
           uses == UsesAt(x, f, minus.li)
           start == x.e.at[e].start
           spliced == WithoutUse(gone, plus.ci)
           merged == Spliced(uses, minus.ci, spliced)
           z == [x EXCEPT !.f = Vacate(x.f, g), !.e = Vacate(x.e, e)]
           ls == [loops EXCEPT ![minus.li] = Loop(merged, start)]
           V == LiveSlots(x.v)
           E == LiveSlots(x.e)
           F == LiveSlots(x.f)
           D == E \ {e}
<1>1. /\ Record(x) /\ x.genus \in Nat /\ IsPool(x.v) /\ IsPool(x.e) /\ IsPool(x.f)
      /\ \A k \in E : x.e.at[k].start \in V /\ x.e.at[k].end \in V
      /\ V \in SUBSET Nat
  BY DEF Sound, IsPool
<1>2. UsedBothWays(x, e) /\ g # f /\ Len(LoopsOf(x, g)) = 1
  BY DEF CanKef
<1>3. /\ e \in E /\ g \in F /\ plus.li \in 1 .. Len(LoopsOf(x, g))
      /\ plus.ci \in Nat /\ plus.ci + 1 \in 1 .. Len(gone)
      /\ f \in F /\ minus.li \in 1 .. Len(loops)
      /\ minus.ci \in Nat /\ minus.ci + 1 \in 1 .. Len(uses)
  BY <1>2, BothUses
<1>4. /\ IsPool(Vacate(x.e, e)) /\ LiveSlots(Vacate(x.e, e)) = D
      /\ \A k \in D : Vacate(x.e, e).at[k] = x.e.at[k]
  BY <1>1, <1>3, VacatePool
<1>5. /\ IsPool(Vacate(x.f, g)) /\ LiveSlots(Vacate(x.f, g)) = F \ {g}
      /\ \A h \in F \ {g} : Vacate(x.f, g).at[h] = x.f.at[h]
  BY <1>1, <1>3, VacatePool
<1>6. /\ z.v = x.v /\ z.e = Vacate(x.e, e) /\ z.f = Vacate(x.f, g)
      /\ z.genus = x.genus /\ Record(z)
  BY <1>1 DEF Record
<1>7. Kef(x, e) = SetLoops(z, f, ls)
  BY <1>1 DEF Kef, KefResult, Record, UsesAt, WithoutUse, Spliced, LoopsOf
<1>8. \A h \in F : \A li \in 1 .. Len(LoopsOf(x, h)) : \A k \in 1 .. Len(UsesAt(x, h, li)) :
        UsesAt(x, h, li)[k].edge = e =>
          \/ h = g /\ li = plus.li /\ k = plus.ci + 1
          \/ h = f /\ li = minus.li /\ k = minus.ci + 1
  <2> HIDE DEF plus, minus
  <2> QED
    BY <1>2, UsesElsewhere DEF plus, minus
<1>9. \A h \in F : \A li \in 1 .. Len(LoopsOf(x, h)) :
        h # g /\ (h # f \/ li # minus.li) => LoopsOf(x, h)[li] \in LoopsOn(D, V)
  <2> SUFFICES ASSUME NEW h \in F, NEW li \in 1 .. Len(LoopsOf(x, h)),
                      h # g, h # f \/ li # minus.li
               PROVE  LoopsOf(x, h)[li] \in LoopsOn(D, V)
    OBVIOUS
  <2> HIDE DEF plus, minus
  <2>1. \A k \in 1 .. Len(UsesAt(x, h, li)) : UsesAt(x, h, li)[k].edge # e
    BY <1>8
  <2>2. UsesAt(x, h, li) = <<>> => LoopsOf(x, h)[li].seed \in V
    BY UsesTyped
  <2> QED
    BY <2>1, <2>2, LoopOfSound
<1>10. merged \in Seq(UsesOn(D))
  <2>1. gone \in Seq(UsesOn(E)) /\ uses \in Seq(UsesOn(E))
    BY <1>3, UsesTyped
  <2>2. /\ \A k \in 1 .. Len(gone) : k # plus.ci + 1 => gone[k].edge # e
        /\ \A k \in 1 .. Len(uses) : k # minus.ci + 1 => uses[k].edge # e
    <3> HIDE DEF plus, minus
    <3> QED
      BY <1>2, <1>3, <1>8
  <2>3. /\ spliced \in Seq(UsesOn(E)) /\ Len(spliced) = Len(gone) - 1
        /\ \A i \in 1 .. (Len(gone) - 1) :
             /\ spliced[i] = gone[Wrap(i + 1 + plus.ci, Len(gone))]
             /\ Wrap(i + 1 + plus.ci, Len(gone)) \in 1 .. Len(gone)
             /\ Wrap(i + 1 + plus.ci, Len(gone)) # plus.ci + 1
    <3> DEFINE S == UsesOn(E)
    <3> HIDE DEF plus, gone, S
    <3> QED
      BY <1>3, <2>1, WithoutUseIs DEF S
  <2> HIDE DEF spliced, gone, uses, plus, minus
  <2>4. spliced \in Seq(UsesOn(D))
    <3>1. \A i \in 1 .. Len(spliced) : spliced[i].edge # e
      BY <2>2, <2>3
    <3> QED
      BY <2>3, <3>1, UsesNarrow
  <2>5. \A k \in 1 .. Len(uses) : k # minus.ci + 1 => uses[k] \in UsesOn(D)
    <3>1. \A k \in 1 .. Len(uses) : uses[k] \in UsesOn(E)
      BY <2>1
    <3>2. ASSUME NEW u \in UsesOn(E), u.edge # e PROVE u \in UsesOn(D)
      BY <3>2 DEF UsesOn
    <3> QED
      BY <2>2, <3>1, <3>2
  <2> DEFINE S == UsesOn(E)
             T == UsesOn(D)
  <2> HIDE DEF S, T
  <2> QED
    BY <1>3, <2>1, <2>4, <2>5, SplicedIs DEF S, T
<1>11. Loop(merged, start) \in LoopsOn(D, V)
  <2>1. start \in V /\ start \in Nat
    BY <1>1, <1>3
  <2> HIDE DEF merged, start, D
  <2> QED
    BY <1>10, <2>1 DEF Loop, LoopsOn
<1>12. ls \in Seq(LoopsOn(D, V)) /\ Len(ls) = Len(loops) /\ ls # <<>>
  <2> DEFINE S == LoopsOn(E, V)
             T == LoopsOn(D, V)
             l == Loop(merged, start)
  <2>1. loops \in Seq(S)
    BY <1>3, LoopsOfFace
  <2>2. \A j \in 1 .. Len(loops) : j # minus.li => loops[j] \in T
    BY <1>2, <1>3, <1>9
  <2>3. l \in T /\ ls = [loops EXCEPT ![minus.li] = l]
    BY <1>11
  <2>5. minus.li \in 1 .. Len(loops)
    BY <1>3
  <2> HIDE DEF S, T, l, ls, loops, minus
  <2>4. ls \in Seq(T) /\ Len(ls) = Len(loops)
    BY <2>1, <2>2, <2>3, <2>5, LoopPut
  <2> QED
    BY <1>3, <2>4 DEF T
<1>13. \A h \in F : h # g /\ h # f => IsFace(x.f.at[h], D, V)
  <2> HIDE DEF V, f, g
  <2> QED
    BY <1>9, FaceNarrows
<1> HIDE DEF z
<1> DEFINE y == SetLoops(z, f, ls)
<1>14. /\ Sound(y) /\ y.v = z.v /\ y.e = z.e /\ y.genus = z.genus
       /\ LiveSlots(y.f) = LiveSlots(z.f) /\ Len(LoopsOf(y, f)) = Len(ls)
       /\ LoopsOf(y, f) = CanonicalLoops(ls)
       /\ \A h \in LiveSlots(z.f) \ {f} : LoopsOf(y, h) = LoopsOf(z, h)
  <2>1. z.f.at[f] \in [surf : {z.f.at[f].surf}, dir : {z.f.at[f].dir}, shell : {0},
                       kept : {z.f.at[f].kept}, loops : {z.f.at[f].loops}]
    <3>1. z.f.at[f] = x.f.at[f]
      BY <1>2, <1>3, <1>5, <1>6
    <3> QED
      BY <1>3, <3>1, FaceOfSound
  <2>2. LiveSlots(z.v) = V /\ LiveSlots(z.e) = D /\ LiveSlots(z.f) = F \ {g}
    BY <1>4, <1>5, <1>6
  <2>3. \A h \in LiveSlots(z.f) \ {f} : IsFace(z.f.at[h], LiveSlots(z.e), LiveSlots(z.v))
    BY <1>5, <1>6, <1>13, <2>2
  <2>4. \A k \in LiveSlots(z.e) : /\ z.e.at[k].start \in LiveSlots(z.v)
                                  /\ z.e.at[k].end \in LiveSlots(z.v)
    BY <1>1, <1>4, <1>6
  <2>5. /\ Record(z) /\ z.genus \in Nat /\ IsPool(z.v) /\ IsPool(z.e) /\ IsPool(z.f)
        /\ f \in LiveSlots(z.f)
        /\ ls \in Seq(LoopsOn(LiveSlots(z.e), LiveSlots(z.v))) /\ ls # <<>>
    BY <1>1, <1>2, <1>3, <1>4, <1>5, <1>6, <1>12, <2>2
  <2> HIDE DEF ls, D, f
  <2> QED
    BY <2>1, <2>3, <2>4, <2>5, SetLoopsSound
<1>15. \A h \in F \ {g} : LoopsOf(z, h) = LoopsOf(x, h)
  BY <1>5, <1>6 DEF LoopsOf
<1>17. ls = KefLoops(x, e)
  BY DEF KefLoops
<1>18. EdgeMore(y, x, e)
  <2> HIDE DEF y
  <2> QED
    BY <1>3, <1>4, <1>6, <1>14 DEF EdgeMore
<1> HIDE DEF y, ls, f, g
<1>19. Edited(x, y, f, ls)
  BY <1>2, <1>3, <1>4, <1>5, <1>6, <1>12, <1>14, <1>15 DEF Edited
<1>16. \A h \in F \ {g} : Len(LoopsOf(y, h)) = Len(LoopsOf(x, h))
  BY <1>5, <1>6, <1>12, <1>14, <1>15
<1> QED
  BY <1>2, <1>3, <1>4, <1>5, <1>6, <1>7, <1>14, <1>16, <1>17, <1>18, <1>19 DEF y, f, g

\* The loop mekr makes: around the ring in between.
Joined(uses, i, ring, j, away, back) ==
    SubSeq(uses, 1, i) \o <<away>> \o AllFrom(ring, j) \o <<back>>
      \o SubSeq(uses, i + 1, Len(uses))

LEMMA FivePieces ==
    ASSUME NEW S, NEW p \in Seq(S), NEW u \in Seq(S), NEW t \in Seq(S), NEW w \in Seq(S),
           NEW q \in Seq(S)
    PROVE  /\ p \o u \o t \o w \o q \in Seq(S)
           /\ Len(p \o u \o t \o w \o q) = Len(p) + Len(u) + Len(t) + Len(w) + Len(q)
<1> DEFINE h == p \o u \o t
           k == h \o w
<1>1. h \in Seq(S) /\ Len(h) = Len(p) + Len(u) + Len(t)
  OBVIOUS
<1> HIDE DEF h
<1>2. k \in Seq(S) /\ Len(k) = Len(h) + Len(w)
  BY <1>1, ConcatProperties
<1> HIDE DEF k
<1>3. k \o q \in Seq(S) /\ Len(k \o q) = Len(k) + Len(q)
  BY <1>2, ConcatProperties
<1> QED
  BY <1>1, <1>2, <1>3 DEF h, k

LEMMA JoinedIs ==
    ASSUME NEW S, NEW s \in Seq(S), NEW i \in 0 .. Len(s), NEW r \in Seq(S), NEW j \in 0 .. Len(r),
           NEW a \in S, NEW c \in S
    PROVE  Joined(s, i, r, j, a, c) \in Seq(S) /\ Joined(s, i, r, j, a, c) # <<>>
<1> DEFINE p == SubSeq(s, 1, i)
           q == SubSeq(s, i + 1, Len(s))
           t == AllFrom(r, j)
           u == <<a>>
           w == <<c>>
<1>1. i \in Nat /\ i <= Len(s) /\ Len(s) \in Nat
  OBVIOUS
<1>2. p \in Seq(S) /\ q \in Seq(S) /\ u \in Seq(S) /\ w \in Seq(S) /\ t \in Seq(S)
  BY <1>1, PieceIs, AllFromIs
<1>3. Len(u) = 1
  OBVIOUS
<1> HIDE DEF p, q, t, u, w
<1> DEFINE h == p \o u \o t \o w \o q
<1>4. h \in Seq(S) /\ Len(h) = Len(p) + Len(u) + Len(t) + Len(w) + Len(q)
  BY <1>2, FivePieces
<1> HIDE DEF h
<1>5. Len(h) > 0
  BY <1>2, <1>3, <1>4
<1> QED
  BY <1>4, <1>5 DEF Joined, h, p, q, t, u, w

MekrPut(x, from, to, s) ==
    LET loops == LoopsOf(x, from.face)
    IN  [loops EXCEPT ![from.li].uses = Joined(loops[from.li].uses, from.ci, loops[to.li].uses, to.ci,
                                               NewUse(x, FORWARD, s), NewUse(x, REVERSED, s))]

LEMMA MekrIs ==
    ASSUME NEW x, Sound(x), NEW from, NEW to, NEW s \in Joins, CanMekr(x, from, to, s)
    PROVE  LET y == Mekr(x, from, to, s)
               f == from.face IN
           /\ Sound(y) /\ y.v = x.v /\ y.genus = x.genus
           /\ LiveSlots(y.e) = LiveSlots(x.e) \cup {NewSlot(x.e)}
           /\ NewSlot(x.e) \notin LiveSlots(x.e)
           /\ LiveSlots(y.f) = LiveSlots(x.f) /\ f \in LiveSlots(x.f)
           /\ Len(LoopsOf(x, f)) >= 2 /\ Len(LoopsOf(y, f)) = Len(LoopsOf(x, f)) - 1
           /\ \A g \in LiveSlots(x.f) \ {f} : Len(LoopsOf(y, g)) = Len(LoopsOf(x, g))
           /\ EdgeMore(x, y, NewSlot(x.e))
           /\ EdgeFrom(y, NewSlot(x.e), VertexAt(x, from), VertexAt(x, to))
           /\ MekrPut(x, from, to, s) \in Seq(LoopsOn(LiveSlots(y.e), LiveSlots(y.v)))
           /\ Edited(x, y, f, RemoveAt(MekrPut(x, from, to, s), to.li))
<1> DEFINE e == NewSlot(x.e)
           f == from.face
           loops == LoopsOf(x, f)
           uses == loops[from.li].uses
           ring == loops[to.li].uses
           edge == NewEdge(VertexAt(x, from), VertexAt(x, to), s.deg)
           away == Use(e, FORWARD, s.pcs[1])
           back == Use(e, REVERSED, s.pcs[2])
           merged == Joined(uses, from.ci, ring, to.ci, away, back)
           z == [x EXCEPT !.e = Fill(x.e, edge)]
           put == [loops EXCEPT ![from.li].uses = merged]
           ls == RemoveAt(put, to.li)
           V == LiveSlots(x.v)
           E == LiveSlots(x.e)
           D == E \cup {e}
<1>1. /\ Record(x) /\ x.genus \in Nat /\ IsPool(x.v) /\ IsPool(x.e) /\ IsPool(x.f)
      /\ \A k \in E : x.e.at[k].start \in V /\ x.e.at[k].end \in V
  BY DEF Sound
<1>2. /\ IsPool(Fill(x.e, edge)) /\ LiveSlots(Fill(x.e, edge)) = D /\ e \notin E
      /\ Fill(x.e, edge).at[e] = edge /\ \A k \in E : Fill(x.e, edge).at[k] = x.e.at[k]
  BY <1>1, FillPool
<1>3. /\ IsLoop(x, from) /\ from.face = to.face /\ from.li # to.li /\ IsLoop(x, to)
      /\ from.ci \in 0 .. Len(uses) /\ to.ci \in 0 .. Len(ring)
  BY DEF CanMekr, IsJunction, LoopAt
<1>4. f \in LiveSlots(x.f) /\ from.li \in 1 .. Len(loops) /\ to.li \in 1 .. Len(loops)
  BY <1>3, LoopsOfFace DEF IsLoop
<1>5. uses \in Seq(UsesOn(E)) /\ Len(uses) \in Nat /\ ring \in Seq(UsesOn(E)) /\ Len(ring) \in Nat
  BY <1>4, UsesTyped DEF UsesAt
<1>6. VertexAt(x, from) \in V /\ VertexAt(x, to) \in V
  <2>1. to.ci \in Nat /\ from.ci \in Nat
    BY <1>3, <1>5
  <2> QED
    BY <1>3, <2>1, VertexAtIsLive
<1>7. merged \in Seq(UsesOn(D)) /\ merged # <<>>
  <2>1. E \subseteq D /\ e \in D
    OBVIOUS
  <2>2. away \in UsesOn(D) /\ back \in UsesOn(D)
    BY <2>1, NewUseIs
  <2>3. uses \in Seq(UsesOn(D)) /\ ring \in Seq(UsesOn(D))
    <3> HIDE DEF D, E, uses, ring
    <3> QED
      BY <1>5, <2>1, UsesGrow
  <2> DEFINE S == UsesOn(D)
  <2> HIDE DEF S, D, uses, ring, away, back
  <2> QED
    BY <1>3, <2>2, <2>3, JoinedIs DEF S
<1>8. Mekr(x, from, to, s) = SetLoops(z, f, ls)
  BY <1>1 DEF Mekr, Joined, Record
<1> HIDE DEF edge
<1>9. /\ z.v = x.v /\ z.e = Fill(x.e, edge) /\ z.f = x.f
      /\ z.genus = x.genus /\ Record(z)
  BY <1>1 DEF Record
<1> HIDE DEF z
<1>10. Len(loops) >= 2
  <2>1. Len(loops) \in Nat
    BY <1>4, LoopsOfFace
  <2> HIDE DEF loops
  <2> QED
    BY <1>3, <1>4, <2>1
<1>11. ls \in Seq(LoopsOn(D, V)) /\ Len(ls) = Len(loops) - 1 /\ put \in Seq(LoopsOn(D, V))
  <2>1. loops \in Seq(LoopsOn(D, V))
    <3>1. loops \in Seq(LoopsOn(E, V)) /\ E \subseteq D /\ V \subseteq V
      BY <1>4, LoopsOfFace
    <3> HIDE DEF E, V, D, loops
    <3> QED
      BY <3>1, LoopSeqGrows
  <2>2. put \in Seq(LoopsOn(D, V)) /\ Len(put) = Len(loops)
    <3> DEFINE l == [loops[from.li] EXCEPT !.uses = merged]
    <3>1. put = [loops EXCEPT ![from.li] = l]
      OBVIOUS
    <3> HIDE DEF put, merged, D, V, loops
    <3>2. l \in LoopsOn(D, V)
      BY <1>4, <1>7, <2>1, LoopGiven
    <3> HIDE DEF l
    <3> QED
      BY <1>4, <2>1, <3>1, <3>2, ExceptSeq
  <2> DEFINE S == LoopsOn(D, V)
  <2> HIDE DEF put, loops, S
  <2> QED
    BY <1>4, <2>2, RemoveAtIs DEF S
<1>12. ls # <<>>
  <2> HIDE DEF ls, loops
  <2> QED
    BY <1>4, <1>10, <1>11
<1>13. \A g \in LiveSlots(x.f) : IsFace(x.f.at[g], D, V)
  <2>1. LiveSlots(x.e) \subseteq D /\ LiveSlots(x.v) \subseteq V
    OBVIOUS
  <2> HIDE DEF D, V
  <2> QED
    BY <2>1, FacesGrow
<1> DEFINE y == SetLoops(z, f, ls)
<1>14. /\ Sound(y) /\ y.v = z.v /\ y.e = z.e /\ y.genus = z.genus
       /\ LiveSlots(y.f) = LiveSlots(z.f) /\ Len(LoopsOf(y, f)) = Len(ls)
       /\ LoopsOf(y, f) = CanonicalLoops(ls)
       /\ \A g \in LiveSlots(z.f) \ {f} : LoopsOf(y, g) = LoopsOf(z, g)
  <2>1. z.f.at[f] \in [surf : {z.f.at[f].surf}, dir : {z.f.at[f].dir}, shell : {0},
                       kept : {z.f.at[f].kept}, loops : {z.f.at[f].loops}]
    BY <1>4, <1>9, FaceOfSound
  <2>2. LiveSlots(z.v) = V /\ LiveSlots(z.e) = D /\ LiveSlots(z.f) = LiveSlots(x.f)
    BY <1>2, <1>9
  <2>3. \A g \in LiveSlots(z.f) \ {f} : IsFace(z.f.at[g], LiveSlots(z.e), LiveSlots(z.v))
    BY <1>9, <1>13, <2>2
  <2>4. \A k \in LiveSlots(z.e) : /\ z.e.at[k].start \in LiveSlots(z.v)
                                  /\ z.e.at[k].end \in LiveSlots(z.v)
    <3>1. edge.start \in V /\ edge.end \in V
      BY <1>6 DEF edge, NewEdge
    <3> QED
      BY <1>1, <1>2, <1>9, <2>2, <3>1
  <2>5. /\ Record(z) /\ z.genus \in Nat /\ IsPool(z.v) /\ IsPool(z.e) /\ IsPool(z.f)
        /\ f \in LiveSlots(z.f)
        /\ ls \in Seq(LoopsOn(LiveSlots(z.e), LiveSlots(z.v))) /\ ls # <<>>
    BY <1>1, <1>2, <1>4, <1>9, <1>11, <1>12, <2>2
  <2> HIDE DEF ls, D, f
  <2> QED
    BY <2>1, <2>3, <2>4, <2>5, SetLoopsSound
<1>15. \A g \in LiveSlots(x.f) : LoopsOf(z, g) = LoopsOf(x, g)
  BY <1>9 DEF LoopsOf
<1>17. put = MekrPut(x, from, to, s)
  <2>1. away = NewUse(x, FORWARD, s) /\ back = NewUse(x, REVERSED, s)
    BY DEF NewUse, FORWARD, REVERSED
  <2> HIDE DEF away, back
  <2> QED
    BY <2>1 DEF MekrPut
<1>18. EdgeMore(x, y, e) /\ EdgeFrom(y, e, VertexAt(x, from), VertexAt(x, to))
  <2>1. y.e = Fill(x.e, edge) /\ edge.start = VertexAt(x, from) /\ edge.end = VertexAt(x, to)
    BY <1>9, <1>14 DEF edge, NewEdge
  <2> HIDE DEF y
  <2> QED
    BY <1>2, <2>1 DEF EdgeMore, EdgeFrom
<1>20. LiveSlots(y.e) = D /\ LiveSlots(y.v) = V
  BY <1>2, <1>9, <1>14
<1> HIDE DEF y, put, f
<1>21. ls = RemoveAt(put, to.li)
  OBVIOUS
<1> HIDE DEF ls
<1>19. Edited(x, y, f, ls)
  BY <1>4, <1>9, <1>11, <1>14, <1>15, <1>20 DEF Edited
<1>16. \A g \in LiveSlots(x.f) \ {f} : Len(LoopsOf(y, g)) = Len(LoopsOf(x, g))
  BY <1>9, <1>14, <1>15
<1> QED
  BY <1>2, <1>4, <1>8, <1>9, <1>10, <1>11, <1>14, <1>16, <1>17, <1>18, <1>19, <1>20, <1>21 DEF y, f

\* What kemr cuts out of a loop between two of its uses.
LEMMA BetweenIs ==
    ASSUME NEW S, NEW s \in Seq(S), NEW p \in Nat, p + 1 \in 1 .. Len(s),
           NEW m \in Nat, m + 1 \in 1 .. Len(s), p # m
    PROVE  LET t == Around(s, (p + 1) % Len(s), m) IN
           /\ t \in Seq(S)
           /\ Len(t) = IF p < m THEN m - p - 1 ELSE Len(s) - (p + 1) + m
           /\ \A k \in 1 .. Len(t) :
                /\ t[k] = s[Wrap(p + 1 + k, Len(s))]
                /\ Wrap(p + 1 + k, Len(s)) \in 1 .. Len(s)
                /\ Wrap(p + 1 + k, Len(s)) # p + 1 /\ Wrap(p + 1 + k, Len(s)) # m + 1
<1> DEFINE n == Len(s)
           i == (p + 1) % n
           t == Around(s, i, m)
<1>1. n \in Nat /\ p + 1 <= n /\ m + 1 <= n /\ n >= 2
  OBVIOUS
<1> HIDE DEF n
<1>2. i = IF p + 1 = n THEN 0 ELSE p + 1
  <2>1. CASE p + 1 = n
    BY <1>1, <2>1
  <2>2. CASE p + 1 # n
    BY <1>1, <2>2
  <2> QED
    BY <2>1, <2>2
<1> HIDE DEF i
<1>3. i \in 0 .. n /\ m \in 0 .. n
  BY <1>1, <1>2
<1>4. /\ t \in Seq(S) /\ Len(t) = IF i <= m THEN m - i ELSE n - i + m
      /\ \A k \in 1 .. Len(t) : t[k] = s[Wrap(i + k, n)]
  BY <1>3, AroundIs DEF n
<1> HIDE DEF t
<1>5. Len(t) = IF p < m THEN m - p - 1 ELSE n - (p + 1) + m
  BY <1>1, <1>2, <1>4
<1>6. ASSUME NEW k \in 1 .. Len(t)
      PROVE  /\ Wrap(i + k, n) = Wrap(p + 1 + k, n)
             /\ Wrap(p + 1 + k, n) \in 1 .. n
             /\ Wrap(p + 1 + k, n) # p + 1 /\ Wrap(p + 1 + k, n) # m + 1
  <2>1. k \in Nat /\ k >= 1 /\ (p < m => k <= m - p - 1) /\ (~ (p < m) => k <= n - (p + 1) + m)
    BY <1>1, <1>5
  <2>2. CASE p < m
    BY <1>1, <1>2, <2>1, <2>2 DEF Wrap
  <2>3. CASE ~ (p < m)
    <3>1. m < p
      BY <2>3
    <3>2. CASE p + 1 = n
      BY <1>1, <1>2, <2>1, <3>1, <3>2 DEF Wrap
    <3>3. CASE p + 1 # n
      BY <1>1, <1>2, <2>1, <3>1, <3>3 DEF Wrap
    <3> QED
      BY <3>2, <3>3
  <2> QED
    BY <2>2, <2>3
<1> QED
  BY <1>4, <1>5, <1>6 DEF t, i, n

KemrRing(x, e) ==
    LET plus == UseOf(x, e, FORWARD)
        uses == UsesAt(x, plus.face, plus.li)
    IN  Around(uses, (plus.ci + 1) % Len(uses), UseOf(x, e, REVERSED).ci)
KemrRest(x, e) ==
    LET plus == UseOf(x, e, FORWARD)
        uses == UsesAt(x, plus.face, plus.li)
    IN  Around(uses, (UseOf(x, e, REVERSED).ci + 1) % Len(uses), plus.ci)
KemrPut(x, e) ==
    [LoopsOf(x, UseOf(x, e, FORWARD).face) EXCEPT ![UseOf(x, e, FORWARD).li] =
        Loop(KemrRest(x, e), x.e.at[e].start)]

LEMMA KemrIs ==
    ASSUME NEW x, Sound(x), NEW e, CanKemr(x, e)
    PROVE  LET y == Kemr(x, e)
               f == UseOf(x, e, FORWARD).face IN
           /\ Sound(y) /\ y.v = x.v /\ y.genus = x.genus
           /\ LiveSlots(y.e) = LiveSlots(x.e) \ {e} /\ e \in LiveSlots(x.e)
           /\ LiveSlots(y.f) = LiveSlots(x.f) /\ f \in LiveSlots(x.f)
           /\ Len(LoopsOf(y, f)) = Len(LoopsOf(x, f)) + 1
           /\ \A g \in LiveSlots(x.f) \ {f} : Len(LoopsOf(y, g)) = Len(LoopsOf(x, g))
           /\ EdgeMore(y, x, e)
           /\ KemrPut(x, e) \in Seq(LoopsOn(LiveSlots(y.e), LiveSlots(y.v)))
           /\ Loop(KemrRing(x, e), x.e.at[e].end) \in LoopsOn(LiveSlots(y.e), LiveSlots(y.v))
           /\ Edited(x, y, f, Append(KemrPut(x, e), Loop(KemrRing(x, e), x.e.at[e].end)))
<1> DEFINE plus == UseOf(x, e, FORWARD)
           minus == UseOf(x, e, REVERSED)
           f == plus.face
           loops == LoopsOf(x, f)
           uses == UsesAt(x, f, plus.li)
           n == Len(uses)
           ring == Around(uses, (plus.ci + 1) % n, minus.ci)
           rest == Around(uses, (minus.ci + 1) % n, plus.ci)
           start == x.e.at[e].start
           end == x.e.at[e].end
           z == [x EXCEPT !.e = Vacate(x.e, e)]
           put == [loops EXCEPT ![plus.li] = Loop(rest, start)]
           ls == Append(put, Loop(ring, end))
           V == LiveSlots(x.v)
           E == LiveSlots(x.e)
           D == E \ {e}
<1>1. /\ Record(x) /\ x.genus \in Nat /\ IsPool(x.v) /\ IsPool(x.e) /\ IsPool(x.f)
      /\ \A k \in E : x.e.at[k].start \in V /\ x.e.at[k].end \in V
      /\ V \in SUBSET Nat
  BY DEF Sound, IsPool
<1>2. UsedBothWays(x, e) /\ f = minus.face /\ plus.li = minus.li
  BY DEF CanKemr
<1>3. /\ e \in E /\ f \in LiveSlots(x.f) /\ plus.li \in 1 .. Len(loops)
      /\ plus.ci \in Nat /\ plus.ci + 1 \in 1 .. n /\ uses[plus.ci + 1].dir = FORWARD
  BY <1>2, BothUses
<1>4. /\ minus.ci \in Nat /\ minus.ci + 1 \in 1 .. n /\ uses[minus.ci + 1].dir = REVERSED
      /\ plus.ci # minus.ci
  <2>1. /\ minus.ci \in Nat /\ minus.ci + 1 \in 1 .. Len(UsesAt(x, minus.face, minus.li))
        /\ UsesAt(x, minus.face, minus.li)[minus.ci + 1].dir = REVERSED
    BY <1>2, BothUses
  <2> HIDE DEF plus, minus
  <2> QED
    BY <1>2, <1>3, <2>1 DEF FORWARD, REVERSED
<1>5. /\ IsPool(Vacate(x.e, e)) /\ LiveSlots(Vacate(x.e, e)) = D
      /\ \A k \in D : Vacate(x.e, e).at[k] = x.e.at[k]
  BY <1>1, <1>3, VacatePool
<1>6. /\ z.v = x.v /\ z.e = Vacate(x.e, e) /\ z.f = x.f
      /\ z.genus = x.genus /\ Record(z)
  BY <1>1 DEF Record
<1>7. Kemr(x, e) = SetLoops(z, f, ls)
  <2>1. RestAndRing(rest, ring, x.e.at[e])[1] = Loop(rest, start)
        /\ RestAndRing(rest, ring, x.e.at[e])[2] = Loop(ring, end)
    BY DEF RestAndRing
  <2> QED
    BY <1>1, <2>1 DEF Kemr, KemrResult, Record, UsesAt
<1>8. \A g \in LiveSlots(x.f) : \A li \in 1 .. Len(LoopsOf(x, g)) :
        g # f \/ li # plus.li => LoopsOf(x, g)[li] \in LoopsOn(D, V)
  <2> SUFFICES ASSUME NEW g \in LiveSlots(x.f), NEW li \in 1 .. Len(LoopsOf(x, g)),
                      g # f \/ li # plus.li
               PROVE  LoopsOf(x, g)[li] \in LoopsOn(D, V)
    OBVIOUS
  <2> HIDE DEF plus, minus
  <2>1. ASSUME NEW k \in 1 .. Len(UsesAt(x, g, li)), UsesAt(x, g, li)[k].edge = e
        PROVE  FALSE
    BY <1>2, <2>1, UsesElsewhere DEF plus, minus
  <2>2. UsesAt(x, g, li) = <<>> => LoopsOf(x, g)[li].seed \in V
    BY UsesTyped
  <2> QED
    BY <2>1, <2>2, LoopOfSound
<1>9. rest \in Seq(UsesOn(D)) /\ ring \in Seq(UsesOn(D))
  <2>1. uses \in Seq(UsesOn(E))
    BY <1>3, UsesTyped
  <2>2. ASSUME NEW k \in 1 .. Len(uses), k # plus.ci + 1, k # minus.ci + 1
        PROVE  uses[k].edge # e
    <3> HIDE DEF plus, minus
    <3> QED
      BY <1>2, <1>3, <2>2, UsesElsewhere DEF plus, minus
  <2> DEFINE S == UsesOn(E)
             apart(t, p, m) ==
                /\ t \in Seq(S)
                /\ \A k \in 1 .. Len(t) :
                     /\ t[k] = uses[Wrap(p + 1 + k, n)]
                     /\ Wrap(p + 1 + k, n) \in 1 .. n
                     /\ Wrap(p + 1 + k, n) # p + 1 /\ Wrap(p + 1 + k, n) # m + 1
  <2>3. apart(ring, plus.ci, minus.ci) /\ apart(rest, minus.ci, plus.ci)
    <3> DEFINE p == plus.ci
               m == minus.ci
    <3>1. /\ uses \in Seq(S) /\ p \in Nat /\ m \in Nat /\ p # m
          /\ p + 1 \in 1 .. n /\ m + 1 \in 1 .. n
      BY <1>3, <1>4, <2>1
    <3> HIDE DEF p, m, uses, S
    <3>2. apart(Around(uses, (p + 1) % Len(uses), m), p, m)
      BY <3>1, BetweenIs
    <3>3. apart(Around(uses, (m + 1) % Len(uses), p), m, p)
      BY <3>1, BetweenIs
    <3> QED
      BY <3>2, <3>3 DEF p, m
  <2>4. ring \in Seq(UsesOn(E)) /\ rest \in Seq(UsesOn(E))
    BY <2>3
  <2> HIDE DEF ring, rest, uses, plus, minus
  <2>5. /\ \A i \in 1 .. Len(rest) : rest[i].edge # e
        /\ \A i \in 1 .. Len(ring) : ring[i].edge # e
    BY <2>2, <2>3, <2>4
  <2> QED
    BY <2>3, <2>4, <2>5, UsesNarrow
<1>10. Loop(rest, start) \in LoopsOn(D, V) /\ Loop(ring, end) \in LoopsOn(D, V)
  <2>1. start \in V /\ start \in Nat /\ end \in V /\ end \in Nat
    BY <1>1, <1>3
  <2> HIDE DEF rest, ring, start, end, D
  <2> QED
    BY <1>9, <2>1 DEF Loop, LoopsOn
<1>11. ls \in Seq(LoopsOn(D, V)) /\ Len(ls) = Len(loops) + 1 /\ ls # <<>> /\ put \in Seq(LoopsOn(D, V))
  <2> DEFINE S == LoopsOn(E, V)
             T == LoopsOn(D, V)
             l == Loop(rest, start)
             k == Loop(ring, end)
  <2>1. loops \in Seq(S)
    BY <1>3, LoopsOfFace
  <2>2. \A j \in 1 .. Len(loops) : j # plus.li => loops[j] \in T
    BY <1>3, <1>8
  <2>3. l \in T /\ k \in T /\ put = [loops EXCEPT ![plus.li] = l] /\ ls = Append(put, k)
    BY <1>10
  <2> HIDE DEF S, T, l, k, put, ls, loops, plus
  <2>4. put \in Seq(T) /\ Len(put) = Len(loops)
    BY <1>3, <2>1, <2>2, <2>3, LoopPut
  <2>5. ls \in Seq(T) /\ Len(ls) = Len(loops) + 1 /\ ls # <<>>
    BY <2>3, <2>4
  <2> QED
    BY <2>4, <2>5 DEF T
<1>12. \A g \in LiveSlots(x.f) : g # f => IsFace(x.f.at[g], D, V)
  <2> HIDE DEF V, f
  <2> QED
    BY <1>8, FaceNarrows
<1> HIDE DEF z
<1> DEFINE y == SetLoops(z, f, ls)
<1>13. /\ Sound(y) /\ y.v = z.v /\ y.e = z.e /\ y.genus = z.genus
       /\ LiveSlots(y.f) = LiveSlots(z.f) /\ Len(LoopsOf(y, f)) = Len(ls)
       /\ LoopsOf(y, f) = CanonicalLoops(ls)
       /\ \A g \in LiveSlots(z.f) \ {f} : LoopsOf(y, g) = LoopsOf(z, g)
  <2>1. z.f.at[f] \in [surf : {z.f.at[f].surf}, dir : {z.f.at[f].dir}, shell : {0},
                       kept : {z.f.at[f].kept}, loops : {z.f.at[f].loops}]
    BY <1>3, <1>6, FaceOfSound
  <2>2. LiveSlots(z.v) = V /\ LiveSlots(z.e) = D /\ LiveSlots(z.f) = LiveSlots(x.f)
    BY <1>5, <1>6
  <2>3. \A g \in LiveSlots(z.f) \ {f} : IsFace(z.f.at[g], LiveSlots(z.e), LiveSlots(z.v))
    BY <1>6, <1>12, <2>2
  <2>4. \A k \in LiveSlots(z.e) : /\ z.e.at[k].start \in LiveSlots(z.v)
                                  /\ z.e.at[k].end \in LiveSlots(z.v)
    BY <1>1, <1>5, <1>6
  <2>5. /\ Record(z) /\ z.genus \in Nat /\ IsPool(z.v) /\ IsPool(z.e) /\ IsPool(z.f)
        /\ f \in LiveSlots(z.f)
        /\ ls \in Seq(LoopsOn(LiveSlots(z.e), LiveSlots(z.v))) /\ ls # <<>>
    BY <1>1, <1>3, <1>5, <1>6, <1>11, <2>2
  <2> HIDE DEF ls, D, f
  <2> QED
    BY <2>1, <2>3, <2>4, <2>5, SetLoopsSound
<1>14. \A g \in LiveSlots(x.f) : LoopsOf(z, g) = LoopsOf(x, g)
  BY <1>6 DEF LoopsOf
<1>16. put = KemrPut(x, e) /\ Loop(ring, end) = Loop(KemrRing(x, e), x.e.at[e].end)
  BY DEF KemrPut, KemrRing, KemrRest
<1>17. EdgeMore(y, x, e)
  <2> HIDE DEF y
  <2> QED
    BY <1>3, <1>5, <1>6, <1>13 DEF EdgeMore
<1>18. LiveSlots(y.e) = D /\ LiveSlots(y.v) = V
  BY <1>5, <1>6, <1>13
<1> DEFINE lifted == Loop(ring, end)
<1> HIDE DEF y, put, f, lifted
<1>19. ls = Append(put, lifted)
  BY DEF lifted
<1>20. lifted \in LoopsOn(D, V) /\ lifted = Loop(KemrRing(x, e), x.e.at[e].end)
  BY <1>10, <1>16 DEF lifted
<1> HIDE DEF ls
<1>21. Edited(x, y, f, ls)
  BY <1>3, <1>6, <1>11, <1>13, <1>14, <1>18 DEF Edited
<1>15. \A g \in LiveSlots(x.f) \ {f} : Len(LoopsOf(y, g)) = Len(LoopsOf(x, g))
  BY <1>6, <1>13, <1>14
<1> QED
  BY <1>3, <1>5, <1>6, <1>7, <1>11, <1>13, <1>15, <1>16, <1>17, <1>18, <1>19, <1>20, <1>21 DEF y, f

LEMMA KfmrhIs ==
    ASSUME NEW x, Sound(x), NEW kill, NEW f, CanKfmrh(x, kill, f)
    PROVE  LET y == Kfmrh(x, kill, f) IN
           /\ Sound(y) /\ y.v = x.v /\ y.e = x.e /\ y.genus = x.genus + 1
           /\ LiveSlots(y.f) = LiveSlots(x.f) \ {kill}
           /\ kill \in LiveSlots(x.f) /\ f \in LiveSlots(y.f)
           /\ Len(LoopsOf(x, kill)) = 1
           /\ Len(LoopsOf(y, f)) = Len(LoopsOf(x, f)) + 1
           /\ \A g \in LiveSlots(y.f) \ {f} : Len(LoopsOf(y, g)) = Len(LoopsOf(x, g))
           /\ f \in LiveSlots(x.f) /\ f # kill
           /\ Edited(x, y, f, Append(LoopsOf(x, f), LoopsOf(x, kill)[1]))
<1> DEFINE loops == LoopsOf(x, f)
           ring == LoopsOf(x, kill)[1]
           z == [x EXCEPT !.f = Vacate(x.f, kill), !.genus = x.genus + 1]
           ls == Append(loops, ring)
           V == LiveSlots(x.v)
           E == LiveSlots(x.e)
           F == LiveSlots(x.f)
<1>1. /\ Record(x) /\ x.genus \in Nat /\ IsPool(x.v) /\ IsPool(x.e) /\ IsPool(x.f)
      /\ \A k \in E : x.e.at[k].start \in V /\ x.e.at[k].end \in V
      /\ \A g \in F : IsFace(x.f.at[g], E, V)
  BY DEF Sound
<1>2. kill \in F /\ f \in F /\ kill # f /\ Len(LoopsOf(x, kill)) = 1
  BY DEF CanKfmrh
<1>3. /\ IsPool(Vacate(x.f, kill)) /\ LiveSlots(Vacate(x.f, kill)) = F \ {kill}
      /\ \A g \in F \ {kill} : Vacate(x.f, kill).at[g] = x.f.at[g]
  BY <1>1, <1>2, VacatePool
<1>4. /\ z.v = x.v /\ z.e = x.e /\ z.f = Vacate(x.f, kill)
      /\ z.genus = x.genus + 1 /\ Record(z)
  BY <1>1 DEF Record
<1>5. Kfmrh(x, kill, f) = SetLoops(z, f, ls)
  BY <1>1 DEF Kfmrh, KfmrhResult, Record
<1>6. ls \in Seq(LoopsOn(E, V)) /\ Len(ls) = Len(loops) + 1 /\ ls # <<>>
  <2> DEFINE S == LoopsOn(E, V)
  <2>1. loops \in Seq(S) /\ ring \in S
    BY <1>2, LoopsOfFace
  <2> HIDE DEF S, loops, ring
  <2>2. ls \in Seq(S) /\ Len(ls) = Len(loops) + 1 /\ ls # <<>>
    BY <2>1
  <2> QED
    BY <2>2 DEF S
<1> HIDE DEF z
<1> DEFINE y == SetLoops(z, f, ls)
<1>7. /\ Sound(y) /\ y.v = z.v /\ y.e = z.e /\ y.genus = z.genus
      /\ LiveSlots(y.f) = LiveSlots(z.f) /\ Len(LoopsOf(y, f)) = Len(ls)
      /\ LoopsOf(y, f) = CanonicalLoops(ls)
      /\ \A g \in LiveSlots(z.f) \ {f} : LoopsOf(y, g) = LoopsOf(z, g)
  <2>1. z.f.at[f] \in [surf : {z.f.at[f].surf}, dir : {z.f.at[f].dir}, shell : {0},
                       kept : {z.f.at[f].kept}, loops : {z.f.at[f].loops}]
    <3>1. z.f.at[f] = x.f.at[f]
      BY <1>2, <1>3, <1>4
    <3> QED
      BY <1>2, <3>1, FaceOfSound
  <2>2. LiveSlots(z.v) = V /\ LiveSlots(z.e) = E /\ LiveSlots(z.f) = F \ {kill}
    BY <1>3, <1>4
  <2>3. \A g \in LiveSlots(z.f) \ {f} : IsFace(z.f.at[g], LiveSlots(z.e), LiveSlots(z.v))
    BY <1>1, <1>3, <1>4, <2>2
  <2>4. \A k \in LiveSlots(z.e) : /\ z.e.at[k].start \in LiveSlots(z.v)
                                  /\ z.e.at[k].end \in LiveSlots(z.v)
    BY <1>1, <1>4
  <2>5. /\ Record(z) /\ z.genus \in Nat /\ IsPool(z.v) /\ IsPool(z.e) /\ IsPool(z.f)
        /\ f \in LiveSlots(z.f)
        /\ ls \in Seq(LoopsOn(LiveSlots(z.e), LiveSlots(z.v))) /\ ls # <<>>
    BY <1>1, <1>2, <1>3, <1>4, <1>6, <2>2
  <2> HIDE DEF ls
  <2> QED
    BY <2>1, <2>3, <2>4, <2>5, SetLoopsSound
<1>8. \A g \in F \ {kill} : LoopsOf(z, g) = LoopsOf(x, g)
  BY <1>3, <1>4 DEF LoopsOf
<1> HIDE DEF y, ls
<1>10. Edited(x, y, f, ls)
  BY <1>2, <1>3, <1>4, <1>6, <1>7, <1>8 DEF Edited
<1>9. \A g \in F \ {kill, f} : Len(LoopsOf(y, g)) = Len(LoopsOf(x, g))
  BY <1>3, <1>4, <1>7, <1>8
<1> QED
  BY <1>2, <1>3, <1>4, <1>5, <1>6, <1>7, <1>9, <1>10 DEF y, ls

MfkrhMade(x, f, ring) == <<LoopsOf(x, f)[ring]>>

LEMMA MfkrhIs ==
    ASSUME NEW x, Sound(x), NEW f, NEW ring, CanMfkrh(x, f, ring)
    PROVE  LET y == Mfkrh(x, f, ring)
               m == NewSlot(x.f) IN
           /\ Sound(y) /\ y.v = x.v /\ y.e = x.e /\ y.genus = x.genus - 1 /\ x.genus > 0
           /\ LiveSlots(y.f) = LiveSlots(x.f) \cup {m} /\ m \notin LiveSlots(x.f)
           /\ f \in LiveSlots(x.f) /\ Len(LoopsOf(x, f)) >= 2
           /\ Len(LoopsOf(y, m)) = 1
           /\ Len(LoopsOf(y, f)) = Len(LoopsOf(x, f)) - 1
           /\ \A g \in LiveSlots(x.f) \ {f} : Len(LoopsOf(y, g)) = Len(LoopsOf(x, g))
           /\ ring \in 1 .. Len(LoopsOf(x, f))
           /\ Edited(x, y, f, RemoveAt(LoopsOf(x, f), ring))
           /\ MadeOf(y, m, MfkrhMade(x, f, ring))
<1> DEFINE m == NewSlot(x.f)
           face == x.f.at[f]
           loops == LoopsOf(x, f)
           l == loops[ring]
           lifted == NewFace(face.surf, 1 - face.dir, face.shell, <<l>>)
           z == [x EXCEPT !.f = Fill(x.f, lifted), !.genus = x.genus - 1]
           ls == RemoveAt(loops, ring)
           V == LiveSlots(x.v)
           E == LiveSlots(x.e)
           F == LiveSlots(x.f)
<1>1. /\ Record(x) /\ x.genus \in Nat /\ IsPool(x.v) /\ IsPool(x.e) /\ IsPool(x.f)
      /\ \A k \in E : x.e.at[k].start \in V /\ x.e.at[k].end \in V
      /\ \A g \in F : IsFace(x.f.at[g], E, V)
      /\ E \in SUBSET Nat /\ V \in SUBSET Nat
  BY DEF Sound, IsPool
<1>2. /\ f \in F /\ Len(loops) >= 2 /\ ring \in 1 .. Len(loops) /\ x.genus > 0
  BY LoopsOfFace DEF CanMfkrh
<1>3. /\ IsPool(Fill(x.f, lifted)) /\ LiveSlots(Fill(x.f, lifted)) = F \cup {m} /\ m \notin F
      /\ Fill(x.f, lifted).at[m] = lifted /\ \A g \in F : Fill(x.f, lifted).at[g] = x.f.at[g]
  BY <1>1, FillPool
<1>4. loops \in Seq(LoopsOn(E, V)) /\ face.shell = 0 /\ Len(loops) \in Nat
  BY <1>2, LoopsOfFace
<1>5. IsFace(lifted, E, V) /\ Len(lifted.loops) = 1 /\ lifted.loops = CanonicalLoops(<<l>>)
  <2>1. l \in LoopsOn(E, V)
    BY <1>2, <1>4
  <2> HIDE DEF l, E, V
  <2>2. IsFace(NewFace(face.surf, 1 - face.dir, 0, <<l>>), E, V)
        /\ Len(NewFace(face.surf, 1 - face.dir, 0, <<l>>).loops) = 1
        /\ NewFace(face.surf, 1 - face.dir, 0, <<l>>).loops = CanonicalLoops(<<l>>)
    BY <1>1, <2>1, NewFaceIs
  <2> QED
    BY <1>4, <2>2
<1>6. Mfkrh(x, f, ring) = SetLoops(z, f, ls)
  BY <1>1 DEF Mfkrh, Record, LoopsOf
<1> HIDE DEF lifted
<1>7. /\ z.v = x.v /\ z.e = x.e /\ z.f = Fill(x.f, lifted)
      /\ z.genus = x.genus - 1 /\ Record(z)
  BY <1>1 DEF Record
<1> HIDE DEF z
<1>8. ls \in Seq(LoopsOn(E, V)) /\ Len(ls) = Len(loops) - 1
  <2> DEFINE S == LoopsOn(E, V)
  <2> HIDE DEF S, loops
  <2> QED
    BY <1>2, <1>4, RemoveAtIs DEF S
<1>9. ls # <<>>
  <2> HIDE DEF ls, loops
  <2> QED
    BY <1>2, <1>4, <1>8
<1> DEFINE y == SetLoops(z, f, ls)
<1>10. /\ Sound(y) /\ y.v = z.v /\ y.e = z.e /\ y.genus = z.genus
       /\ LiveSlots(y.f) = LiveSlots(z.f) /\ Len(LoopsOf(y, f)) = Len(ls)
       /\ LoopsOf(y, f) = CanonicalLoops(ls)
       /\ \A g \in LiveSlots(z.f) \ {f} : LoopsOf(y, g) = LoopsOf(z, g)
  <2>1. z.f.at[f] \in [surf : {z.f.at[f].surf}, dir : {z.f.at[f].dir}, shell : {0},
                       kept : {z.f.at[f].kept}, loops : {z.f.at[f].loops}]
    <3>1. z.f.at[f] = x.f.at[f]
      BY <1>2, <1>3, <1>7
    <3> QED
      BY <1>2, <3>1, FaceOfSound
  <2>2. LiveSlots(z.v) = V /\ LiveSlots(z.e) = E /\ LiveSlots(z.f) = F \cup {m}
    BY <1>3, <1>7
  <2>3. \A g \in LiveSlots(z.f) \ {f} : IsFace(z.f.at[g], LiveSlots(z.e), LiveSlots(z.v))
    BY <1>1, <1>3, <1>5, <1>7, <2>2
  <2>4. \A k \in LiveSlots(z.e) : /\ z.e.at[k].start \in LiveSlots(z.v)
                                  /\ z.e.at[k].end \in LiveSlots(z.v)
    BY <1>1, <1>7
  <2>5. /\ Record(z) /\ z.genus \in Nat /\ IsPool(z.v) /\ IsPool(z.e) /\ IsPool(z.f)
        /\ f \in LiveSlots(z.f)
        /\ ls \in Seq(LoopsOn(LiveSlots(z.e), LiveSlots(z.v))) /\ ls # <<>>
    BY <1>1, <1>2, <1>3, <1>7, <1>8, <1>9, <2>2
  <2> HIDE DEF ls
  <2> QED
    BY <2>1, <2>3, <2>4, <2>5, SetLoopsSound
<1>11. LoopsOf(z, m) = lifted.loops /\ \A g \in F : LoopsOf(z, g) = LoopsOf(x, g)
  BY <1>3, <1>7 DEF LoopsOf
<1> HIDE DEF y, ls
<1>14. Edited(x, y, f, ls)
  BY <1>2, <1>3, <1>7, <1>8, <1>10, <1>11 DEF Edited
<1>15. MadeOf(y, m, MfkrhMade(x, f, ring))
  <2>1. LoopsOf(y, m) = CanonicalLoops(<<l>>)
    BY <1>2, <1>3, <1>5, <1>7, <1>10, <1>11
  <2>2. <<l>> \in Seq(LoopsOn(E, V)) /\ LiveSlots(y.e) = E /\ LiveSlots(y.v) = V
    BY <1>2, <1>4, <1>7, <1>10
  <2> QED
    BY <2>1, <2>2 DEF MadeOf, MfkrhMade
<1>12. \A g \in F \ {f} : Len(LoopsOf(y, g)) = Len(LoopsOf(x, g))
  BY <1>3, <1>7, <1>10, <1>11
<1>13. Len(LoopsOf(y, m)) = 1
  BY <1>2, <1>3, <1>5, <1>7, <1>10, <1>11
<1> QED
  BY <1>2, <1>3, <1>6, <1>7, <1>8, <1>10, <1>12, <1>13, <1>14, <1>15 DEF y, ls

\* The same halves of edges, with other pcurves.
SameWalk(s, t) ==
    Len(t) = Len(s) /\ \A k \in 1 .. Len(s) : t[k].edge = s[k].edge /\ t[k].dir = s[k].dir

LEMMA PcurveIs ==
    ASSUME NEW x, Sound(x), NEW at, NEW pc \in Pcurves, CanSetPcurve(x, at)
    PROVE  LET y == SetPcurve(x, at, pc) IN
           /\ Sound(y) /\ SameFaces(x, y) /\ y.v = x.v /\ y.e = x.e /\ y.genus = x.genus
           /\ \A g \in LiveSlots(x.f) : \A i \in 1 .. Len(LoopsOf(x, g)) :
                /\ SameWalk(UsesAt(x, g, i), UsesAt(y, g, i))
                /\ LoopsOf(y, g)[i].seed = LoopsOf(x, g)[i].seed
<1> DEFINE f == at.face
           li == at.li
           k == at.ci + 1
           face == x.f.at[f]
           loops == face.loops
           l == loops[li]
           uses == l.uses
           u == [uses[k] EXCEPT !.pc = pc]
           us == [uses EXCEPT ![k] = u]
           p == [l EXCEPT !.uses = us]
           ls == [loops EXCEPT ![li] = p]
           fresh == [surf |-> face.surf, dir |-> face.dir, shell |-> face.shell, kept |-> 0,
                     loops |-> ls]
           pool == [len |-> x.f.len, at |-> [g \in LiveSlots(x.f) |->
                        IF g = f THEN fresh ELSE x.f.at[g]], free |-> x.f.free]
           y == SetPcurve(x, at, pc)
           V == LiveSlots(x.v)
           E == LiveSlots(x.e)
<1>1. Record(x) /\ IsPool(x.f) /\ \A g \in LiveSlots(x.f) : IsFace(x.f.at[g], E, V)
  BY DEF Sound
<1>2. f \in LiveSlots(x.f) /\ li \in 1 .. Len(loops) /\ k \in 1 .. Len(uses)
  <2>1. f \in LiveSlots(x.f) /\ li \in 1 .. Len(LoopsOf(x, f))
    BY LoopsOfFace DEF CanSetPcurve, IsLoop
  <2>2. k \in DOMAIN UsesAt(x, f, li)
    BY DEF CanSetPcurve, LoopAt, UsesAt
  <2>3. k \in 1 .. Len(UsesAt(x, f, li))
    BY <2>1, <2>2, UsesTyped
  <2> QED
    BY <2>1, <2>3 DEF UsesAt, LoopsOf
<1>3. /\ loops \in Seq(LoopsOn(E, V)) /\ l \in LoopsOn(E, V) /\ uses \in Seq(UsesOn(E))
      /\ uses # <<>> /\ uses[k] \in UsesOn(E)
  <2>1. loops \in Seq(LoopsOn(E, V))
    BY <1>1, <1>2 DEF IsFace
  <2>2. l \in LoopsOn(E, V)
    BY <1>2, <2>1
  <2>3. uses \in Seq(UsesOn(E))
    BY <2>2 DEF LoopsOn
  <2>4. uses # <<>> /\ uses[k] \in UsesOn(E)
    <3> HIDE DEF uses, k
    <3> QED
      BY <1>2, <2>3
  <2> QED
    BY <2>1, <2>2, <2>3, <2>4
<1>4. us \in Seq(UsesOn(E)) /\ us # <<>> /\ SameWalk(uses, us)
  <2> DEFINE S == UsesOn(E)
             o == uses[k]
  <2>1. o \in S
    BY <1>3
  <2>2. u \in S /\ u.edge = o.edge /\ u.dir = o.dir
    <3> HIDE DEF o
    <3>1. o \in [edge : E, dir : {FORWARD, REVERSED}, pc : Pcs] /\ pc \in Pcs
      BY <2>1 DEF UsesOn, Pcs
    <3>2. /\ [o EXCEPT !.pc = pc] \in [edge : E, dir : {FORWARD, REVERSED}, pc : Pcs]
          /\ [o EXCEPT !.pc = pc].edge = o.edge /\ [o EXCEPT !.pc = pc].dir = o.dir
      BY <3>1
    <3> QED
      BY <3>2 DEF UsesOn, o
  <2> HIDE DEF S, u, uses, k
  <2>3. /\ us \in Seq(S) /\ Len(us) = Len(uses) /\ us[k] = u
        /\ \A j \in 1 .. Len(uses) : j # k => us[j] = uses[j]
    BY <1>2, <1>3, <2>2, ExceptSeq DEF S
  <2>4. us # <<>>
    BY <1>2, <2>3
  <2>5. SameWalk(uses, us)
    <3> HIDE DEF us
    <3> QED
      BY <2>2, <2>3 DEF SameWalk
  <2> QED
    BY <2>3, <2>4, <2>5 DEF S
<1> HIDE DEF us
<1>5. p \in LoopsOn(E, V) /\ p.uses = us /\ p.seed = l.seed
  <2> HIDE DEF uses, l, E, V
  <2> QED
    BY <1>3, <1>4, LoopGiven
<1> HIDE DEF p
<1>6. /\ ls \in Seq(LoopsOn(E, V)) /\ Len(ls) = Len(loops) /\ ls # <<>> /\ ls[li] = p
      /\ \A j \in 1 .. Len(loops) : j # li => ls[j] = loops[j]
  <2> DEFINE S == LoopsOn(E, V)
  <2> HIDE DEF S, loops, li
  <2>1. /\ ls \in Seq(S) /\ Len(ls) = Len(loops) /\ ls[li] = p
        /\ \A j \in 1 .. Len(loops) : j # li => ls[j] = loops[j]
    BY <1>2, <1>3, <1>5, ExceptSeq DEF S
  <2> HIDE DEF ls
  <2>2. ls # <<>>
    BY <1>2, <2>1
  <2> QED
    BY <2>1, <2>2 DEF S
<1>7. y = [v |-> x.v, e |-> x.e, f |-> pool, genus |-> x.genus]
  <2>1. x.f \in [len : Nat, at : {x.f.at}, free : Seq(Nat)]
    BY <1>1 DEF IsPool
  <2>2. x.f.at = [i \in LiveSlots(x.f) |-> x.f.at[i]]
    BY <1>1 DEF IsPool, LiveSlots
  <2>3. [face EXCEPT !.loops = ls, !.kept = 0] = fresh
    <3>1. face \in [surf : {face.surf}, dir : {face.dir}, shell : {face.shell},
                    kept : {face.kept}, loops : {face.loops}]
      BY <1>1, <1>2 DEF IsFace
    <3> HIDE DEF face, ls
    <3> QED
      BY <3>1, FaceEdited
  <2>4. y = [x EXCEPT !.f = [x.f EXCEPT !.at = [x.f.at EXCEPT ![f] =
                [face EXCEPT !.loops = ls, !.kept = 0]]]]
    BY <1>1, <2>1, <2>2 DEF SetPcurve, Record, LiveSlots, p, us
  <2> DEFINE new == [x.f.at EXCEPT ![f] = fresh]
  <2>5. new = pool.at
    <3> HIDE DEF fresh
    <3> QED
      BY <2>2
  <2>6. [x.f EXCEPT !.at = new] = [len |-> x.f.len, at |-> new, free |-> x.f.free]
    <3> HIDE DEF new
    <3> QED
      BY <2>1
  <2>7. [x.f EXCEPT !.at = new] = pool
    <3> HIDE DEF new
    <3> QED
      BY <2>5, <2>6
  <2>8. y = [x EXCEPT !.f = pool]
    <3> HIDE DEF fresh, pool, y, ls, face
    <3> QED
      BY <2>3, <2>4, <2>7
  <2> HIDE DEF pool, y
  <2> QED
    BY <1>1, <2>8 DEF Record
<1>8. /\ y.v = x.v /\ y.e = x.e /\ y.f = pool /\ y.genus = x.genus /\ Record(y)
  <2> HIDE DEF y, pool
  <2> QED
    BY <1>7 DEF Record
<1>9. IsPool(pool) /\ LiveSlots(pool) = LiveSlots(x.f)
  <2> HIDE DEF fresh
  <2>1. /\ pool.len = x.f.len /\ pool.free = x.f.free
        /\ DOMAIN pool.at = LiveSlots(x.f)
        /\ pool.at = [i \in DOMAIN pool.at |-> pool.at[i]]
    OBVIOUS
  <2>2. pool \in [len : Nat, at : {pool.at}, free : Seq(Nat)]
    BY <1>1 DEF IsPool
  <2> HIDE DEF pool
  <2> QED
    BY <1>1, <2>1, <2>2 DEF IsPool, LiveSlots
<1>10. pool.at[f] = fresh /\ \A g \in LiveSlots(x.f) : g # f => pool.at[g] = x.f.at[g]
  BY <1>2
<1> HIDE DEF y, pool, ls
<1>11. IsFace(fresh, E, V)
  <2>1. face.shell = 0
    BY <1>1, <1>2 DEF IsFace
  <2> QED
    BY <1>6, <2>1 DEF IsFace
<1>12. Sound(y)
  <2> HIDE DEF fresh
  <2> QED
    BY <1>1, <1>8, <1>9, <1>10, <1>11 DEF Sound
<1>13. ASSUME NEW g \in LiveSlots(x.f) PROVE Len(LoopsOf(y, g)) = Len(LoopsOf(x, g))
  <2>1. CASE g = f
    <3>1. LoopsOf(y, g) = ls /\ LoopsOf(x, g) = loops
      BY <1>8, <1>10, <2>1 DEF LoopsOf
    <3> QED
      BY <1>6, <3>1
  <2>2. CASE g # f
    BY <1>8, <1>10, <2>2 DEF LoopsOf
  <2> QED
    BY <2>1, <2>2
<1>14. ASSUME NEW g \in LiveSlots(x.f), NEW i \in 1 .. Len(LoopsOf(x, g))
       PROVE  /\ SameWalk(UsesAt(x, g, i), UsesAt(y, g, i))
              /\ LoopsOf(y, g)[i].seed = LoopsOf(x, g)[i].seed
  <2>1. CASE g = f /\ i = li
    <3>1. UsesAt(y, g, i) = ls[li].uses /\ UsesAt(x, g, i) = uses
      BY <1>8, <1>10, <2>1 DEF UsesAt, LoopsOf
    <3>2. LoopsOf(y, g)[i] = ls[li] /\ LoopsOf(x, g)[i] = l
      BY <1>8, <1>10, <2>1 DEF LoopsOf
    <3> QED
      BY <1>4, <1>5, <1>6, <3>1, <3>2
  <2>2. CASE ~ (g = f /\ i = li)
    <3>1. LoopsOf(y, g)[i] = LoopsOf(x, g)[i]
      BY <1>6, <1>8, <1>10, <2>2 DEF LoopsOf
    <3> QED
      BY <3>1 DEF UsesAt, SameWalk
  <2> QED
    BY <2>1, <2>2
<1> QED
  BY <1>8, <1>9, <1>12, <1>13, <1>14 DEF SameFaces, y

-----------------------------------------------------------------------------
(***************************************************************************)
(* What is referenced is live, after any operators.                        *)
(***************************************************************************)

LEMMA SoundIsTyped == Sound(b) => TypeOK
<1> SUFFICES ASSUME Sound(b) PROVE TypeOK
  OBVIOUS
<1>1. PoolOK(b.v) /\ PoolOK(b.e) /\ PoolOK(b.f) /\ b.genus \in Nat
  BY PoolsAreOK DEF Sound
<1>2. \A e \in LiveSlots(b.e) : {b.e.at[e].start, b.e.at[e].end} \subseteq LiveSlots(b.v)
  BY DEF Sound
<1>3. ASSUME NEW u \in UsesAll(b) PROVE TheUse(b, u).edge \in LiveSlots(b.e)
  <2>1. PICK at \in AllLoops(b) : \E ci \in DOMAIN UsesAt(b, at[1], at[2]) :
            u = [face |-> at[1], li |-> at[2], ci |-> ci]
    BY DEF UsesAll, UsesAt
  <2>2. PICK ci \in DOMAIN UsesAt(b, at[1], at[2]) :
            u = [face |-> at[1], li |-> at[2], ci |-> ci]
    BY <2>1
  <2>3. at[1] \in LiveSlots(b.f) /\ at[2] \in 1 .. Len(LoopsOf(b, at[1]))
    BY LoopsMembers
  <2>4. UsesAt(b, at[1], at[2])[ci].edge \in LiveSlots(b.e)
    BY <2>3, UsesTyped
  <2> QED
    BY <2>2, <2>4 DEF TheUse, UsesAt
<1>4. ASSUME NEW at \in AllLoops(b), LoopsOf(b, at[1])[at[2]].uses = <<>>
      PROVE  LoopsOf(b, at[1])[at[2]].seed \in LiveSlots(b.v)
  BY <1>4, LoopsMembers, UsesTyped DEF UsesAt
<1>5. \A f \in LiveSlots(b.f) : LoopsOf(b, f) # <<>>
  BY DEF Sound, IsFace, LoopsOf
<1> QED
  BY <1>1, <1>2, <1>3, <1>4, <1>5 DEF TypeOK

LEMMA SoundStep == Sound(b) /\ [Next]_b => Sound(b')
<1> SUFFICES ASSUME Sound(b), [Next]_b PROVE Sound(b')
  OBVIOUS
<1>1. CASE MVFS
  BY <1>1, MvfsIs DEF MVFS
<1>2. CASE KVFS
  BY <1>2, EmptyBuilderIs DEF KVFS, Kvfs
<1>3. CASE MEV
  BY <1>3, MevIs DEF MEV
<1>4. CASE KEV
  BY <1>4, KevIs DEF KEV
<1>5. CASE MEF
  BY <1>5, MefIs DEF MEF
<1>6. CASE KEF
  BY <1>6, KefIs DEF KEF
<1>7. CASE MEKR
  BY <1>7, MekrIs DEF MEKR
<1>8. CASE KEMR
  BY <1>8, KemrIs DEF KEMR
<1>9. CASE KFMRH
  BY <1>9, KfmrhIs DEF KFMRH
<1>10. CASE MFKRH
  BY <1>10, MfkrhIs DEF MFKRH
<1>11. CASE SET_PCURVE
  BY <1>11, PcurveIs DEF SET_PCURVE
<1>12. CASE UNCHANGED b
  BY <1>12
<1> QED
  BY <1>1, <1>2, <1>3, <1>4, <1>5, <1>6, <1>7, <1>8, <1>9, <1>10, <1>11, <1>12 DEF Next

AllSound == Sound(b)

\* Builder's slots after any sequence of Euler operators: a freed slot is on
\* its stack once, and no edge, use or empty loop names one.
THEOREM ReferencesAreLive ==
    ASSUME Starts = {EmptyBuilder}
    PROVE  Spec => []TypeOK
<1>1. Init => AllSound
  BY EmptyBuilderIs DEF Init, AllSound
<1>2. AllSound /\ [Next]_b => AllSound'
  BY SoundStep DEF AllSound
<1>3. AllSound => TypeOK
  BY SoundIsTyped DEF AllSound
<1> QED
  BY <1>1, <1>2, <1>3, PTL DEF Spec

-----------------------------------------------------------------------------
(***************************************************************************)
(* The counts move as those of the Euler plane.                            *)
(***************************************************************************)

CV(x) == Cardinality(LiveSlots(x.v))
CE(x) == Cardinality(LiveSlots(x.e))
CF(x) == Cardinality(LiveSlots(x.f))
CL(x) == Cardinality(AllLoops(x))
CS(x) == Cardinality(ShellsOf(x))

LEMMA OneMore ==
    ASSUME NEW S, IsFiniteSet(S), NEW e, e \notin S, NEW T, T = S \cup {e}
    PROVE  Cardinality(T) = Cardinality(S) + 1
BY FS_AddElement

LEMMA OneLess ==
    ASSUME NEW S, IsFiniteSet(S), NEW e, e \in S, NEW T, T = S \ {e}
    PROVE  Cardinality(T) = Cardinality(S) - 1 /\ IsFiniteSet(T)
BY FS_RemoveElement

LEMMA CountsAreNat ==
    ASSUME NEW x, Sound(x)
    PROVE  /\ IsFiniteSet(LiveSlots(x.v)) /\ IsFiniteSet(LiveSlots(x.e))
           /\ IsFiniteSet(LiveSlots(x.f)) /\ IsFiniteSet(AllLoops(x))
           /\ CV(x) \in Nat /\ CE(x) \in Nat /\ CF(x) \in Nat /\ CL(x) \in Nat
           /\ x.genus \in Nat
<1>1. IsPool(x.v) /\ IsPool(x.e) /\ IsPool(x.f) /\ x.genus \in Nat
  BY DEF Sound
<1> QED
  BY <1>1, LiveIsFinite, LoopsAreFinite DEF CV, CE, CF, CL

LEMMA ShellsCount ==
    ASSUME NEW x, Sound(x)
    PROVE  /\ CS(x) \in Nat
           /\ LiveSlots(x.f) = {} => CS(x) = 0
           /\ LiveSlots(x.f) # {} => CS(x) = 1
<1>1. CASE LiveSlots(x.f) = {}
  <2>1. ShellsOf(x) = {}
    BY <1>1 DEF ShellsOf
  <2> QED
    BY <1>1, <2>1, FS_EmptySet DEF CS
<1>2. CASE LiveSlots(x.f) # {}
  <2>1. ShellsOf(x) = {0}
    BY <1>2, LoopsOfFace DEF ShellsOf
  <2> QED
    BY <1>2, <2>1, FS_Singleton DEF CS
<1> QED
  BY <1>1, <1>2

LEMMA NoLoops ==
    ASSUME NEW x, LiveSlots(x.f) = {}
    PROVE  AllLoops(x) = {} /\ CL(x) = 0 /\ CF(x) = 0
<1>1. AllLoops(x) = {}
  BY DEF AllLoops
<1> QED
  BY <1>1, FS_EmptySet DEF CL, CF

\* A loop is named by its face and its index in it.
LEMMA IsALoop ==
    ASSUME NEW x, Sound(x), NEW at
    PROVE  at \in AllLoops(x) <=>
             /\ at = <<at[1], at[2]>> /\ at[1] \in LiveSlots(x.f)
             /\ at[2] \in 1 .. Len(LoopsOf(x, at[1]))
BY LoopsMembers

LEMMA SameLoops ==
    ASSUME NEW x, Sound(x), NEW y, Sound(y), SameFaces(x, y)
    PROVE  AllLoops(y) = AllLoops(x)
<1>1. \A at : at \in AllLoops(y) <=> at \in AllLoops(x)
  BY IsALoop DEF SameFaces
<1> QED
  BY <1>1

\* A face with one loop more, or a new face with one.
LEMMA OneLoopMore ==
    ASSUME NEW x, Sound(x), NEW y, Sound(y), NEW f, LiveSlots(y.f) = LiveSlots(x.f) \cup {f},
           f \in LiveSlots(x.f) => Len(LoopsOf(y, f)) = Len(LoopsOf(x, f)) + 1,
           f \notin LiveSlots(x.f) => Len(LoopsOf(y, f)) = 1,
           \A g \in LiveSlots(x.f) \ {f} : Len(LoopsOf(y, g)) = Len(LoopsOf(x, g))
    PROVE  /\ AllLoops(y) = AllLoops(x) \cup {<<f, Len(LoopsOf(y, f))>>}
           /\ <<f, Len(LoopsOf(y, f))>> \notin AllLoops(x)
<1> DEFINE n == Len(LoopsOf(y, f)) - 1
<1>0. /\ n \in Nat /\ Len(LoopsOf(y, f)) = n + 1
      /\ f \in LiveSlots(x.f) => n = Len(LoopsOf(x, f))
      /\ f \notin LiveSlots(x.f) => n = 0
  <2>1. CASE f \in LiveSlots(x.f)
    <3>1. Len(LoopsOf(x, f)) \in Nat
      BY <2>1, LoopsOfFace
    <3> QED
      BY <2>1, <3>1
  <2>2. CASE f \notin LiveSlots(x.f)
    BY <2>2
  <2> QED
    BY <2>1, <2>2
<1> HIDE DEF n
<1>1. <<f, n + 1>> \notin AllLoops(x)
  <2>1. ASSUME <<f, n + 1>> \in AllLoops(x) PROVE FALSE
    BY <1>0, <2>1, IsALoop
  <2> QED
    BY <2>1
<1>2. ASSUME NEW at PROVE at \in AllLoops(y) <=> at \in AllLoops(x) \cup {<<f, n + 1>>}
  <2>1. CASE at \in AllLoops(y)
    <3>1. at = <<at[1], at[2]>> /\ at[1] \in LiveSlots(y.f) /\ at[2] \in 1 .. Len(LoopsOf(y, at[1]))
      BY <2>1, IsALoop
    <3>2. CASE at[1] # f
      BY <3>1, <3>2, IsALoop
    <3>3. CASE at[1] = f /\ at[2] # n + 1
      <4>1. at[2] \in 1 .. n
        BY <1>0, <3>1, <3>3
      <4>2. f \in LiveSlots(x.f) /\ n = Len(LoopsOf(x, f))
        BY <1>0, <4>1
      <4> QED
        BY <3>1, <3>3, <4>1, <4>2, IsALoop
    <3>4. CASE at[1] = f /\ at[2] = n + 1
      <4>1. at = <<f, n + 1>>
        BY <3>1, <3>4
      <4> QED
        BY <2>1, <4>1
    <3> QED
      BY <2>1, <3>2, <3>3, <3>4
  <2>2. CASE at \in AllLoops(x)
    <3>1. at = <<at[1], at[2]>> /\ at[1] \in LiveSlots(x.f) /\ at[2] \in 1 .. Len(LoopsOf(x, at[1]))
      BY <2>2, IsALoop
    <3>2. at[1] \in LiveSlots(y.f) /\ at[2] \in 1 .. Len(LoopsOf(y, at[1]))
      <4>1. CASE at[1] = f
        <5>1. f \in LiveSlots(x.f) /\ at[2] \in 1 .. n
          BY <1>0, <3>1, <4>1
        <5> QED
          BY <1>0, <4>1, <5>1
      <4>2. CASE at[1] # f
        BY <3>1, <4>2
      <4> QED
        BY <4>1, <4>2
    <3> QED
      BY <2>2, <3>1, <3>2, IsALoop
  <2>3. <<f, n + 1>> \in AllLoops(y)
    <3> DEFINE t == <<f, n + 1>>
    <3>1. t = <<t[1], t[2]>> /\ t[1] = f /\ t[2] = n + 1
      OBVIOUS
    <3> HIDE DEF t
    <3>2. t \in AllLoops(y)
      BY <1>0, <3>1, IsALoop
    <3> QED
      BY <3>2 DEF t
  <2> QED
    BY <2>1, <2>2, <2>3
<1> QED
  BY <1>0, <1>1, <1>2

LEMMA NewFaceLoops ==
    ASSUME NEW x, Sound(x), NEW y, Sound(y), NEW m, LiveSlots(y.f) = LiveSlots(x.f) \cup {m},
           m \notin LiveSlots(x.f), Len(LoopsOf(y, m)) = 1,
           \A g \in LiveSlots(x.f) : Len(LoopsOf(y, g)) = Len(LoopsOf(x, g))
    PROVE  AllLoops(y) = AllLoops(x) \cup {<<m, 1>>} /\ <<m, 1>> \notin AllLoops(x)
<1>1. \A g \in LiveSlots(x.f) \ {m} : Len(LoopsOf(y, g)) = Len(LoopsOf(x, g))
  OBVIOUS
<1>2. /\ AllLoops(y) = AllLoops(x) \cup {<<m, Len(LoopsOf(y, m))>>}
      /\ <<m, Len(LoopsOf(y, m))>> \notin AllLoops(x)
  BY <1>1, OneLoopMore
<1> QED
  BY <1>2

\* A face gives its only loop to another face.
LEMMA LoopMoves ==
    ASSUME NEW x, Sound(x), NEW y, Sound(y), NEW k, NEW f,
           k \in LiveSlots(x.f), LiveSlots(y.f) = LiveSlots(x.f) \ {k}, f \in LiveSlots(y.f),
           Len(LoopsOf(x, k)) = 1, Len(LoopsOf(y, f)) = Len(LoopsOf(x, f)) + 1,
           \A g \in LiveSlots(y.f) \ {f} : Len(LoopsOf(y, g)) = Len(LoopsOf(x, g))
    PROVE  CL(y) = CL(x) /\ CF(y) = CF(x) - 1 /\ CF(y) > 0
<1> DEFINE n == Len(LoopsOf(x, f))
           old == <<k, 1>>
           new == <<f, n + 1>>
           A == AllLoops(x)
<1>1. n \in Nat
  BY LoopsOfFace
<1>2. old \in A
  <2>1. old = <<old[1], old[2]>> /\ old[1] = k /\ old[2] = 1
    OBVIOUS
  <2> HIDE DEF old
  <2> QED
    BY <2>1, IsALoop
<1>3. new = <<new[1], new[2]>> /\ new[1] = f /\ new[2] = n + 1
  OBVIOUS
<1>4. old = <<old[1], old[2]>> /\ old[1] = k /\ old[2] = 1
  OBVIOUS
<1> HIDE DEF old, new
<1>5. new \notin A /\ new \in AllLoops(y)
  BY <1>1, <1>3, IsALoop
<1>6. ASSUME NEW at PROVE at \in AllLoops(y) <=> at \in (A \ {old}) \cup {new}
  <2>1. at \in A <=> /\ at = <<at[1], at[2]>> /\ at[1] \in LiveSlots(x.f)
                     /\ at[2] \in 1 .. Len(LoopsOf(x, at[1]))
    BY IsALoop
  <2>2. at \in AllLoops(y) <=> /\ at = <<at[1], at[2]>> /\ at[1] \in LiveSlots(y.f)
                               /\ at[2] \in 1 .. Len(LoopsOf(y, at[1]))
    BY IsALoop
  <2> HIDE DEF A, n
  <2>3. CASE at[1] = k
    <3>1. at \notin AllLoops(y) /\ at # new
      BY <1>3, <2>2, <2>3
    <3>2. at \in A => at = old
      BY <1>4, <2>1, <2>3
    <3> QED
      BY <3>1, <3>2
  <2>4. CASE at[1] = f
    <3>1. at # old
      BY <1>4, <2>4
    <3>2. at \in A <=> at = <<at[1], at[2]>> /\ at[2] \in 1 .. n
      BY <2>1, <2>4 DEF n
    <3>3. at \in AllLoops(y) <=> at = <<at[1], at[2]>> /\ at[2] \in 1 .. (n + 1)
      BY <2>2, <2>4 DEF n
    <3>4. at[2] \in 1 .. (n + 1) <=> at[2] \in 1 .. n \/ at[2] = n + 1
      BY <1>1
    <3>5. at = new <=> at = <<at[1], at[2]>> /\ at[2] = n + 1
      BY <1>3, <2>4
    <3> QED
      BY <3>1, <3>2, <3>3, <3>4, <3>5
  <2>5. CASE at[1] # k /\ at[1] # f
    <3>1. at # old /\ at # new
      BY <1>3, <1>4, <2>5
    <3>2. at \in AllLoops(y) <=> at \in A
      BY <2>1, <2>2, <2>5
    <3> QED
      BY <3>1, <3>2
  <2> QED
    BY <2>3, <2>4, <2>5
<1>7. AllLoops(y) = (A \ {old}) \cup {new}
  BY <1>6
<1>8. IsFiniteSet(A) /\ CL(x) \in Nat /\ CL(y) \in Nat
  BY CountsAreNat
<1>9. Cardinality(A \ {old}) = CL(x) - 1 /\ IsFiniteSet(A \ {old})
  BY <1>2, <1>8, OneLess DEF CL
<1>10. CL(y) = CL(x)
  <2> DEFINE R == A \ {old}
  <2>1. new \notin R /\ IsFiniteSet(R) /\ Cardinality(R) = CL(x) - 1
    BY <1>5, <1>9
  <2>2. AllLoops(y) = R \cup {new}
    BY <1>7
  <2> HIDE DEF R
  <2>3. CL(y) = (CL(x) - 1) + 1
    BY <2>1, <2>2, OneMore DEF CL
  <2> QED
    BY <1>8, <2>3
<1>11. CF(y) = CF(x) - 1
  <2>1. IsFiniteSet(LiveSlots(x.f))
    BY CountsAreNat
  <2> QED
    BY <2>1, OneLess DEF CF
<1>12. CF(y) > 0
  <2>1. CF(y) \in Nat /\ IsFiniteSet(LiveSlots(y.f))
    BY CountsAreNat
  <2>2. CF(y) # 0
    BY <2>1, FS_EmptySet DEF CF
  <2> QED
    BY <2>1, <2>2
<1> QED
  BY <1>10, <1>11, <1>12

\* The faces have a loop each, and a face with two has one more.
LEMMA LoopsCoverFaces ==
    ASSUME NEW x, Sound(x)
    PROVE  /\ CF(x) <= CL(x)
           /\ \A f \in LiveSlots(x.f) : Len(LoopsOf(x, f)) >= 2 => CF(x) < CL(x)
<1> DEFINE F == LiveSlots(x.f)
           A == AllLoops(x)
           j == [f \in F |-> <<f, 1>>]
<1>1. IsFiniteSet(A) /\ CF(x) \in Nat /\ CL(x) \in Nat
  BY CountsAreNat
<1>2. j \in [F -> A]
  <2>1. ASSUME NEW f \in F PROVE <<f, 1>> \in A
    BY LoopsOfFace, LoopsMembers
  <2> HIDE DEF A
  <2> QED
    BY <2>1
<1>3. \A f, g \in F : j[f] = j[g] => f = g
  OBVIOUS
<1> HIDE DEF j, A, F
<1>4. j \in Injection(F, A)
  BY <1>2, <1>3, Fun_IsInj
<1>5. CF(x) <= CL(x) /\ (CF(x) = CL(x) => j \in Surjection(F, A))
  BY <1>1, <1>4, FS_Injection DEF CF, CL, F, A
<1>6. ASSUME NEW f \in F, Len(LoopsOf(x, f)) >= 2
      PROVE  j \notin Surjection(F, A)
  <2>1. <<f, 2>> \in A
    BY <1>6, LoopsOfFace, LoopsMembers DEF F, A
  <2>2. ASSUME j \in Surjection(F, A) PROVE FALSE
    <3>1. PICK g \in F : j[g] = <<f, 2>>
      BY <2>1, <2>2 DEF Surjection
    <3> QED
      BY <3>1 DEF j
  <2> QED
    BY <2>2
<1> QED
  BY <1>1, <1>5, <1>6 DEF F

Shifts(x, y, dv, de, df, dl, ds, dg) ==
    /\ CV(y) = CV(x) + dv /\ CE(y) = CE(x) + de /\ CF(y) = CF(x) + df
    /\ CL(y) = CL(x) + dl /\ CS(y) = CS(x) + ds /\ y.genus = x.genus + dg

LEMMA CountsAre ==
    ASSUME NEW x
    PROVE  /\ Counts(x).v = CV(x) /\ Counts(x).f = CF(x) /\ Counts(x).l = CL(x)
           /\ Counts(x).s = CS(x) /\ Counts(x).g = x.genus
BY DEF Counts, CV, CF, CL, CS

LEMMA ShiftIsStep ==
    ASSUME NEW dv, NEW de, NEW df, NEW dl, NEW ds, NEW dg,
           Shifts(b, b', dv, de, df, dl, ds, dg)
    PROVE  Plane!Step(dv, de, df, dl, ds, dg)
<1>1. /\ Counts(b).v = CV(b) /\ Counts(b).f = CF(b) /\ Counts(b).l = CL(b)
      /\ Counts(b).s = CS(b) /\ Counts(b).g = b.genus
  BY CountsAre
<1>2. /\ Counts(b').v = CV(b') /\ Counts(b').f = CF(b') /\ Counts(b').l = CL(b')
      /\ Counts(b').s = CS(b') /\ Counts(b').g = b'.genus
  BY CountsAre
<1> QED
  BY <1>1, <1>2 DEF Plane!Step, Shifts, CE

LEMMA MvfsCounts ==
    ASSUME NEW x, Sound(x), NEW seed, CanMvfs(x)
    PROVE  CV(x) = 0 /\ CE(x) = 0 /\ CF(x) = 0 /\ Shifts(x, Mvfs(x, seed), 1, 0, 1, 1, 1, 0)
<1> DEFINE y == Mvfs(x, seed)
           m == NewSlot(x.f)
<1>1. /\ Sound(y)
      /\ LiveSlots(y.v) = {NewSlot(x.v)} /\ LiveSlots(y.f) = {m}
      /\ y.e = x.e /\ y.genus = x.genus
      /\ LiveSlots(x.v) = {} /\ LiveSlots(x.e) = {} /\ LiveSlots(x.f) = {}
      /\ Len(LoopsOf(y, m)) = 1
  BY MvfsIs
<1> HIDE DEF y, m
<1>2. CV(x) = 0 /\ CE(x) = 0 /\ CF(x) = 0 /\ CL(x) = 0
  BY <1>1, NoLoops, FS_EmptySet DEF CV, CE
<1>3. CV(y) = 1 /\ CE(y) = 0 /\ CF(y) = 1
  BY <1>1, <1>2, FS_Singleton DEF CV, CE, CF
<1>4. AllLoops(y) = {<<m, 1>>}
  <2>1. AllLoops(y) = AllLoops(x) \cup {<<m, 1>>}
    <3>1. LiveSlots(y.f) = LiveSlots(x.f) \cup {m} /\ m \notin LiveSlots(x.f)
          /\ \A g \in LiveSlots(x.f) : Len(LoopsOf(y, g)) = Len(LoopsOf(x, g))
      BY <1>1
    <3> QED
      BY <1>1, <3>1, NewFaceLoops
  <2>2. AllLoops(x) = {}
    BY <1>1, NoLoops
  <2> QED
    BY <2>1, <2>2
<1>5. CL(y) = 1
  BY <1>4, FS_Singleton DEF CL
<1>6. CS(x) = 0 /\ CS(y) = 1
  BY <1>1, ShellsCount
<1>7. x.genus \in Nat
  BY DEF Sound
<1> QED
  BY <1>1, <1>2, <1>3, <1>5, <1>6, <1>7 DEF Shifts, y

LEMMA EmptyCounts ==
    /\ CV(EmptyBuilder) = 0 /\ CE(EmptyBuilder) = 0 /\ CF(EmptyBuilder) = 0
    /\ CL(EmptyBuilder) = 0 /\ CS(EmptyBuilder) = 0 /\ EmptyBuilder.genus = 0
<1>1. CV(EmptyBuilder) = 0 /\ CE(EmptyBuilder) = 0 /\ EmptyBuilder.genus = 0
  BY EmptyBuilderIs, FS_EmptySet DEF CV, CE
<1>2. CF(EmptyBuilder) = 0 /\ CL(EmptyBuilder) = 0
  BY EmptyBuilderIs, NoLoops
<1>3. CS(EmptyBuilder) = 0
  BY EmptyBuilderIs, ShellsCount
<1> QED
  BY <1>1, <1>2, <1>3

LEMMA KvfsCounts ==
    ASSUME NEW x, Sound(x), CanKvfs(x)
    PROVE  CV(x) = 1 /\ CE(x) = 0 /\ CF(x) = 1 /\ CL(x) = 1 /\ CS(x) = 1
<1>1. /\ CV(x) = 1 /\ LiveSlots(x.e) = {} /\ CF(x) = 1
      /\ \A f \in LiveSlots(x.f) : Len(LoopsOf(x, f)) = 1
  BY DEF CanKvfs, CV, CF
<1>2. CE(x) = 0
  BY <1>1, FS_EmptySet DEF CE
<1>3. PICK f : LiveSlots(x.f) = {f}
  BY <1>1, CountsAreNat, FS_Singleton DEF CF
<1>4. AllLoops(x) = {<<f, 1>>}
  <2>1. \A at : at \in AllLoops(x) <=> at = <<f, 1>>
    <3>1. ASSUME NEW at \in AllLoops(x) PROVE at = <<f, 1>>
      <4>1. at = <<at[1], at[2]>> /\ at[1] \in LiveSlots(x.f)
            /\ at[2] \in 1 .. Len(LoopsOf(x, at[1]))
        BY IsALoop
      <4>2. at[1] = f /\ Len(LoopsOf(x, at[1])) = 1
        BY <1>1, <1>3, <4>1
      <4>3. at[2] = 1
        BY <4>1, <4>2
      <4> QED
        BY <4>1, <4>2, <4>3
    <3>2. <<f, 1>> \in AllLoops(x)
      BY <1>1, <1>3, LoopsMembers
    <3> QED
      BY <3>1, <3>2
  <2> QED
    BY <2>1
<1>5. CL(x) = 1
  BY <1>4, FS_Singleton DEF CL
<1>6. CS(x) = 1
  BY <1>3, ShellsCount
<1> QED
  BY <1>1, <1>2, <1>5, <1>6

LEMMA MevCounts ==
    ASSUME NEW x, Sound(x), NEW at, NEW s \in Struts, CanMev(x, at, s)
    PROVE  CS(x) = 1 /\ Shifts(x, Mev(x, at, s), 1, 1, 0, 0, 0, 0)
<1> DEFINE y == Mev(x, at, s)
<1>1. /\ Sound(y) /\ SameFaces(x, y) /\ y.genus = x.genus
      /\ LiveSlots(y.v) = LiveSlots(x.v) \cup {NewSlot(x.v)}
      /\ LiveSlots(y.e) = LiveSlots(x.e) \cup {NewSlot(x.e)}
      /\ NewSlot(x.v) \notin LiveSlots(x.v) /\ NewSlot(x.e) \notin LiveSlots(x.e)
      /\ LiveSlots(x.f) # {}
  BY MevIs
<1> HIDE DEF y
<1>2. CV(y) = CV(x) + 1 /\ CE(y) = CE(x) + 1
  BY <1>1, CountsAreNat, OneMore DEF CV, CE
<1>3. CF(y) = CF(x) /\ CL(y) = CL(x) /\ CS(y) = CS(x) /\ CS(x) = 1
  BY <1>1, SameLoops, ShellsCount DEF CF, CL, SameFaces
<1>4. CF(x) \in Nat /\ CL(x) \in Nat /\ x.genus \in Nat
  BY CountsAreNat
<1> QED
  BY <1>1, <1>2, <1>3, <1>4 DEF Shifts, y

LEMMA KevCounts ==
    ASSUME NEW x, Sound(x), NEW e, CanKev(x, e)
    PROVE  CV(x) > 1 /\ CE(x) > 0 /\ Shifts(x, Kev(x, e), -1, -1, 0, 0, 0, 0)
<1> DEFINE y == Kev(x, e)
           tip == x.e.at[e].end
           start == x.e.at[e].start
<1>1. /\ Sound(y) /\ SameFaces(x, y) /\ y.genus = x.genus
      /\ LiveSlots(y.v) = LiveSlots(x.v) \ {tip}
      /\ LiveSlots(y.e) = LiveSlots(x.e) \ {e}
      /\ e \in LiveSlots(x.e) /\ tip \in LiveSlots(x.v)
      /\ start \in LiveSlots(x.v) /\ start # tip
  BY KevIs
<1> HIDE DEF y, tip, start
<1>2. CV(x) \in Nat /\ CE(x) \in Nat /\ CF(x) \in Nat /\ CL(x) \in Nat /\ x.genus \in Nat
      /\ CV(y) \in Nat /\ CE(y) \in Nat
  BY <1>1, CountsAreNat
<1>3. CV(y) = CV(x) - 1 /\ CE(y) = CE(x) - 1
  <2>1. IsFiniteSet(LiveSlots(x.v)) /\ IsFiniteSet(LiveSlots(x.e))
    BY CountsAreNat
  <2>2. CV(y) = CV(x) - 1
    BY <1>1, <2>1, OneLess DEF CV
  <2>3. CE(y) = CE(x) - 1
    BY <1>1, <2>1, OneLess DEF CE
  <2> QED
    BY <2>2, <2>3
<1>4. CV(y) # 0
  BY <1>1, CountsAreNat, FS_EmptySet DEF CV
<1>5. CF(y) = CF(x) /\ CL(y) = CL(x) /\ CS(y) = CS(x)
  BY <1>1, SameLoops, ShellsCount DEF CF, CL, SameFaces
<1>6. CS(x) \in Nat
  BY ShellsCount
<1> QED
  BY <1>1, <1>2, <1>3, <1>4, <1>5, <1>6 DEF Shifts, y

LEMMA MefCounts ==
    ASSUME NEW x, Sound(x), NEW from, NEW to, NEW s \in Splits, CanMef(x, from, to, s)
    PROVE  CS(x) = 1 /\ Shifts(x, Mef(x, from, to, s), 0, 1, 1, 1, 0, 0)
<1> DEFINE y == Mef(x, from, to, s)
           m == NewSlot(x.f)
<1>1. /\ Sound(y) /\ y.v = x.v /\ y.genus = x.genus
      /\ LiveSlots(y.e) = LiveSlots(x.e) \cup {NewSlot(x.e)}
      /\ NewSlot(x.e) \notin LiveSlots(x.e)
      /\ LiveSlots(y.f) = LiveSlots(x.f) \cup {m} /\ m \notin LiveSlots(x.f)
      /\ Len(LoopsOf(y, m)) = 1
      /\ \A g \in LiveSlots(x.f) : Len(LoopsOf(y, g)) = Len(LoopsOf(x, g))
      /\ LiveSlots(x.f) # {}
  BY MefIs
<1> HIDE DEF y, m
<1>2. /\ IsFiniteSet(LiveSlots(x.e)) /\ IsFiniteSet(LiveSlots(x.f)) /\ IsFiniteSet(AllLoops(x))
      /\ CV(x) \in Nat /\ CE(x) \in Nat /\ CF(x) \in Nat /\ CL(x) \in Nat /\ x.genus \in Nat
  BY CountsAreNat
<1>3. CE(y) = CE(x) + 1
  BY <1>1, <1>2, OneMore DEF CE
<1>4. CF(y) = CF(x) + 1
  BY <1>1, <1>2, OneMore DEF CF
<1>5. AllLoops(y) = AllLoops(x) \cup {<<m, 1>>} /\ <<m, 1>> \notin AllLoops(x)
  BY <1>1, NewFaceLoops
<1>6. CL(y) = CL(x) + 1
  BY <1>2, <1>5, OneMore DEF CL
<1>7. CS(x) = 1 /\ CS(y) = 1
  BY <1>1, ShellsCount
<1>8. CV(y) = CV(x)
  BY <1>1 DEF CV
<1> QED
  BY <1>1, <1>2, <1>3, <1>4, <1>6, <1>7, <1>8 DEF Shifts, y

LEMMA KefCounts ==
    ASSUME NEW x, Sound(x), NEW e, CanKef(x, e)
    PROVE  CF(x) > 1 /\ CE(x) > 0 /\ Shifts(x, Kef(x, e), 0, -1, -1, -1, 0, 0)
<1> DEFINE y == Kef(x, e)
           g == UseOf(x, e, FORWARD).face
<1>1. /\ Sound(y) /\ y.v = x.v /\ y.genus = x.genus
      /\ LiveSlots(y.e) = LiveSlots(x.e) \ {e} /\ e \in LiveSlots(x.e)
      /\ LiveSlots(y.f) = LiveSlots(x.f) \ {g} /\ g \in LiveSlots(x.f)
      /\ Len(LoopsOf(x, g)) = 1
      /\ \A h \in LiveSlots(y.f) : Len(LoopsOf(y, h)) = Len(LoopsOf(x, h))
      /\ LiveSlots(y.f) # {}
  BY KefIs
<1> HIDE DEF y, g
<1>2. /\ IsFiniteSet(LiveSlots(x.e)) /\ IsFiniteSet(LiveSlots(x.f))
      /\ CV(x) \in Nat /\ CE(x) \in Nat /\ CF(x) \in Nat /\ CL(x) \in Nat /\ x.genus \in Nat
  BY CountsAreNat
<1>3. /\ IsFiniteSet(LiveSlots(y.f)) /\ IsFiniteSet(AllLoops(y))
      /\ CE(y) \in Nat /\ CF(y) \in Nat /\ CL(y) \in Nat
  BY <1>1, CountsAreNat
<1>4. CE(y) = CE(x) - 1
  BY <1>1, <1>2, OneLess DEF CE
<1>5. CF(y) = CF(x) - 1
  BY <1>1, <1>2, OneLess DEF CF
<1>6. AllLoops(x) = AllLoops(y) \cup {<<g, 1>>} /\ <<g, 1>> \notin AllLoops(y)
  <2>1. LiveSlots(x.f) = LiveSlots(y.f) \cup {g} /\ g \notin LiveSlots(y.f)
    BY <1>1
  <2>2. \A h \in LiveSlots(y.f) : Len(LoopsOf(x, h)) = Len(LoopsOf(y, h))
    BY <1>1
  <2> QED
    BY <1>1, <2>1, <2>2, NewFaceLoops
<1>7. CL(x) = CL(y) + 1
  BY <1>3, <1>6, OneMore DEF CL
<1>8. CS(x) = 1 /\ CS(y) = 1
  BY <1>1, ShellsCount
<1>9. CV(y) = CV(x) /\ CF(y) # 0
  BY <1>1, <1>3, FS_EmptySet DEF CV, CF
<1> QED
  BY <1>1, <1>2, <1>3, <1>4, <1>5, <1>7, <1>8, <1>9 DEF Shifts, y

LEMMA MekrCounts ==
    ASSUME NEW x, Sound(x), NEW from, NEW to, NEW s \in Joins, CanMekr(x, from, to, s)
    PROVE  CL(x) > CF(x) /\ Shifts(x, Mekr(x, from, to, s), 0, 1, 0, -1, 0, 0)
<1> DEFINE y == Mekr(x, from, to, s)
           f == from.face
<1>1. /\ Sound(y) /\ y.v = x.v /\ y.genus = x.genus
      /\ LiveSlots(y.e) = LiveSlots(x.e) \cup {NewSlot(x.e)}
      /\ NewSlot(x.e) \notin LiveSlots(x.e)
      /\ LiveSlots(y.f) = LiveSlots(x.f) /\ f \in LiveSlots(x.f)
      /\ Len(LoopsOf(x, f)) >= 2 /\ Len(LoopsOf(y, f)) = Len(LoopsOf(x, f)) - 1
      /\ \A g \in LiveSlots(x.f) \ {f} : Len(LoopsOf(y, g)) = Len(LoopsOf(x, g))
  BY MekrIs
<1> HIDE DEF y, f
<1>2. /\ IsFiniteSet(LiveSlots(x.e))
      /\ CV(x) \in Nat /\ CE(x) \in Nat /\ CF(x) \in Nat /\ CL(x) \in Nat /\ x.genus \in Nat
  BY CountsAreNat
<1>3. IsFiniteSet(AllLoops(y)) /\ CL(y) \in Nat
  BY <1>1, CountsAreNat
<1>4. CE(y) = CE(x) + 1
  BY <1>1, <1>2, OneMore DEF CE
<1> DEFINE t == <<f, Len(LoopsOf(x, f))>>
<1>5. AllLoops(x) = AllLoops(y) \cup {t} /\ t \notin AllLoops(y)
  <2>1. LiveSlots(x.f) = LiveSlots(y.f) \cup {f} /\ f \in LiveSlots(y.f)
    BY <1>1
  <2>2. \A g \in LiveSlots(y.f) \ {f} : Len(LoopsOf(x, g)) = Len(LoopsOf(y, g))
    BY <1>1
  <2>3. Len(LoopsOf(x, f)) = Len(LoopsOf(y, f)) + 1
    BY <1>1, LoopsOfFace
  <2> QED
    BY <1>1, <2>1, <2>2, <2>3, OneLoopMore
<1> HIDE DEF t
<1>6. CL(x) = CL(y) + 1
  BY <1>3, <1>5, OneMore DEF CL
<1>7. CS(y) = CS(x) /\ CS(x) \in Nat
  BY <1>1, ShellsCount
<1>8. CV(y) = CV(x) /\ CF(y) = CF(x)
  BY <1>1 DEF CV, CF
<1>9. CF(x) < CL(x)
  BY <1>1, LoopsCoverFaces
<1> QED
  BY <1>1, <1>2, <1>3, <1>4, <1>6, <1>7, <1>8, <1>9 DEF Shifts, y

LEMMA KemrCounts ==
    ASSUME NEW x, Sound(x), NEW e, CanKemr(x, e)
    PROVE  CE(x) > 0 /\ Shifts(x, Kemr(x, e), 0, -1, 0, 1, 0, 0)
<1> DEFINE y == Kemr(x, e)
           f == UseOf(x, e, FORWARD).face
<1>1. /\ Sound(y) /\ y.v = x.v /\ y.genus = x.genus
      /\ LiveSlots(y.e) = LiveSlots(x.e) \ {e} /\ e \in LiveSlots(x.e)
      /\ LiveSlots(y.f) = LiveSlots(x.f) /\ f \in LiveSlots(x.f)
      /\ Len(LoopsOf(y, f)) = Len(LoopsOf(x, f)) + 1
      /\ \A g \in LiveSlots(x.f) \ {f} : Len(LoopsOf(y, g)) = Len(LoopsOf(x, g))
  BY KemrIs
<1> HIDE DEF y, f
<1>2. /\ IsFiniteSet(LiveSlots(x.e)) /\ IsFiniteSet(AllLoops(x))
      /\ CV(x) \in Nat /\ CE(x) \in Nat /\ CF(x) \in Nat /\ CL(x) \in Nat /\ x.genus \in Nat
  BY CountsAreNat
<1>3. CE(y) \in Nat /\ CL(y) \in Nat
  BY <1>1, CountsAreNat
<1>4. CE(y) = CE(x) - 1
  BY <1>1, <1>2, OneLess DEF CE
<1> DEFINE t == <<f, Len(LoopsOf(y, f))>>
<1>5. AllLoops(y) = AllLoops(x) \cup {t} /\ t \notin AllLoops(x)
  <2>1. LiveSlots(y.f) = LiveSlots(x.f) \cup {f}
    BY <1>1
  <2> QED
    BY <1>1, <2>1, OneLoopMore
<1> HIDE DEF t
<1>6. CL(y) = CL(x) + 1
  BY <1>2, <1>5, OneMore DEF CL
<1>7. CS(y) = CS(x) /\ CS(x) \in Nat
  BY <1>1, ShellsCount
<1>8. CV(y) = CV(x) /\ CF(y) = CF(x)
  BY <1>1 DEF CV, CF
<1> QED
  BY <1>1, <1>2, <1>3, <1>4, <1>6, <1>7, <1>8 DEF Shifts, y

LEMMA KfmrhCounts ==
    ASSUME NEW x, Sound(x), NEW kill, NEW f, CanKfmrh(x, kill, f)
    PROVE  CF(x) > 1 /\ Shifts(x, Kfmrh(x, kill, f), 0, 0, -1, 0, 0, 1)
<1> DEFINE y == Kfmrh(x, kill, f)
<1>1. /\ Sound(y) /\ y.v = x.v /\ y.e = x.e /\ y.genus = x.genus + 1
      /\ LiveSlots(y.f) = LiveSlots(x.f) \ {kill}
      /\ kill \in LiveSlots(x.f) /\ f \in LiveSlots(y.f)
      /\ Len(LoopsOf(x, kill)) = 1
      /\ Len(LoopsOf(y, f)) = Len(LoopsOf(x, f)) + 1
      /\ \A g \in LiveSlots(y.f) \ {f} : Len(LoopsOf(y, g)) = Len(LoopsOf(x, g))
  BY KfmrhIs
<1> HIDE DEF y
<1>2. CL(y) = CL(x) /\ CF(y) = CF(x) - 1 /\ CF(y) > 0
  BY <1>1, LoopMoves
<1>3. CV(x) \in Nat /\ CE(x) \in Nat /\ CF(x) \in Nat /\ CL(x) \in Nat /\ x.genus \in Nat
  BY CountsAreNat
<1>4. CS(x) = 1 /\ CS(y) = 1
  BY <1>1, ShellsCount
<1>5. CV(y) = CV(x) /\ CE(y) = CE(x)
  BY <1>1 DEF CV, CE
<1> QED
  BY <1>1, <1>2, <1>3, <1>4, <1>5 DEF Shifts, y

LEMMA MfkrhCounts ==
    ASSUME NEW x, Sound(x), NEW f, NEW ring, CanMfkrh(x, f, ring)
    PROVE  x.genus > 0 /\ CL(x) > CF(x) /\ Shifts(x, Mfkrh(x, f, ring), 0, 0, 1, 0, 0, -1)
<1> DEFINE y == Mfkrh(x, f, ring)
           m == NewSlot(x.f)
<1>1. /\ Sound(y) /\ y.v = x.v /\ y.e = x.e /\ y.genus = x.genus - 1 /\ x.genus > 0
      /\ LiveSlots(y.f) = LiveSlots(x.f) \cup {m} /\ m \notin LiveSlots(x.f)
      /\ f \in LiveSlots(x.f) /\ Len(LoopsOf(x, f)) >= 2
      /\ Len(LoopsOf(y, m)) = 1
      /\ Len(LoopsOf(y, f)) = Len(LoopsOf(x, f)) - 1
      /\ \A g \in LiveSlots(x.f) \ {f} : Len(LoopsOf(y, g)) = Len(LoopsOf(x, g))
  BY MfkrhIs
<1> HIDE DEF y, m
<1>2. CL(x) = CL(y) /\ CF(x) = CF(y) - 1 /\ CF(x) > 0
  <2>1. m \in LiveSlots(y.f) /\ LiveSlots(x.f) = LiveSlots(y.f) \ {m}
    BY <1>1
  <2>2. Len(LoopsOf(x, f)) = Len(LoopsOf(y, f)) + 1
    BY <1>1, LoopsOfFace
  <2>3. \A g \in LiveSlots(x.f) \ {f} : Len(LoopsOf(x, g)) = Len(LoopsOf(y, g))
    BY <1>1
  <2> QED
    BY <1>1, <2>1, <2>2, <2>3, LoopMoves
<1>3. CV(x) \in Nat /\ CE(x) \in Nat /\ CF(x) \in Nat /\ CL(x) \in Nat /\ x.genus \in Nat
      /\ CF(y) \in Nat
  BY <1>1, CountsAreNat
<1>4. CS(x) = 1 /\ CS(y) = 1
  BY <1>1, ShellsCount
<1>5. CV(y) = CV(x) /\ CE(y) = CE(x)
  BY <1>1 DEF CV, CE
<1>6. CF(x) < CL(x)
  BY <1>1, LoopsCoverFaces
<1> QED
  BY <1>1, <1>2, <1>3, <1>4, <1>5, <1>6 DEF Shifts, y

LEMMA PcurveCounts ==
    ASSUME NEW x, Sound(x), NEW at, NEW pc \in Pcurves, CanSetPcurve(x, at)
    PROVE  Shifts(x, SetPcurve(x, at, pc), 0, 0, 0, 0, 0, 0)
<1> DEFINE y == SetPcurve(x, at, pc)
<1>1. Sound(y) /\ SameFaces(x, y) /\ y.v = x.v /\ y.e = x.e /\ y.genus = x.genus
  BY PcurveIs
<1> HIDE DEF y
<1>2. CF(y) = CF(x) /\ CL(y) = CL(x) /\ CS(y) = CS(x) /\ CS(x) \in Nat
  <2>1. CF(y) = CF(x)
    BY <1>1 DEF CF, SameFaces
  <2>2. CL(y) = CL(x)
    BY <1>1, SameLoops DEF CL
  <2>3. CS(y) = CS(x) /\ CS(x) \in Nat
    BY <1>1, ShellsCount DEF SameFaces
  <2> QED
    BY <2>1, <2>2, <2>3
<1>3. CV(x) \in Nat /\ CE(x) \in Nat /\ CF(x) \in Nat /\ CL(x) \in Nat /\ x.genus \in Nat
  BY CountsAreNat
<1>4. CV(y) = CV(x) /\ CE(y) = CE(x)
  BY <1>1 DEF CV, CE
<1> QED
  BY <1>1, <1>2, <1>3, <1>4 DEF Shifts, y

-----------------------------------------------------------------------------
(***************************************************************************)
(* The builder implements the Euler plane.                                 *)
(***************************************************************************)

\* What holds of every builder there is: its references are live, and its
\* counts are on the plane.
OnPlane == Plane!OnThePlane

LEMMA StartsOnPlane == b = EmptyBuilder => Plane!Init /\ OnPlane
<1> SUFFICES ASSUME b = EmptyBuilder
             PROVE  Plane!Init /\ OnPlane
  OBVIOUS
<1>1. /\ Counts(b).v = 0 /\ Counts(b).f = 0 /\ Counts(b).l = 0
      /\ Counts(b).s = 0 /\ Counts(b).g = 0 /\ Cardinality(LiveSlots(b.e)) = 0
  BY EmptyCounts, CountsAre DEF CE
<1> QED
  BY <1>1 DEF Plane!Init, OnPlane, Plane!OnThePlane, Plane!CountsAreInt, Plane!Line

\* Every operator of the builder is the operator of the plane of its name;
\* set_pcurve moves no count.
LEMMA OperatorMovesCounts == AllSound /\ OnPlane /\ Next => Plane!Next \/ UNCHANGED Plane!counts
<1> SUFFICES ASSUME AllSound, OnPlane, Next
             PROVE  Plane!Next \/ UNCHANGED Plane!counts
  OBVIOUS
<1>1. Sound(b)
  BY DEF AllSound
<1>2. /\ Counts(b).v = CV(b) /\ Counts(b).f = CF(b) /\ Counts(b).l = CL(b)
      /\ Counts(b).s = CS(b) /\ Counts(b).g = b.genus /\ Cardinality(LiveSlots(b.e)) = CE(b)
  BY CountsAre DEF CE
<1>3. CV(b) \in Nat /\ CE(b) \in Nat /\ CF(b) \in Nat /\ CL(b) \in Nat /\ CS(b) \in Nat
      /\ b.genus \in Nat
  BY <1>1, CountsAreNat, ShellsCount
<1>4. CASE MVFS
  <2>1. PICK seed \in Seeds : CanMvfs(b) /\ b' = Mvfs(b, seed)
    BY <1>4 DEF MVFS
  <2>2. CV(b) = 0 /\ CE(b) = 0 /\ CF(b) = 0 /\ Shifts(b, b', 1, 0, 1, 1, 1, 0)
    BY <1>1, <2>1, MvfsCounts
  <2>3. Plane!Step(1, 0, 1, 1, 1, 0)
    BY <2>2, ShiftIsStep
  <2> QED
    BY <1>2, <2>2, <2>3 DEF Plane!Next, Plane!MVFS
<1>5. CASE KVFS
  <2>1. CanKvfs(b) /\ b' = EmptyBuilder
    BY <1>5 DEF KVFS, Kvfs
  <2>2. CV(b) = 1 /\ CE(b) = 0 /\ CF(b) = 1 /\ CL(b) = 1 /\ CS(b) = 1
    BY <1>1, <2>1, KvfsCounts
  <2>3. b.genus = 0
    BY <1>2, <1>3, <2>2 DEF OnPlane, Plane!OnThePlane, Plane!Line
  <2>4. Shifts(b, b', -1, 0, -1, -1, -1, 0)
    BY <2>1, <2>2, <2>3, EmptyCounts DEF Shifts
  <2>5. Plane!Step(-1, 0, -1, -1, -1, 0)
    BY <2>4, ShiftIsStep
  <2> QED
    BY <1>2, <2>2, <2>3, <2>5 DEF Plane!Next, Plane!KVFS
<1>6. CASE MEV
  <2>1. PICK at \in Junctions(b), st \in Struts : CanMev(b, at, st) /\ b' = Mev(b, at, st)
    BY <1>6 DEF MEV
  <2>2. CS(b) = 1 /\ Shifts(b, b', 1, 1, 0, 0, 0, 0)
    BY <1>1, <2>1, MevCounts
  <2>3. Plane!Step(1, 1, 0, 0, 0, 0)
    BY <2>2, ShiftIsStep
  <2> QED
    BY <1>2, <2>2, <2>3 DEF Plane!Next, Plane!MEV
<1>7. CASE KEV
  <2>1. PICK e \in LiveSlots(b.e) : CanKev(b, e) /\ b' = Kev(b, e)
    BY <1>7 DEF KEV
  <2>2. CV(b) > 1 /\ CE(b) > 0 /\ Shifts(b, b', -1, -1, 0, 0, 0, 0)
    BY <1>1, <2>1, KevCounts
  <2>3. Plane!Step(-1, -1, 0, 0, 0, 0)
    BY <2>2, ShiftIsStep
  <2> QED
    BY <1>2, <2>2, <2>3 DEF Plane!Next, Plane!KEV
<1>8. CASE MEF
  <2>1. PICK to \in Junctions(b), sp \in Splits : \E from \in SplitsFrom(b, to) :
            CanMef(b, from, to, sp) /\ b' = Mef(b, from, to, sp)
    BY <1>8 DEF MEF
  <2>2. PICK from \in SplitsFrom(b, to) : CanMef(b, from, to, sp) /\ b' = Mef(b, from, to, sp)
    BY <2>1
  <2>3. CS(b) = 1 /\ Shifts(b, b', 0, 1, 1, 1, 0, 0)
    BY <1>1, <2>2, MefCounts
  <2>4. Plane!Step(0, 1, 1, 1, 0, 0)
    BY <2>3, ShiftIsStep
  <2> QED
    BY <1>2, <2>3, <2>4 DEF Plane!Next, Plane!MEF
<1>9. CASE KEF
  <2>1. PICK e \in LiveSlots(b.e) : CanKef(b, e) /\ b' = Kef(b, e)
    BY <1>9 DEF KEF
  <2>2. CF(b) > 1 /\ CE(b) > 0 /\ Shifts(b, b', 0, -1, -1, -1, 0, 0)
    BY <1>1, <2>1, KefCounts
  <2>3. Plane!Step(0, -1, -1, -1, 0, 0)
    BY <2>2, ShiftIsStep
  <2> QED
    BY <1>2, <2>2, <2>3 DEF Plane!Next, Plane!KEF
<1>10. CASE MEKR
  <2>1. PICK from \in Junctions(b), to \in Junctions(b), j \in Joins :
            CanMekr(b, from, to, j) /\ b' = Mekr(b, from, to, j)
    BY <1>10 DEF MEKR
  <2>2. CL(b) > CF(b) /\ Shifts(b, b', 0, 1, 0, -1, 0, 0)
    BY <1>1, <2>1, MekrCounts
  <2>3. Plane!Step(0, 1, 0, -1, 0, 0)
    BY <2>2, ShiftIsStep
  <2> QED
    BY <1>2, <2>2, <2>3 DEF Plane!Next, Plane!MEKR
<1>11. CASE KEMR
  <2>1. PICK e \in LiveSlots(b.e) : CanKemr(b, e) /\ b' = Kemr(b, e)
    BY <1>11 DEF KEMR
  <2>2. CE(b) > 0 /\ Shifts(b, b', 0, -1, 0, 1, 0, 0)
    BY <1>1, <2>1, KemrCounts
  <2>3. Plane!Step(0, -1, 0, 1, 0, 0)
    BY <2>2, ShiftIsStep
  <2> QED
    BY <1>2, <2>2, <2>3 DEF Plane!Next, Plane!KEMR
<1>12. CASE KFMRH
  <2>1. PICK kill \in LiveSlots(b.f), into \in LiveSlots(b.f) :
            CanKfmrh(b, kill, into) /\ b' = Kfmrh(b, kill, into)
    BY <1>12 DEF KFMRH
  <2>2. CF(b) > 1 /\ Shifts(b, b', 0, 0, -1, 0, 0, 1)
    BY <1>1, <2>1, KfmrhCounts
  <2>3. Plane!Step(0, 0, -1, 0, 0, 1)
    BY <2>2, ShiftIsStep
  <2> QED
    BY <1>2, <2>2, <2>3 DEF Plane!Next, Plane!KFMRH
<1>13. CASE MFKRH
  <2>1. PICK f \in LiveSlots(b.f) : \E ring \in DOMAIN LoopsOf(b, f) :
            CanMfkrh(b, f, ring) /\ b' = Mfkrh(b, f, ring)
    BY <1>13 DEF MFKRH
  <2>2. PICK ring \in DOMAIN LoopsOf(b, f) : CanMfkrh(b, f, ring) /\ b' = Mfkrh(b, f, ring)
    BY <2>1
  <2>3. b.genus > 0 /\ CL(b) > CF(b) /\ Shifts(b, b', 0, 0, 1, 0, 0, -1)
    BY <1>1, <2>2, MfkrhCounts
  <2>4. Plane!Step(0, 0, 1, 0, 0, -1)
    BY <2>3, ShiftIsStep
  <2> QED
    BY <1>2, <2>3, <2>4 DEF Plane!Next, Plane!MFKRH
<1>14. CASE SET_PCURVE
  <2>1. PICK at \in Junctions(b), pc \in Pcurves :
            CanSetPcurve(b, at) /\ b' = SetPcurve(b, at, pc)
    BY <1>14 DEF SET_PCURVE
  <2>2. Shifts(b, b', 0, 0, 0, 0, 0, 0)
    BY <1>1, <2>1, PcurveCounts
  <2>3. Plane!Step(0, 0, 0, 0, 0, 0)
    BY <2>2, ShiftIsStep
  <2>4. UNCHANGED Plane!counts
    BY <1>2, <1>3, <2>3 DEF Plane!Step, Plane!counts
  <2> QED
    BY <2>4
<1> QED
  BY <1>4, <1>5, <1>6, <1>7, <1>8, <1>9, <1>10, <1>11, <1>12, <1>13, <1>14 DEF Next

\* A step that moves the counts along the plane stays in it.
LEMMA ShiftInPlane ==
    ASSUME Plane!OnThePlane,
           NEW dv \in Int, NEW de \in Int, NEW df \in Int,
           NEW dl \in Int, NEW ds \in Int, NEW dg \in Int,
           Plane!Step(dv, de, df, dl, ds, dg),
           dv - de + df - (dl - df) - 2 * (ds - dg) = 0
    PROVE  Plane!OnThePlane'
<1>1. ASSUME NEW v \in Int, NEW e \in Int, NEW f \in Int, NEW l \in Int, NEW s \in Int, NEW g \in Int,
             v - e + f - (l - f) - 2 * (s - g) = 0
      PROVE  /\ v + dv \in Int /\ e + de \in Int /\ f + df \in Int
             /\ l + dl \in Int /\ s + ds \in Int /\ g + dg \in Int
             /\ (v + dv) - (e + de) + (f + df) - ((l + dl) - (f + df)) - 2 * ((s + ds) - (g + dg)) = 0
  BY <1>1
<1> QED
  BY <1>1 DEF Plane!Step, Plane!OnThePlane, Plane!CountsAreInt, Plane!Line

\* The directions of the abstract operators lie in the plane.
LEMMA PlaneStep ==
    Plane!OnThePlane /\ [Plane!Next]_(Plane!counts) => Plane!OnThePlane'
<1> SUFFICES ASSUME Plane!OnThePlane, [Plane!Next]_(Plane!counts)
             PROVE  Plane!OnThePlane'
  OBVIOUS
<1>1. CASE Plane!MVFS
  BY <1>1, ShiftInPlane DEF Plane!MVFS
<1>2. CASE Plane!KVFS
  BY <1>2, ShiftInPlane DEF Plane!KVFS
<1>3. CASE Plane!MEV
  BY <1>3, ShiftInPlane DEF Plane!MEV
<1>4. CASE Plane!KEV
  BY <1>4, ShiftInPlane DEF Plane!KEV
<1>5. CASE Plane!MEF
  BY <1>5, ShiftInPlane DEF Plane!MEF
<1>6. CASE Plane!KEF
  BY <1>6, ShiftInPlane DEF Plane!KEF
<1>7. CASE Plane!MEKR
  BY <1>7, ShiftInPlane DEF Plane!MEKR
<1>8. CASE Plane!KEMR
  BY <1>8, ShiftInPlane DEF Plane!KEMR
<1>9. CASE Plane!KFMRH
  BY <1>9, ShiftInPlane DEF Plane!KFMRH
<1>10. CASE Plane!MFKRH
  BY <1>10, ShiftInPlane DEF Plane!MFKRH
<1>11. CASE UNCHANGED Plane!counts
  BY <1>11 DEF Plane!OnThePlane, Plane!CountsAreInt, Plane!Line, Plane!counts
<1> QED
  BY <1>1, <1>2, <1>3, <1>4, <1>5, <1>6, <1>7, <1>8, <1>9, <1>10, <1>11 DEF Plane!Next

\* docs/DATA-MODEL.md, Euler operators: "every operator keeps
\* V - E + F - (L - F) - 2(S - G) = 0", whatever order they are applied in
\* and however far the counts grow: it is a property of the plane, before any
\* builder is shown to implement it.
THEOREM LineStaysZero == Plane!Spec => [](Plane!Line = 0)
<1>1. Plane!Init => OnPlane
  BY DEF Plane!Init, OnPlane, Plane!OnThePlane, Plane!CountsAreInt, Plane!Line
<1>2. OnPlane => Plane!Line = 0
  BY DEF OnPlane, Plane!OnThePlane
<1>3. OnPlane /\ [Plane!Next]_(Plane!counts) => OnPlane'
  BY PlaneStep DEF OnPlane
<1> QED
  BY <1>1, <1>2, <1>3, PTL DEF Plane!Spec

LEMMA StepOnPlane ==
    AllSound /\ OnPlane /\ [Next]_b => [Plane!Next]_(Plane!counts) /\ OnPlane'
<1> SUFFICES ASSUME AllSound, OnPlane, [Next]_b
             PROVE  [Plane!Next]_(Plane!counts) /\ OnPlane'
  OBVIOUS
<1>1. [Plane!Next]_(Plane!counts)
  <2>1. CASE Next
    BY <2>1, OperatorMovesCounts
  <2>2. CASE UNCHANGED b
    BY <2>2 DEF Plane!counts
  <2> QED
    BY <2>1, <2>2
<1>2. OnPlane'
  BY <1>1, PlaneStep DEF OnPlane
<1> QED
  BY <1>1, <1>2

\* The counts a builder reports move only as the ten operators of the Euler
\* plane move them, under the conditions those have there: the builder
\* implements the plane.
THEOREM CountsMoveOnThePlane ==
    ASSUME Starts = {EmptyBuilder}
    PROVE  Spec => ImplementsEulerPlane
<1>1. Init => AllSound /\ OnPlane /\ Plane!Init
  BY EmptyBuilderIs, StartsOnPlane DEF Init, AllSound
<1>2. AllSound /\ [Next]_b => AllSound'
  BY SoundStep DEF AllSound
<1>3. AllSound /\ OnPlane /\ [Next]_b => [Plane!Next]_(Plane!counts) /\ OnPlane'
  BY StepOnPlane
<1> QED
  BY <1>1, <1>2, <1>3, PTL DEF Spec, ImplementsEulerPlane, Plane!Spec

\* docs/DATA-MODEL.md, Euler operators: "every operator keeps
\* V - E + F - (L - F) - 2(S - G) = 0", of every builder the operators make,
\* degenerate edges counted.
THEOREM EveryBuilderIsOnTheLine ==
    ASSUME Starts = {EmptyBuilder}
    PROVE  Spec => [](Plane!Line = 0)
<1>1. Init => AllSound /\ OnPlane
  BY EmptyBuilderIs, StartsOnPlane DEF Init, AllSound
<1>2. AllSound /\ [Next]_b => AllSound'
  BY SoundStep DEF AllSound
<1>3. AllSound /\ OnPlane /\ [Next]_b => OnPlane'
  BY StepOnPlane
<1>4. OnPlane => Plane!Line = 0
  BY DEF OnPlane, Plane!OnThePlane
<1> QED
  BY <1>1, <1>2, <1>3, <1>4, PTL DEF Spec
=============================================================================
