------------------------------- MODULE Order -------------------------------
(***************************************************************************)
(* Triples of naturals in lexicographic order, the sequence of a finite    *)
(* set of them, and that it is one.                                        *)
(***************************************************************************)
EXTENDS Integers, FiniteSetTheorems, FunctionTheorems, SequenceTheorems,
        WellFoundedInduction, TLAPS

UpTo(p, q) == \/ p[1] < q[1]
              \/ p[1] = q[1] /\ (p[2] < q[2] \/ (p[2] = q[2] /\ p[3] <= q[3]))
InOrder(P) == [n \in 1 .. Cardinality(P) |->
                 CHOOSE p \in P : Cardinality({q \in P : UpTo(q, p)}) = n]

-----------------------------------------------------------------------------
\* A set of naturals has a least one, so `BTreeSet::first` names one slot and
\* `min_by_key` one use.  The initial segments 0 .. i-1 are finite, and strict
\* inclusion of finite sets is well founded.
LEMMA LeastOfNats ==
    ASSUME NEW S \in SUBSET Nat, S # {}
    PROVE  \E i \in S : \A j \in S : i <= j
<1> DEFINE Below == {0 .. (i - 1) : i \in S}
<1>1. \A i \in S : 0 .. (i - 1) \in FiniteSubsetsOf(Nat)
  BY FS_Interval DEF FiniteSubsetsOf
<1>2. /\ Below \subseteq FiniteSubsetsOf(Nat)
      /\ Below # {}
  BY <1>1
<1>3. PICK X \in Below : \A Y \in Below :
             ~ (<<Y, X>> \in StrictSubsetOrdering(Nat))
  BY <1>2, FS_StrictSubsetOrderingWellFounded, WFMin
<1>4. PICK i \in S : X = 0 .. (i - 1)
  OBVIOUS
<1>5. ASSUME NEW j \in S, j < i PROVE FALSE
  <2>1. 0 .. (j - 1) \in Below
    OBVIOUS
  <2>2. /\ 0 .. (j - 1) \subseteq 0 .. (i - 1)
        /\ j \in 0 .. (i - 1)
        /\ j \notin 0 .. (j - 1)
    BY <1>5
  <2>3. <<0 .. (j - 1), X>> \in StrictSubsetOrdering(Nat)
    BY <1>4, <2>2 DEF StrictSubsetOrdering
  <2> QED
    BY <1>3, <2>1, <2>3
<1> QED
  BY <1>5

-----------------------------------------------------------------------------
(***************************************************************************)
(* InOrder enumerates: a place has as many predecessors as its position.   *)
(***************************************************************************)

Triples == Nat \X Nat \X Nat

\* o lists the elements of P, each once.
Enumerates(o, P) ==
    /\ o \in Seq(P)
    /\ \A p \in P : \E n \in 1 .. Len(o) : o[n] = p
    /\ \A i, j \in 1 .. Len(o) : o[i] = o[j] => i = j

LEMMA UpToIsAnOrder ==
    /\ \A p \in Triples : UpTo(p, p)
    /\ \A p, q \in Triples : UpTo(p, q) \/ UpTo(q, p)
    /\ \A p, q \in Triples : UpTo(p, q) /\ UpTo(q, p) => p = q
    /\ \A p, q, r \in Triples : UpTo(p, q) /\ UpTo(q, r) => UpTo(p, r)
<1>1. \A p \in Triples : /\ p[1] \in Nat /\ p[2] \in Nat /\ p[3] \in Nat
                         /\ p = <<p[1], p[2], p[3]>>
  BY DEF Triples
<1>2. \A p \in Triples : UpTo(p, p)
  BY <1>1 DEF UpTo
<1>3. \A p, q \in Triples : UpTo(p, q) \/ UpTo(q, p)
  BY <1>1 DEF UpTo
<1>4. ASSUME NEW p \in Triples, NEW q \in Triples, UpTo(p, q), UpTo(q, p)
      PROVE  p = q
  <2>1. p[1] = q[1] /\ p[2] = q[2] /\ p[3] = q[3]
    BY <1>1, <1>4 DEF UpTo
  <2> QED
    BY <1>1, <2>1
<1>5. \A p, q, r \in Triples : UpTo(p, q) /\ UpTo(q, r) => UpTo(p, r)
  BY <1>1 DEF UpTo
<1> QED
  BY <1>2, <1>3, <1>4, <1>5

\* The n-th element has n predecessors, itself included, and each has its place.
LEMMA InOrderRanks ==
    ASSUME NEW P \in SUBSET Triples, IsFiniteSet(P)
    PROVE  LET down(p) == {q \in P : UpTo(q, p)}
               N == Cardinality(P)
               o == InOrder(P)
           IN  /\ N \in Nat /\ o = [n \in 1 .. N |-> o[n]]
               /\ \A n \in 1 .. N : o[n] \in P /\ Cardinality(down(o[n])) = n
               /\ \A p \in P : Cardinality(down(p)) \in 1 .. N
               /\ \A p, q \in P : UpTo(p, q) /\ p # q =>
                     Cardinality(down(p)) < Cardinality(down(q))
<1> DEFINE N == Cardinality(P)
           down(p) == {q \in P : UpTo(q, p)}
           rank == [p \in P |-> Cardinality(down(p))]
           o == InOrder(P)
<1>1. N \in Nat
  BY FS_CardinalityType
<1>2. \A p \in P : /\ IsFiniteSet(down(p))
                   /\ Cardinality(down(p)) \in Nat
                   /\ Cardinality(down(p)) <= N
                   /\ Cardinality(down(p)) # 0
  <2> SUFFICES ASSUME NEW p \in P
               PROVE  /\ IsFiniteSet(down(p))
                      /\ Cardinality(down(p)) \in Nat
                      /\ Cardinality(down(p)) <= N
                      /\ Cardinality(down(p)) # 0
    OBVIOUS
  <2>1. down(p) \in SUBSET P /\ p \in down(p)
    BY UpToIsAnOrder
  <2> HIDE DEF down
  <2>2. IsFiniteSet(down(p)) /\ Cardinality(down(p)) <= N
    BY <2>1, FS_Subset
  <2>3. Cardinality(down(p)) \in Nat
    BY <2>2, FS_CardinalityType
  <2>4. Cardinality(down(p)) # 0
    BY <2>1, <2>2, FS_EmptySet
  <2> QED
    BY <2>2, <2>3, <2>4
<1>3. rank \in [P -> 1 .. N]
  BY <1>1, <1>2
<1>4. ASSUME NEW p \in P, NEW q \in P, UpTo(p, q), p # q
      PROVE  Cardinality(down(p)) < Cardinality(down(q))
  <2>1. down(p) \in SUBSET down(q)
    BY <1>4, UpToIsAnOrder
  <2>2. q \in down(q) /\ q \notin down(p)
    BY <1>4, UpToIsAnOrder
  <2>3. IsFiniteSet(down(q))
    BY <1>2
  <2> HIDE DEF down
  <2>4. /\ Cardinality(down(p)) <= Cardinality(down(q))
        /\ Cardinality(down(q)) = Cardinality(down(p)) => down(q) = down(p)
    BY <2>1, <2>3, FS_Subset
  <2>5. Cardinality(down(p)) \in Nat /\ Cardinality(down(q)) \in Nat
    BY <1>2 DEF down
  <2> QED
    BY <2>2, <2>4, <2>5
<1>5. \A p, q \in P : rank[p] = rank[q] => p = q
  <2>1. \A p, q \in P : UpTo(p, q) /\ p # q => rank[p] < rank[q]
    BY <1>4
  <2>2. \A p \in P : rank[p] \in Int
    BY <1>3
  <2> QED
    BY <2>1, <2>2, UpToIsAnOrder
<1> HIDE DEF rank
<1>6. rank \in Surjection(P, 1 .. N)
  <2>1. rank \in Injection(P, 1 .. N)
    BY <1>3, <1>5, Fun_IsInj
  <2>2. IsFiniteSet(1 .. N) /\ Cardinality(1 .. N) = N
    BY <1>1, FS_Interval
  <2> QED
    BY <2>1, <2>2, FS_Injection
<1>7. \A n \in 1 .. N : \E p \in P : rank[p] = n
  BY <1>6, Fun_SurjectionProperties
<1>8. /\ DOMAIN o = 1 .. N
      /\ \A n \in 1 .. N : o[n] \in P /\ rank[o[n]] = n
  <2>1. o = [n \in 1 .. N |-> CHOOSE p \in P : Cardinality(down(p)) = n]
    BY DEF InOrder
  <2>2. ASSUME NEW n \in 1 .. N
        PROVE  o[n] \in P /\ rank[o[n]] = n
    <3>1. \E p \in P : Cardinality(down(p)) = n
      BY <1>7 DEF rank
    <3>2. o[n] = CHOOSE p \in P : Cardinality(down(p)) = n
      BY <2>1
    <3>3. o[n] \in P /\ Cardinality(down(o[n])) = n
      BY <3>1, <3>2
    <3> QED
      BY <3>3 DEF rank
  <2> QED
    BY <2>1, <2>2
<1>9. o = [n \in 1 .. N |-> o[n]]
  BY DEF InOrder
<1>10. \A n \in 1 .. N : Cardinality(down(o[n])) = n
  BY <1>8 DEF rank
<1>11. \A p \in P : Cardinality(down(p)) \in 1 .. N
  BY <1>3 DEF rank
<1> QED
  BY <1>1, <1>4, <1>8, <1>9, <1>10, <1>11

LEMMA InOrderEnumerates ==
    ASSUME NEW P \in SUBSET Triples, IsFiniteSet(P)
    PROVE  Enumerates(InOrder(P), P) /\ Len(InOrder(P)) = Cardinality(P)
<1> DEFINE N == Cardinality(P)
           rank(p) == Cardinality({q \in P : UpTo(q, p)})
           o == InOrder(P)
<1>1. /\ N \in Nat /\ o = [n \in 1 .. N |-> o[n]]
      /\ \A n \in 1 .. N : o[n] \in P /\ rank(o[n]) = n
      /\ \A p \in P : rank(p) \in 1 .. N
      /\ \A p, q \in P : UpTo(p, q) /\ p # q => rank(p) < rank(q)
  BY InOrderRanks
<1> HIDE DEF N, rank, o
<1>2. \A p, q \in P : rank(p) = rank(q) => p = q
  BY <1>1, UpToIsAnOrder
<1>3. o \in Seq(P) /\ Len(o) = N
  BY <1>1
<1>4. \A p \in P : o[rank(p)] = p /\ rank(p) \in 1 .. N
  BY <1>1, <1>2
<1>5. \A i, j \in 1 .. N : o[i] = o[j] => i = j
  BY <1>1
<1>6. Enumerates(o, P)
  BY <1>3, <1>4, <1>5 DEF Enumerates
<1> QED
  BY <1>3, <1>6 DEF o, N

LEMMA InOrderAscends ==
    ASSUME NEW P \in SUBSET Triples, IsFiniteSet(P), NEW i \in 1 .. Len(InOrder(P)),
           NEW j \in 1 .. Len(InOrder(P)), i < j
    PROVE  UpTo(InOrder(P)[i], InOrder(P)[j])
<1> DEFINE N == Cardinality(P)
           rank(p) == Cardinality({q \in P : UpTo(q, p)})
           o == InOrder(P)
<1>1. /\ N \in Nat
      /\ \A n \in 1 .. N : o[n] \in P /\ rank(o[n]) = n
      /\ \A p, q \in P : UpTo(p, q) /\ p # q => rank(p) < rank(q)
  BY InOrderRanks
<1>2. i \in 1 .. N /\ j \in 1 .. N
  BY InOrderEnumerates
<1> HIDE DEF N, rank, o
<1>3. /\ o[i] \in P /\ o[j] \in P /\ rank(o[i]) = i /\ rank(o[j]) = j
  BY <1>1, <1>2
<1>4. ~ UpTo(o[i], o[j]) => UpTo(o[j], o[i]) /\ o[j] # o[i]
  BY <1>3, UpToIsAnOrder
<1>5. UpTo(o[j], o[i]) /\ o[j] # o[i] => rank(o[j]) < rank(o[i])
  BY <1>1, <1>3
<1>6. ~ (j < i)
  BY <1>2
<1>7. UpTo(o[i], o[j])
  BY <1>3, <1>4, <1>5, <1>6
<1> QED
  BY <1>7 DEF o

=============================================================================
