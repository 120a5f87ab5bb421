-------------------------- MODULE ProvenanceProofs --------------------------
(***************************************************************************)
(* Composition of provenance, over any entities and roles and records of   *)
(* any length: the bracketings agree, the order nests, and the accounting  *)
(* survives.  The chains are of any length, the bracketings of its first   *)
(* three records, as in Provenance.                                        *)
(***************************************************************************)
EXTENDS Provenance, Order

-----------------------------------------------------------------------------
(***************************************************************************)
(* Sequences by their length: induction, and what a recursion along a      *)
(* sequence computes.                                                      *)
(***************************************************************************)

\* What holds of the empty sequence and of one element more holds of all.
LEMMA EverySequence ==
    ASSUME NEW S, NEW G, <<>> \in G,
           \A l \in Seq(S) : l \in G => \A x \in S : Append(l, x) \in G
    PROVE  Seq(S) \subseteq G
<1> SUFFICES ASSUME NEW t \in Seq(S), t \notin G PROVE FALSE
  OBVIOUS
<1> DEFINE T == {n \in Nat : \E l \in Seq(S) : Len(l) = n /\ l \notin G}
<1>1. Len(t) \in T
  BY LenProperties
<1>2. PICK n \in T : \A k \in T : n <= k
  <2> HIDE DEF T
  <2>1. T \in SUBSET Nat /\ T # {}
    BY <1>1 DEF T
  <2> QED
    BY <2>1, LeastOfNats
<1>3. PICK l \in Seq(S) : Len(l) = n /\ l \notin G
  OBVIOUS
<1>4. PICK f \in Seq(S), x \in S : l = Append(f, x)
  <2>1. l # <<>>
    BY <1>3
  <2> QED
    BY <2>1, SequenceEmptyOrAppend
<1>5. Len(f) \in Nat /\ n = Len(f) + 1
  BY <1>3, <1>4, AppendProperties, LenProperties
<1>6. f \notin G
  BY <1>3, <1>4
<1> HIDE DEF T
<1>7. Len(f) \in T
  BY <1>5, <1>6 DEF T
<1> QED
  BY <1>2, <1>5, <1>7

\* f and g start alike, and where they agree they agree one step on.
InStep(f, g, N) ==
    /\ f[0] = g[0]
    /\ \A n \in 1 .. N : f[n - 1] = g[n - 1] => f[n] = g[n]

\* What a recursion computes along 0 .. N is determined by how it starts and goes on.
LEMMA Determined ==
    ASSUME NEW N \in Nat, NEW f, NEW g, InStep(f, g, N)
    PROVE  \A n \in 0 .. N : f[n] = g[n]
<1> USE DEF InStep
<1> SUFFICES ASSUME NEW m \in 0 .. N, f[m] # g[m] PROVE FALSE
  OBVIOUS
<1> DEFINE T == {n \in 0 .. N : f[n] # g[n]}
<1>1. T \in SUBSET Nat /\ T # {}
  OBVIOUS
<1>2. PICK n \in T : \A k \in T : n <= k
  <2> HIDE DEF T
  <2> QED
    BY <1>1, LeastOfNats
<1>3. n \in 1 .. N /\ n - 1 \in 0 .. N
  OBVIOUS
<1>4. f[n - 1] = g[n - 1]
  BY <1>2, <1>3
<1> QED
  BY <1>3, <1>4

\* ToSet, by how a sequence is built.
LEMMA ToSetEmpty ==
    /\ ToSet(<<>>) = {}
    /\ \A x : ToSet(<<x>>) = {x}
BY DEF ToSet

LEMMA ToSetInside ==
    ASSUME NEW S, NEW l \in Seq(S)
    PROVE  ToSet(l) \subseteq S /\ (l # <<>> <=> ToSet(l) # {})
<1>1. ToSet(l) \subseteq S
  BY DEF ToSet
<1>2. l # <<>> => 1 \in DOMAIN l
  BY EmptySeq, LenProperties
<1>3. l # <<>> => ToSet(l) # {}
  BY <1>2 DEF ToSet
<1> QED
  BY <1>1, <1>3, ToSetEmpty

LEMMA ToSetAppend ==
    ASSUME NEW S, NEW l \in Seq(S), NEW x \in S
    PROVE  ToSet(Append(l, x)) = ToSet(l) \cup {x}
<1> DEFINE m == Append(l, x)
<1>1. /\ Len(l) \in Nat /\ DOMAIN l = 1 .. Len(l) /\ DOMAIN m = 1 .. Len(l) + 1
      /\ m[Len(l) + 1] = x /\ \A i \in 1 .. Len(l) : m[i] = l[i]
  BY LenProperties, AppendProperties
<1> HIDE DEF m
<1>2. ToSet(m) = {m[i] : i \in 1 .. Len(l) + 1} /\ ToSet(l) = {l[i] : i \in 1 .. Len(l)}
  BY <1>1 DEF ToSet
<1>3. ToSet(m) = ToSet(l) \cup {x}
  BY <1>1, <1>2
<1> QED
  BY <1>3 DEF m

LEMMA ToSetConcat ==
    ASSUME NEW S, NEW l \in Seq(S), NEW k \in Seq(S)
    PROVE  ToSet(l \o k) = ToSet(l) \cup ToSet(k)
<1> DEFINE m == l \o k
<1>1. /\ Len(l) \in Nat /\ Len(k) \in Nat /\ DOMAIN m = 1 .. Len(l) + Len(k)
      /\ DOMAIN l = 1 .. Len(l) /\ DOMAIN k = 1 .. Len(k)
      /\ \A i \in 1 .. Len(l) : m[i] = l[i]
      /\ \A i \in 1 .. Len(k) : m[Len(l) + i] = k[i]
  BY LenProperties, ConcatProperties
<1> HIDE DEF m
<1>2. /\ ToSet(m) = {m[i] : i \in 1 .. Len(l) + Len(k)}
      /\ ToSet(l) = {l[i] : i \in 1 .. Len(l)} /\ ToSet(k) = {k[i] : i \in 1 .. Len(k)}
  BY <1>1 DEF ToSet
<1>3. ASSUME NEW i \in 1 .. Len(l) + Len(k) PROVE m[i] \in ToSet(l) \cup ToSet(k)
  <2>1. CASE i <= Len(l)
    BY <1>1, <1>2, <2>1
  <2>2. CASE i > Len(l)
    <3>1. i - Len(l) \in 1 .. Len(k) /\ i = Len(l) + (i - Len(l))
      BY <1>1, <2>2
    <3> QED
      BY <1>1, <1>2, <3>1
  <2> QED
    BY <1>1, <2>1, <2>2
<1>4. ASSUME NEW e \in ToSet(l) \cup ToSet(k) PROVE e \in ToSet(m)
  <2>1. CASE e \in ToSet(l)
    BY <1>1, <1>2, <2>1
  <2>2. CASE e \in ToSet(k)
    <3>1. PICK i \in 1 .. Len(k) : e = k[i]
      BY <1>2, <2>2
    <3>2. Len(l) + i \in 1 .. Len(l) + Len(k) /\ e = m[Len(l) + i]
      BY <1>1, <3>1
    <3> QED
      BY <1>2, <3>2
  <2> QED
    BY <1>4, <2>1, <2>2
<1>5. ToSet(m) = ToSet(l) \cup ToSet(k)
  BY <1>2, <1>3, <1>4
<1> QED
  BY <1>5 DEF m

-----------------------------------------------------------------------------
(***************************************************************************)
(* Once and Through by how the list they go along is built.                *)
(***************************************************************************)

OnceGoes(f, l) == f = [n \in 0 .. Len(l) |-> IF n = 0 THEN <<>> ELSE PushOnce(f[n - 1], l[n])]
ThroughGoes(f, l, I) == f = [n \in 0 .. Len(l) |-> IF n = 0 THEN <<>> ELSE f[n - 1] \o I[l[n]]]

LEMMA OnceIs ==
    ASSUME NEW S, NEW l \in Seq(S), NEW f, OnceGoes(f, l)
    PROVE  Once(l) = f[Len(l)]
<1>1. Len(l) \in Nat
  BY LenProperties
<1>2. ASSUME NEW g, OnceGoes(g, l) PROVE g = f
  <2>1. f[0] = g[0]
    BY <1>1, <1>2 DEF OnceGoes
  <2>2. \A n \in 1 .. Len(l) : f[n - 1] = g[n - 1] => f[n] = g[n]
    BY <1>1, <1>2 DEF OnceGoes
  <2>3. \A n \in 0 .. Len(l) : f[n] = g[n]
    <3> DEFINE N == Len(l)
    <3> HIDE DEF N
    <3>1. N \in Nat /\ InStep(f, g, N)
      BY <1>1, <2>1, <2>2 DEF InStep, N
    <3>2. \A n \in 0 .. N : f[n] = g[n]
      BY <3>1, Determined, Zenon
    <3> QED
      BY <3>2 DEF N
  <2> QED
    BY <1>2, <2>3 DEF OnceGoes
<1> QED
  BY <1>2 DEF Once, OnceGoes

LEMMA ThroughIs ==
    ASSUME NEW S, NEW l \in Seq(S), NEW I, NEW f, ThroughGoes(f, l, I)
    PROVE  Through(l, I) = f[Len(l)]
<1>1. Len(l) \in Nat
  BY LenProperties
<1>2. ASSUME NEW g, ThroughGoes(g, l, I) PROVE g = f
  <2>1. f[0] = g[0]
    BY <1>1, <1>2 DEF ThroughGoes
  <2>2. ASSUME NEW n \in 1 .. Len(l), f[n - 1] = g[n - 1] PROVE f[n] = g[n]
    <3>1. n \in 0 .. Len(l) /\ n # 0
      BY <1>1
    <3>2. f[n] = f[n - 1] \o I[l[n]] /\ g[n] = g[n - 1] \o I[l[n]]
      BY <1>2, <3>1, Zenon DEF ThroughGoes
    <3> QED
      BY <2>2, <3>2, Zenon
  <2>3. \A n \in 0 .. Len(l) : f[n] = g[n]
    <3> DEFINE N == Len(l)
    <3> HIDE DEF N
    <3>1. N \in Nat /\ InStep(f, g, N)
      BY <1>1, <2>1, <2>2 DEF InStep, N
    <3>2. \A n \in 0 .. N : f[n] = g[n]
      BY <3>1, Determined, Zenon
    <3> QED
      BY <3>2 DEF N
  <2> QED
    BY <1>2, <2>3 DEF ThroughGoes
<1> QED
  BY <1>2 DEF Through, ThroughGoes

LEMMA OnceAlong ==
    ASSUME NEW S
    PROVE  /\ Once(<<>>) = <<>>
           /\ \A l \in Seq(S), x \in S : Once(Append(l, x)) = PushOnce(Once(l), x)
<1> DEFINE f0 == [n \in 0 .. 0 |-> <<>>]
           G == {l \in Seq(S) : \E f : OnceGoes(f, l)}
           next(f, l, x) == [n \in 0 .. Len(l) + 1 |->
                               IF n = Len(l) + 1 THEN PushOnce(f[Len(l)], x) ELSE f[n]]
<1>1. <<>> \in Seq(S) /\ Len(<<>>) = 0
  OBVIOUS
<1>2. OnceGoes(f0, <<>>)
  BY <1>1 DEF OnceGoes
<1>3. ASSUME NEW l \in Seq(S), NEW f, OnceGoes(f, l), NEW x \in S
      PROVE  /\ OnceGoes(next(f, l, x), Append(l, x))
             /\ next(f, l, x)[Len(Append(l, x))] = PushOnce(f[Len(l)], x)
  <2> DEFINE N == Len(l)
             k == Append(l, x)
             g == next(f, l, x)
  <2>1. /\ N \in Nat /\ Len(k) = N + 1 /\ k[N + 1] = x
        /\ \A n \in 1 .. N : k[n] = l[n]
    BY LenProperties, AppendProperties
  <2>2. f[0] = <<>> /\ \A n \in 1 .. N : f[n] = PushOnce(f[n - 1], l[n])
    BY <1>3, <2>1 DEF OnceGoes
  <2> HIDE DEF N, k
  <2>3. g = [n \in 0 .. N + 1 |-> IF n = N + 1 THEN PushOnce(f[N], x) ELSE f[n]]
    BY DEF N
  <2> HIDE DEF g
  <2>4. /\ g[N + 1] = PushOnce(f[N], x)
        /\ \A n \in 0 .. N : g[n] = f[n]
    BY <2>1, <2>3
  <2>5. ASSUME NEW n \in 0 .. N + 1
        PROVE  g[n] = IF n = 0 THEN <<>> ELSE PushOnce(g[n - 1], k[n])
    <3>1. CASE n = 0
      BY <2>1, <2>2, <2>4, <3>1
    <3>2. CASE n \in 1 .. N
      BY <2>1, <2>2, <2>4, <3>2
    <3>3. CASE n = N + 1
      BY <2>1, <2>4, <3>3
    <3> QED
      BY <2>1, <3>1, <3>2, <3>3
  <2>6. OnceGoes(g, k)
    BY <2>1, <2>3, <2>5 DEF OnceGoes
  <2> QED
    BY <2>1, <2>4, <2>6 DEF N, k, g
<1> HIDE DEF f0, next
<1>4. Seq(S) \subseteq G
  <2>1. \A l \in Seq(S) : l \in G => \A x \in S : Append(l, x) \in G
    BY <1>3, AppendProperties
  <2>2. <<>> \in G
    BY <1>1, <1>2
  <2> HIDE DEF G
  <2> QED
    BY <2>1, <2>2, EverySequence
<1>5. Once(<<>>) = <<>>
  BY <1>1, <1>2, OnceIs DEF f0
<1>6. ASSUME NEW l \in Seq(S), NEW x \in S
      PROVE  Once(Append(l, x)) = PushOnce(Once(l), x)
  <2>1. PICK f : OnceGoes(f, l)
    BY <1>4
  <2>2. Once(l) = f[Len(l)]
    BY <2>1, OnceIs
  <2>3. Append(l, x) \in Seq(S)
    BY AppendProperties
  <2>4. Once(Append(l, x)) = next(f, l, x)[Len(Append(l, x))]
    BY <1>3, <2>1, <2>3, OnceIs
  <2> QED
    BY <1>3, <2>1, <2>2, <2>4
<1> QED
  BY <1>5, <1>6

LEMMA ThroughAlong ==
    ASSUME NEW S, NEW I
    PROVE  /\ Through(<<>>, I) = <<>>
           /\ \A l \in Seq(S), x \in S : Through(Append(l, x), I) = Through(l, I) \o I[x]
<1> DEFINE f0 == [n \in 0 .. 0 |-> <<>>]
           G == {l \in Seq(S) : \E f : ThroughGoes(f, l, I)}
           next(f, l, x) == [n \in 0 .. Len(l) + 1 |->
                               IF n = Len(l) + 1 THEN f[Len(l)] \o I[x] ELSE f[n]]
<1>1. <<>> \in Seq(S) /\ Len(<<>>) = 0
  OBVIOUS
<1>2. ThroughGoes(f0, <<>>, I)
  BY <1>1 DEF ThroughGoes
<1>3. ASSUME NEW l \in Seq(S), NEW f, ThroughGoes(f, l, I), NEW x \in S
      PROVE  /\ ThroughGoes(next(f, l, x), Append(l, x), I)
             /\ next(f, l, x)[Len(Append(l, x))] = f[Len(l)] \o I[x]
  <2> DEFINE N == Len(l)
             k == Append(l, x)
             g == next(f, l, x)
  <2>1. /\ N \in Nat /\ Len(k) = N + 1 /\ k[N + 1] = x
        /\ \A n \in 1 .. N : k[n] = l[n]
    BY LenProperties, AppendProperties
  <2>2. f[0] = <<>> /\ \A n \in 1 .. N : f[n] = f[n - 1] \o I[l[n]]
    <3>1. 0 \in 0 .. N
      BY <2>1
    <3>2. ASSUME NEW n \in 1 .. N PROVE f[n] = f[n - 1] \o I[l[n]]
      <4>1. n \in 0 .. N /\ n # 0
        BY <2>1
      <4> QED
        BY <1>3, <4>1, Zenon DEF ThroughGoes
    <3> QED
      BY <1>3, <3>1, <3>2, Zenon DEF ThroughGoes
  <2> HIDE DEF N, k
  <2> DEFINE last == f[N] \o I[x]
  <2>3. g = [n \in 0 .. N + 1 |-> IF n = N + 1 THEN last ELSE f[n]]
    BY Zenon DEF N
  <2> HIDE DEF g
  <2>4. /\ g[N + 1] = last
        /\ \A n \in 0 .. N : g[n] = f[n]
    <3> HIDE DEF last
    <3> QED
      BY <2>1, <2>3
  <2>5. ASSUME NEW n \in 0 .. N + 1
        PROVE  g[n] = IF n = 0 THEN <<>> ELSE g[n - 1] \o I[k[n]]
    <3>1. CASE n = 0
      <4>1. 0 \in 0 .. N
        BY <2>1
      <4> QED
        BY <2>2, <2>4, <3>1, <4>1, Zenon
    <3>2. CASE n \in 1 .. N
      <4>1. n # 0 /\ n \in 0 .. N /\ n - 1 \in 0 .. N
        BY <2>1, <3>2
      <4>2. g[n] = f[n] /\ g[n - 1] = f[n - 1] /\ k[n] = l[n]
        BY <2>1, <2>4, <3>2, <4>1
      <4>3. g[n] = g[n - 1] \o I[k[n]]
        BY <2>2, <3>2, <4>2, Zenon
      <4> QED
        BY <4>1, <4>3, Zenon
    <3>3. CASE n = N + 1
      <4>1. n # 0 /\ n - 1 = N /\ N \in 0 .. N
        BY <2>1, <3>3
      <4>2. g[n] = last /\ g[n - 1] = f[N] /\ k[n] = x
        BY <2>1, <2>4, <3>3, <4>1
      <4>3. g[n] = g[n - 1] \o I[k[n]]
        BY <4>2, Zenon
      <4> QED
        BY <4>1, <4>3, Zenon
    <3> QED
      BY <2>1, <3>1, <3>2, <3>3
  <2>6. ThroughGoes(g, k, I)
    <3>1. g = [n \in 0 .. N + 1 |-> g[n]]
      <4> HIDE DEF last
      <4> QED
        BY <2>3
    <3>2. g = [n \in 0 .. N + 1 |-> IF n = 0 THEN <<>> ELSE g[n - 1] \o I[k[n]]]
      BY <2>5, <3>1, Zenon
    <3> QED
      BY <2>1, <3>2, Zenon DEF ThroughGoes
  <2>7. g[Len(k)] = last
    BY <2>1, <2>4
  <2> QED
    BY <2>6, <2>7, Zenon DEF N, k, g, last
<1> HIDE DEF f0, next
<1>4. Seq(S) \subseteq G
  <2>1. \A l \in Seq(S) : l \in G => \A x \in S : Append(l, x) \in G
    BY <1>3, AppendProperties, Zenon
  <2>2. <<>> \in G
    BY <1>1, <1>2
  <2> HIDE DEF G
  <2> QED
    BY <2>1, <2>2, EverySequence
<1>5. Through(<<>>, I) = <<>>
  BY <1>1, <1>2, ThroughIs DEF f0
<1>6. ASSUME NEW l \in Seq(S), NEW x \in S
      PROVE  Through(Append(l, x), I) = Through(l, I) \o I[x]
  <2>1. PICK f : ThroughGoes(f, l, I)
    BY <1>4
  <2>2. Through(l, I) = f[Len(l)]
    BY <2>1, ThroughIs
  <2>3. Append(l, x) \in Seq(S)
    BY AppendProperties
  <2>4. Through(Append(l, x), I) = next(f, l, x)[Len(Append(l, x))]
    BY <1>3, <2>1, <2>3, ThroughIs, Zenon
  <2> QED
    BY <1>3, <2>1, <2>2, <2>4, Zenon
<1> QED
  BY <1>5, <1>6, Zenon

-----------------------------------------------------------------------------
(***************************************************************************)
(* What Once keeps, and how Once and Through go over joined lists.         *)
(***************************************************************************)

LEMMA Joining ==
    ASSUME NEW S, NEW l \in Seq(S), NEW k \in Seq(S), NEW x \in S
    PROVE  /\ l \o k \in Seq(S) /\ Append(l, x) \in Seq(S) /\ <<>> \in Seq(S)
           /\ l \o Append(k, x) = Append(l \o k, x)
           /\ l \o <<>> = l /\ <<>> \o l = l
           /\ Append(<<>>, x) = <<x>>
<1>1. l \o k \in Seq(S) /\ Append(k, x) \in Seq(S) /\ Append(l, x) \in Seq(S) /\ <<>> \in Seq(S)
  BY ConcatProperties, AppendProperties
<1>2. Append(k, x) = k \o <<x>> /\ Append(l \o k, x) = (l \o k) \o <<x>>
  BY <1>1, AppendIsConcat
<1>3. l \o (k \o <<x>>) = (l \o k) \o <<x>>
  BY ConcatAssociative
<1>4. l \o Append(k, x) = Append(l \o k, x)
  BY <1>2, <1>3, Zenon
<1>5. l \o <<>> = l /\ <<>> \o l = l
  BY ConcatEmptySeq
<1>6. Append(<<>>, x) = <<x>>
  OBVIOUS
<1> QED
  BY <1>1, <1>4, <1>5, <1>6

LEMMA PushOnceKeeps ==
    ASSUME NEW S, NEW l \in Seq(S), NEW x \in S, IsInjective(l)
    PROVE  /\ PushOnce(l, x) \in Seq(S) /\ IsInjective(PushOnce(l, x))
           /\ ToSet(PushOnce(l, x)) = ToSet(l) \cup {x}
<1>1. PushOnce(l, x) \in Seq(S)
  BY AppendProperties DEF PushOnce
<1>2. ToSet(Append(l, x)) = ToSet(l) \cup {x}
  BY ToSetAppend
<1>3. ToSet(PushOnce(l, x)) = ToSet(l) \cup {x}
  BY <1>2 DEF PushOnce
<1>4. ASSUME x \notin ToSet(l) PROVE IsInjective(Append(l, x))
  <2> DEFINE m == Append(l, x)
  <2>1. /\ Len(l) \in Nat /\ DOMAIN l = 1 .. Len(l) /\ DOMAIN m = 1 .. Len(l) + 1
        /\ m[Len(l) + 1] = x /\ \A i \in 1 .. Len(l) : m[i] = l[i]
    BY LenProperties, AppendProperties
  <2>2. \A i \in 1 .. Len(l) : l[i] # x
    BY <1>4, <2>1 DEF ToSet
  <2> HIDE DEF m
  <2>3. \A i, j \in DOMAIN m : m[i] = m[j] => i = j
    BY <2>1, <2>2 DEF IsInjective
  <2>4. IsInjective(m)
    BY <2>3 DEF IsInjective
  <2> QED
    BY <2>4 DEF m
<1> QED
  BY <1>1, <1>3, <1>4 DEF PushOnce

\* Once keeps what is in the list, each once.
LEMMA OnceKeeps ==
    ASSUME NEW S, NEW t \in Seq(S)
    PROVE  /\ Once(t) \in Seq(S) /\ IsInjective(Once(t))
           /\ ToSet(Once(t)) = ToSet(t)
           /\ Once(Once(t)) = Once(t)
<1> DEFINE P(l) == /\ Once(l) \in Seq(S) /\ IsInjective(Once(l))
                   /\ ToSet(Once(l)) = ToSet(l)
                   /\ Once(Once(l)) = Once(l)
           G == {l \in Seq(S) : P(l)}
<1>1. P(<<>>)
  <2>1. Once(<<>>) = <<>>
    BY OnceAlong
  <2>2. IsInjective(<<>>)
    BY DEF IsInjective
  <2>3. <<>> \in Seq(S)
    OBVIOUS
  <2> QED
    BY <2>1, <2>2, <2>3
<1>2. ASSUME NEW l \in Seq(S), P(l), NEW x \in S PROVE P(Append(l, x))
  <2> DEFINE o == Once(l)
             k == Append(l, x)
  <2>1. o \in Seq(S) /\ IsInjective(o) /\ ToSet(o) = ToSet(l) /\ Once(o) = o
    BY <1>2
  <2>2. Once(k) = PushOnce(o, x) /\ ToSet(k) = ToSet(l) \cup {x}
    BY OnceAlong, ToSetAppend
  <2> HIDE DEF o, k
  <2>3. /\ PushOnce(o, x) \in Seq(S) /\ IsInjective(PushOnce(o, x))
        /\ ToSet(PushOnce(o, x)) = ToSet(o) \cup {x}
    BY <2>1, PushOnceKeeps
  <2>4. Once(PushOnce(o, x)) = PushOnce(o, x)
    <3>1. CASE x \in ToSet(o)
      BY <2>1, <3>1 DEF PushOnce
    <3>2. CASE x \notin ToSet(o)
      <4>1. Once(Append(o, x)) = PushOnce(Once(o), x)
        BY <2>1, OnceAlong
      <4> QED
        BY <2>1, <3>2, <4>1 DEF PushOnce
    <3> QED
      BY <3>1, <3>2
  <2>5. P(k)
    BY <2>1, <2>2, <2>3, <2>4
  <2> QED
    BY <2>5 DEF k
<1> HIDE DEF P
<1>3. <<>> \in G
  BY <1>1
<1>4. \A l \in Seq(S) : l \in G => \A x \in S : Append(l, x) \in G
  BY <1>2, AppendProperties
<1>5. Seq(S) \subseteq G
  <2> HIDE DEF G
  <2> QED
    BY <1>3, <1>4, EverySequence
<1> QED
  BY <1>5 DEF P

\* Nothing is gained by what is there, or by going over a part before.
OnceJoins(S, l, k) ==
    /\ Once(l \o k) = Once(Once(l) \o k)
    /\ Once(l \o k) = Once(l \o Once(k))
    /\ ToSet(k) \subseteq ToSet(l) => Once(l \o k) = Once(l)
    /\ \E e \in Seq(S) : Once(l \o k) = Once(l) \o e /\ ToSet(e) \cap ToSet(l) = {}

LEMMA OnceJoined ==
    ASSUME NEW S, NEW l \in Seq(S), NEW t \in Seq(S)
    PROVE  OnceJoins(S, l, t)
<1> DEFINE G == {k \in Seq(S) : OnceJoins(S, l, k)}
<1>0. Once(l) \in Seq(S) /\ ToSet(Once(l)) = ToSet(l) /\ Once(Once(l)) = Once(l)
  BY OnceKeeps
<1>1. OnceJoins(S, l, <<>>)
  <2> DEFINE o == Once(l)
             z == <<>>
  <2>1. /\ z \in Seq(S) /\ l \o z = l /\ o \o z = o /\ Once(z) = z /\ ToSet(z) = {}
        /\ Once(o) = o
    BY <1>0, ConcatEmptySeq, OnceAlong, ToSetEmpty
  <2>2. o = Once(l)
    OBVIOUS
  <2> HIDE DEF o, z
  <2>3. OnceJoins(S, l, z)
    BY <2>1, <2>2 DEF OnceJoins
  <2> QED
    BY <2>3 DEF z
<1>2. ASSUME NEW k \in Seq(S), OnceJoins(S, l, k), NEW x \in S
      PROVE  OnceJoins(S, l, Append(k, x))
  <2> DEFINE o == Once(l)
             n == Once(k)
             kx == Append(k, x)
             all == Once(l \o k)
  <2>1. /\ o \in Seq(S) /\ n \in Seq(S) /\ l \o k \in Seq(S) /\ o \o k \in Seq(S)
        /\ l \o n \in Seq(S) /\ kx \in Seq(S)
        /\ ToSet(n) = ToSet(k) /\ ToSet(o) = ToSet(l) /\ Once(o) = o
    BY <1>0, Joining, OnceKeeps
  <2>2. /\ Once(l \o kx) = PushOnce(Once(l \o k), x)
        /\ Once(o \o kx) = PushOnce(Once(o \o k), x)
    <3>1. l \o kx = Append(l \o k, x) /\ o \o kx = Append(o \o k, x)
      BY <2>1, Joining
    <3> QED
      BY <2>1, <3>1, OnceAlong
  <2>3. ToSet(all) = ToSet(l) \cup ToSet(k) /\ ToSet(kx) = ToSet(k) \cup {x} /\ all \in Seq(S)
    <3>1. ToSet(l \o k) = ToSet(l) \cup ToSet(k) /\ ToSet(kx) = ToSet(k) \cup {x}
      BY ToSetAppend, ToSetConcat
    <3> QED
      BY <2>1, <3>1, OnceKeeps
  <2>4. Once(l \o kx) = PushOnce(all, x) /\ Once(o \o kx) = PushOnce(all, x)
    BY <1>2, <2>2 DEF OnceJoins
  <2>5. Once(l \o Once(kx)) = PushOnce(all, x)
    <3>1. Once(kx) = PushOnce(n, x)
      BY OnceAlong
    <3>2. CASE x \in ToSet(n)
      <4>1. Once(kx) = n
        BY <3>1, <3>2 DEF PushOnce
      <4>2. PushOnce(all, x) = all
        BY <2>1, <2>3, <3>2 DEF PushOnce
      <4> QED
        BY <1>2, <4>1, <4>2 DEF OnceJoins
    <3>3. CASE x \notin ToSet(n)
      <4>1. Once(kx) = Append(n, x)
        BY <3>1, <3>3 DEF PushOnce
      <4>2. l \o Append(n, x) = Append(l \o n, x)
        BY <2>1, Joining
      <4>3. Once(Append(l \o n, x)) = PushOnce(Once(l \o n), x)
        BY <2>1, OnceAlong
      <4>4. Once(l \o n) = all
        BY <1>2 DEF OnceJoins
      <4> QED
        BY <4>1, <4>2, <4>3, <4>4, Zenon
    <3> QED
      BY <3>2, <3>3
  <2>6. ToSet(kx) \subseteq ToSet(l) => Once(l \o kx) = Once(l)
    <3> SUFFICES ASSUME ToSet(kx) \subseteq ToSet(l) PROVE Once(l \o kx) = Once(l)
      OBVIOUS
    <3>1. x \in ToSet(all) /\ all = Once(l)
      BY <1>2, <2>3 DEF OnceJoins
    <3>2. PushOnce(all, x) = all
      BY <3>1, Zenon DEF PushOnce
    <3> QED
      BY <2>4, <3>1, <3>2, Zenon
  <2>7. \E e \in Seq(S) : Once(l \o kx) = o \o e /\ ToSet(e) \cap ToSet(l) = {}
    <3>1. PICK e \in Seq(S) : all = o \o e /\ ToSet(e) \cap ToSet(l) = {}
      BY <1>2 DEF OnceJoins
    <3>2. CASE x \in ToSet(all)
      <4>1. PushOnce(all, x) = all
        BY <3>2, Zenon DEF PushOnce
      <4> QED
        BY <2>4, <3>1, <4>1, Zenon
    <3>3. CASE x \notin ToSet(all)
      <4>1. PushOnce(all, x) = Append(all, x)
        BY <3>3, Zenon DEF PushOnce
      <4>2. Append(e, x) \in Seq(S) /\ o \o Append(e, x) = Append(o \o e, x)
        BY <2>1, Joining
      <4>3. ToSet(Append(e, x)) = ToSet(e) \cup {x}
        BY ToSetAppend
      <4>4. ToSet(Append(e, x)) \cap ToSet(l) = {}
        BY <2>3, <3>1, <3>3, <4>3
      <4>5. Once(l \o kx) = o \o Append(e, x)
        BY <2>4, <3>1, <4>1, <4>2, Zenon
      <4> QED
        BY <4>2, <4>4, <4>5, Zenon
    <3> QED
      BY <3>2, <3>3
  <2> QED
    BY <2>4, <2>5, <2>6, <2>7, Zenon DEF OnceJoins
<1>3. <<>> \in G
  BY <1>1
<1>4. \A k \in Seq(S) : k \in G => \A x \in S : Append(k, x) \in G
  BY <1>2, AppendProperties
<1>5. Seq(S) \subseteq G
  <2> HIDE DEF G
  <2> QED
    BY <1>3, <1>4, EverySequence
<1> QED
  BY <1>5

\* Lists that are the same but for what comes again may stand for each other.
LEMMA SameJoined ==
    ASSUME NEW S, NEW l \in Seq(S), NEW k \in Seq(S), NEW m \in Seq(S), NEW n \in Seq(S),
           Once(l) = Once(m), Once(k) = Once(n)
    PROVE  Once(l \o k) = Once(m \o n)
<1>1. Once(k) \in Seq(S)
  BY OnceKeeps
<1>2. Once(l \o k) = Once(l \o Once(k)) /\ Once(m \o n) = Once(m \o Once(n))
  BY OnceJoined DEF OnceJoins
<1>3. Once(l \o Once(k)) = Once(Once(l) \o Once(k)) /\ Once(m \o Once(k)) = Once(Once(m) \o Once(k))
  BY <1>1, OnceJoined DEF OnceJoins
<1> QED
  BY <1>2, <1>3, Zenon

Images(I, S, T) == \A x \in S : I[x] \in Seq(T)

\* What is listed through images: the images of what is listed.
LEMMA ThroughKeeps ==
    ASSUME NEW S, NEW T, NEW I, Images(I, S, T), NEW t \in Seq(S)
    PROVE  /\ Through(t, I) \in Seq(T)
           /\ ToSet(Through(t, I)) = UNION {ToSet(I[x]) : x \in ToSet(t)}
<1> DEFINE P(l) == /\ Through(l, I) \in Seq(T)
                   /\ ToSet(Through(l, I)) = UNION {ToSet(I[x]) : x \in ToSet(l)}
           G == {l \in Seq(S) : P(l)}
<1>1. P(<<>>)
  <2>1. Through(<<>>, I) = <<>> /\ ToSet(<<>>) = {}
    BY ThroughAlong, ToSetEmpty
  <2>2. <<>> \in Seq(T)
    OBVIOUS
  <2> QED
    BY <2>1, <2>2
<1>2. ASSUME NEW l \in Seq(S), P(l), NEW x \in S PROVE P(Append(l, x))
  <2> DEFINE a == Through(l, I)
             b == I[x]
             k == Append(l, x)
  <2>1. a \in Seq(T) /\ ToSet(a) = UNION {ToSet(I[y]) : y \in ToSet(l)} /\ b \in Seq(T)
    BY <1>2 DEF Images
  <2>2. Through(k, I) = a \o b
    BY ThroughAlong
  <2>3. ToSet(k) = ToSet(l) \cup {x}
    BY ToSetAppend
  <2>4. UNION {ToSet(I[y]) : y \in ToSet(k)}
          = (UNION {ToSet(I[y]) : y \in ToSet(l)}) \cup ToSet(b)
    <3> HIDE DEF k
    <3> QED
      BY <2>3
  <2> HIDE DEF a, b, k
  <2>5. a \o b \in Seq(T) /\ ToSet(a \o b) = ToSet(a) \cup ToSet(b)
    BY <2>1, ConcatProperties, ToSetConcat
  <2>6. P(k)
    BY <2>1, <2>2, <2>4, <2>5, Zenon
  <2> QED
    BY <2>6 DEF k
<1> HIDE DEF P
<1>3. <<>> \in G
  BY <1>1
<1>4. \A l \in Seq(S) : l \in G => \A x \in S : Append(l, x) \in G
  BY <1>2, AppendProperties
<1>5. Seq(S) \subseteq G
  <2> HIDE DEF G
  <2> QED
    BY <1>3, <1>4, EverySequence
<1> QED
  BY <1>5 DEF P

Shown(I, X) == UNION {ToSet(I[x]) : x \in X}

LEMMA ThroughShows ==
    ASSUME NEW S, NEW T, NEW I, Images(I, S, T), NEW t \in Seq(S)
    PROVE  Through(t, I) \in Seq(T) /\ ToSet(Through(t, I)) = Shown(I, ToSet(t))
BY ThroughKeeps, Zenon DEF Shown

LEMMA ThroughOne ==
    ASSUME NEW S, NEW T, NEW I, Images(I, S, T), NEW x \in S
    PROVE  Through(<<x>>, I) = I[x]
<1>1. <<>> \in Seq(S) /\ Append(<<>>, x) = <<x>>
  OBVIOUS
<1>2. Through(Append(<<>>, x), I) = Through(<<>>, I) \o I[x] /\ Through(<<>>, I) = <<>>
  BY <1>1, ThroughAlong
<1>3. <<>> \o I[x] = I[x]
  BY ConcatEmptySeq DEF Images
<1> QED
  BY <1>1, <1>2, <1>3, Zenon

LEMMA ThroughJoined ==
    ASSUME NEW S, NEW T, NEW I, Images(I, S, T), NEW l \in Seq(S), NEW t \in Seq(S)
    PROVE  Through(l \o t, I) = Through(l, I) \o Through(t, I)
<1> DEFINE P(k) == Through(l \o k, I) = Through(l, I) \o Through(k, I)
           G == {k \in Seq(S) : P(k)}
<1>0. Through(l, I) \in Seq(T)
  BY ThroughKeeps
<1>1. P(<<>>)
  <2>1. Through(<<>>, I) = <<>> /\ l \o <<>> = l
    BY ThroughAlong, ConcatEmptySeq
  <2>2. Through(l, I) \o <<>> = Through(l, I)
    BY <1>0, ConcatEmptySeq
  <2> QED
    BY <2>1, <2>2, Zenon
<1>2. ASSUME NEW k \in Seq(S), P(k), NEW x \in S PROVE P(Append(k, x))
  <2> DEFINE a == Through(l, I)
             b == Through(k, I)
             c == I[x]
  <2>1. a \in Seq(T) /\ b \in Seq(T) /\ c \in Seq(T)
    BY <1>0, ThroughKeeps DEF Images
  <2>2. Through(Append(k, x), I) = b \o c
    BY ThroughAlong
  <2>3. Through(Append(l \o k, x), I) = Through(l \o k, I) \o c
    <3>1. l \o k \in Seq(S)
      BY ConcatProperties
    <3> HIDE DEF c
    <3> QED
      BY <3>1, ThroughAlong, Zenon DEF c
  <2>4. l \o Append(k, x) = Append(l \o k, x)
    BY Joining
  <2>5. Through(l \o k, I) = a \o b
    BY <1>2
  <2> HIDE DEF a, b, c
  <2>6. (a \o b) \o c = a \o (b \o c)
    BY <2>1, ConcatAssociative, SMTT(20)
  <2> QED
    BY <2>2, <2>3, <2>4, <2>5, <2>6, Zenon DEF a
<1> HIDE DEF P
<1>3. <<>> \in G
  BY <1>1
<1>4. \A k \in Seq(S) : k \in G => \A x \in S : Append(k, x) \in G
  BY <1>2, AppendProperties
<1>5. Seq(S) \subseteq G
  <2> HIDE DEF G
  <2> QED
    BY <1>3, <1>4, EverySequence
<1> QED
  BY <1>5 DEF P

\* Going through what comes again adds nothing.
LEMMA ThroughOnce ==
    ASSUME NEW S, NEW T, NEW I, Images(I, S, T), NEW t \in Seq(S)
    PROVE  Once(Through(Once(t), I)) = Once(Through(t, I))
<1> DEFINE P(l) == Once(Through(Once(l), I)) = Once(Through(l, I))
           G == {l \in Seq(S) : P(l)}
<1>1. P(<<>>)
  BY OnceAlong
<1>2. ASSUME NEW l \in Seq(S), P(l), NEW x \in S PROVE P(Append(l, x))
  <2> DEFINE o == Once(l)
             a == Through(l, I)
             b == Through(o, I)
             c == I[x]
  <2>1. o \in Seq(S) /\ ToSet(o) = ToSet(l)
    BY OnceKeeps
  <2>2. a \in Seq(T) /\ b \in Seq(T) /\ c \in Seq(T) /\ Once(b) = Once(a)
    BY <1>2, <2>1, ThroughKeeps DEF Images
  <2>3. Through(Append(l, x), I) = a \o c /\ Once(Append(l, x)) = PushOnce(o, x)
    BY ThroughAlong, OnceAlong
  <2>4. CASE x \in ToSet(l)
    <3>1. Once(Append(l, x)) = o
      BY <2>1, <2>3, <2>4, Zenon DEF PushOnce
    <3>2. ToSet(c) \subseteq ToSet(a)
      <4>1. ToSet(a) = UNION {ToSet(I[y]) : y \in ToSet(l)}
        BY ThroughKeeps
      <4> QED
        BY <2>4, <4>1
    <3> HIDE DEF a, b, c
    <3>3. Once(a \o c) = Once(a)
      BY <2>2, <3>2, OnceJoined DEF OnceJoins
    <3> QED
      BY <2>2, <2>3, <3>1, <3>3, Zenon DEF b
  <2>5. CASE x \notin ToSet(l)
    <3>1. Once(Append(l, x)) = Append(o, x)
      BY <2>1, <2>3, <2>5, Zenon DEF PushOnce
    <3>2. Through(Append(o, x), I) = b \o c
      BY <2>1, ThroughAlong
    <3> HIDE DEF a, b, c
    <3>3. Once(b \o c) = Once(a \o c)
      BY <2>2, SameJoined
    <3> QED
      BY <2>3, <3>1, <3>2, <3>3, Zenon
  <2> QED
    BY <2>4, <2>5
<1> HIDE DEF P
<1>3. <<>> \in G
  BY <1>1
<1>4. \A l \in Seq(S) : l \in G => \A x \in S : Append(l, x) \in G
  BY <1>2, AppendProperties
<1>5. Seq(S) \subseteq G
  <2> HIDE DEF G
  <2> QED
    BY <1>3, <1>4, EverySequence
<1> QED
  BY <1>5 DEF P

\* To go through images of images is to go through what each comes to.
LEMMA ThroughTwice ==
    ASSUME NEW S, NEW T, NEW U, NEW I, NEW J, NEW K, Images(I, S, T), Images(J, T, U),
           Images(K, S, U), NEW t \in Seq(S),
           \A x \in ToSet(t) : Once(K[x]) = Once(Through(I[x], J))
    PROVE  Once(Through(Through(t, I), J)) = Once(Through(t, K))
<1> DEFINE P(l) == ToSet(l) \subseteq ToSet(t)
                     => Once(Through(Through(l, I), J)) = Once(Through(l, K))
           G == {l \in Seq(S) : P(l)}
<1>1. P(<<>>)
  <2>1. Through(<<>>, I) = <<>> /\ Through(<<>>, J) = <<>> /\ Through(<<>>, K) = <<>>
    BY ThroughAlong
  <2> QED
    BY <2>1, Zenon
<1>2. ASSUME NEW l \in Seq(S), P(l), NEW x \in S PROVE P(Append(l, x))
  <2> SUFFICES ASSUME ToSet(Append(l, x)) \subseteq ToSet(t)
               PROVE  Once(Through(Through(Append(l, x), I), J)) = Once(Through(Append(l, x), K))
    OBVIOUS
  <2> DEFINE a == Through(l, I)
             b == I[x]
             m == Through(l, K)
             n == K[x]
             aj == Through(a, J)
             bj == Through(b, J)
  <2>1. ToSet(l) \subseteq ToSet(t) /\ x \in ToSet(t)
    BY ToSetAppend
  <2>2. a \in Seq(T) /\ b \in Seq(T) /\ m \in Seq(U) /\ n \in Seq(U)
    BY ThroughKeeps DEF Images
  <2>3. aj \in Seq(U) /\ bj \in Seq(U)
    BY <2>2, ThroughKeeps
  <2>4. Through(Append(l, x), I) = a \o b /\ Through(Append(l, x), K) = m \o n
    BY ThroughAlong
  <2>5. Through(a \o b, J) = aj \o bj
    <3> HIDE DEF a, b
    <3> QED
      BY <2>2, ThroughJoined, SMTT(20)
  <2>6. Once(aj) = Once(m) /\ Once(bj) = Once(n)
    BY <1>2, <2>1
  <2> HIDE DEF a, b, m, n, aj, bj
  <2>7. Once(aj \o bj) = Once(m \o n)
    BY <2>2, <2>3, <2>6, SameJoined
  <2> QED
    BY <2>4, <2>5, <2>7, Zenon
<1> HIDE DEF P
<1>3. <<>> \in G
  BY <1>1
<1>4. \A l \in Seq(S) : l \in G => \A x \in S : Append(l, x) \in G
  BY <1>2, AppendProperties
<1>5. Seq(S) \subseteq G
  <2> HIDE DEF G
  <2> QED
    BY <1>3, <1>4, EverySequence
<1> QED
  BY <1>5 DEF P

-----------------------------------------------------------------------------
(***************************************************************************)
(* The order nests.                                                        *)
(***************************************************************************)

\* In a list of what stands for pieces and then of anything, what stands for
\* one piece comes before what stands for the next and for none before.
LEMMA OnceNests ==
    ASSUME NEW S, NEW T, NEW I, Images(I, S, T), NEW a \in Seq(S), NEW c \in Seq(T)
    PROVE  Nests(Once(Through(a, I) \o c), a, I)
<1> DEFINE list == Once(Through(a, I) \o c)
<1> SUFFICES ASSUME NEW i \in DOMAIN a, NEW j \in DOMAIN a, i < j
             PROVE  Precede(list, ToSet(I[a[i]]),
                            ToSet(I[a[j]]) \ UNION {ToSet(I[a[k]]) : k \in 1 .. (j - 1)})
  BY Zenon DEF Nests
<1> DEFINE A == SubSeq(a, 1, j - 1)
           B == SubSeq(a, j, Len(a))
           ta == Through(A, I)
           rest == Through(B, I) \o c
           U == UNION {ToSet(I[a[k]]) : k \in 1 .. (j - 1)}
<1>1. /\ DOMAIN a = 1 .. Len(a) /\ Len(a) \in Nat
      /\ j \in 1 .. Len(a) /\ i \in 1 .. (j - 1)
  BY LenProperties
<1>2. /\ A \in Seq(S) /\ B \in Seq(S) /\ a = A \o B
      /\ Len(A) = j - 1 /\ \A k \in 1 .. (j - 1) : A[k] = a[k]
  <2> DEFINE one == 1
             mid == j - 1
             n == Len(a)
  <2>1. one \in 1 .. Len(a) + 1 /\ mid \in one - 1 .. Len(a) /\ n \in mid .. Len(a)
    BY <1>1
  <2> HIDE DEF one, mid, n
  <2>2. SubSeq(a, one, mid) \o SubSeq(a, mid + 1, n) = SubSeq(a, one, n)
    BY <2>1, ConcatAdjacentSubSeq
  <2>3. mid + 1 = j
    BY <1>1 DEF mid
  <2> USE DEF one, mid, n
  <2>4. SubSeq(a, 1, Len(a)) = a
    BY SubSeqFull
  <2>5. A \in Seq(S) /\ B \in Seq(S)
    BY <1>1
  <2>6. Len(A) = j - 1 /\ \A k \in 1 .. (j - 1) : A[k] = a[k]
    BY <1>1
  <2> QED
    BY <2>2, <2>3, <2>4, <2>5, <2>6, Zenon
<1>3. ToSet(ta) = U
  <2>1. ToSet(ta) = UNION {ToSet(I[x]) : x \in ToSet(A)}
    BY <1>2, ThroughKeeps
  <2>2. ToSet(A) = {A[k] : k \in 1 .. (j - 1)}
    BY <1>1, <1>2, LenProperties DEF ToSet
  <2>3. ASSUME NEW e \in ToSet(ta) PROVE e \in U
    BY <1>2, <2>1, <2>2
  <2>4. ASSUME NEW e \in U PROVE e \in ToSet(ta)
    <3>1. PICK k \in 1 .. (j - 1) : e \in ToSet(I[a[k]])
      OBVIOUS
    <3>2. A[k] = a[k] /\ A[k] \in ToSet(A)
      BY <1>2, <2>2
    <3> HIDE DEF A, ta
    <3> QED
      BY <2>1, <3>1, <3>2
  <2> QED
    BY <2>3, <2>4
<1>4. /\ ta \in Seq(T) /\ rest \in Seq(T) /\ Through(a, I) \o c = ta \o rest
  <2> DEFINE tb == Through(B, I)
  <2>1. ta \in Seq(T) /\ tb \in Seq(T)
    BY <1>2, ThroughKeeps
  <2>2. Through(a, I) = ta \o tb
    <3>1. Through(A \o B, I) = Through(A, I) \o Through(B, I)
      <4> HIDE DEF A, B
      <4> QED
        BY <1>2, ThroughJoined
    <3> QED
      BY <1>2, <3>1, Zenon
  <2>3. rest = tb \o c
    OBVIOUS
  <2> HIDE DEF ta, tb, rest
  <2>4. tb \o c \in Seq(T) /\ (ta \o tb) \o c = ta \o (tb \o c)
    BY <2>1, ConcatProperties, ConcatAssociative, SMTT(20)
  <2> QED
    BY <2>1, <2>2, <2>3, <2>4, Zenon
<1> HIDE DEF ta, rest, U
<1>5. PICK e \in Seq(T) : list = Once(ta) \o e /\ ToSet(e) \cap U = {}
  <2>1. \E e \in Seq(T) : Once(ta \o rest) = Once(ta) \o e /\ ToSet(e) \cap ToSet(ta) = {}
    BY <1>4, OnceJoined DEF OnceJoins
  <2> QED
    BY <1>3, <1>4, <2>1, Zenon
<1> DEFINE o == Once(ta)
<1>6. o \in Seq(T) /\ ToSet(o) = U /\ list = o \o e
  BY <1>3, <1>4, <1>5, OnceKeeps
<1> HIDE DEF o, list
<1>7. /\ Len(o) \in Nat /\ Len(e) \in Nat /\ DOMAIN list = 1 .. Len(o) + Len(e)
      /\ \A n \in 1 .. Len(o) : list[n] \in U
      /\ \A n \in DOMAIN list : n > Len(o) => list[n] \in ToSet(e)
  <2>1. /\ Len(o) \in Nat /\ Len(e) \in Nat /\ DOMAIN list = 1 .. Len(o) + Len(e)
        /\ DOMAIN o = 1 .. Len(o) /\ DOMAIN e = 1 .. Len(e)
        /\ \A n \in 1 .. Len(o) + Len(e) : list[n] = IF n <= Len(o) THEN o[n] ELSE e[n - Len(o)]
    <3>1. o \in Seq(T) /\ e \in Seq(T) /\ list = o \o e
      BY <1>5, <1>6
    <3>2. Len(o) \in Nat /\ Len(e) \in Nat
      BY <3>1, LenProperties
    <3> QED
      BY <3>1, <3>2, ConcatProperties
  <2>2. ASSUME NEW n \in 1 .. Len(o) PROVE list[n] \in U
    BY <1>6, <2>1, SMTT(20) DEF ToSet
  <2>3. ASSUME NEW n \in DOMAIN list, n > Len(o) PROVE list[n] \in ToSet(e)
    <3>1. n - Len(o) \in 1 .. Len(e) /\ list[n] = e[n - Len(o)]
      BY <2>1, <2>3
    <3> QED
      BY <2>1, <3>1 DEF ToSet
  <2> QED
    BY <2>1, <2>2, <2>3
<1>8. ToSet(I[a[i]]) \subseteq U
  BY <1>1 DEF U
<1>9. ASSUME NEW m \in DOMAIN list, NEW n \in DOMAIN list,
             list[m] \in ToSet(I[a[i]]), list[n] \in ToSet(I[a[j]]) \ U
      PROVE  m < n
  <2>1. ~ (m > Len(o))
    BY <1>5, <1>7, <1>8, <1>9
  <2>2. ~ (n <= Len(o))
    BY <1>7, <1>9
  <2> QED
    BY <1>7, <2>1, <2>2
<1> QED
  BY <1>9, Zenon DEF Precede, U

-----------------------------------------------------------------------------
(***************************************************************************)
(* Records, and what a composition lists.                                  *)
(***************************************************************************)

Records == [generated : [Origins -> Seq(Entities)],
            modified  : [Origins -> Seq(Entities)],
            deleted   : SUBSET Entities]
\* What a record lists for an origin, and what stands for x after it.
Gen(r, o) == ToSet(r.generated[o])
Mod(r, o) == ToSet(r.modified[o])
Stand(r, x) == Mod(r, x) \cup {y \in {x} : ~ Consumed(r, y)}

Reads(r) ==
    /\ \A o \in Origins : /\ Gen(r, o) \subseteq Entities /\ Mod(r, o) \subseteq Entities
                          /\ r.generated[o] # <<>> <=> Gen(r, o) # {}
                          /\ r.modified[o] # <<>> <=> Mod(r, o) # {}
    /\ r.deleted \subseteq Entities
    /\ \A x \in Entities : /\ Consumed(r, x) <=> x \in r.deleted \/ Mod(r, x) # {}
                           /\ Accounted(r, x) <=> x \in r.deleted \/ Gen(r, x) # {}
                                                                  \/ Mod(r, x) # {}
    /\ \A y : y \in Outputs(r) <=> \E o \in Origins : y \in Gen(r, o) \/ y \in Mod(r, o)
    /\ \A y \in Outputs(r) : y \in Entities

LEMMA RecordReads ==
    ASSUME NEW r \in Records
    PROVE  Reads(r)
<1>1. ASSUME NEW o \in Origins
      PROVE  /\ Gen(r, o) \subseteq Entities /\ Mod(r, o) \subseteq Entities
             /\ r.generated[o] # <<>> <=> Gen(r, o) # {}
             /\ r.modified[o] # <<>> <=> Mod(r, o) # {}
  <2>1. r.generated[o] \in Seq(Entities) /\ r.modified[o] \in Seq(Entities)
    BY DEF Records
  <2> QED
    BY <2>1, ToSetInside DEF Gen, Mod
<1>2. r.deleted \subseteq Entities
  BY DEF Records
<1>3. Entities \subseteq Origins
  BY DEF Origins
<1>4. ASSUME NEW x \in Entities
      PROVE  /\ Consumed(r, x) <=> x \in r.deleted \/ Mod(r, x) # {}
             /\ Accounted(r, x) <=> x \in r.deleted \/ Gen(r, x) # {} \/ Mod(r, x) # {}
  BY <1>1, <1>3 DEF Consumed, Accounted, Recorded
<1>5. \A y : y \in Outputs(r) <=> \E o \in Origins : y \in Gen(r, o) \/ y \in Mod(r, o)
  BY DEF Outputs, Gen, Mod
<1> QED
  BY <1>1, <1>2, <1>4, <1>5, Zenon DEF Reads

\* The lists of a composition.
ThenLists(p, q, r) ==
    /\ \A o \in Origins :
         /\ r.generated[o] = Once(
              Through(p.generated[o], Family(q)) \o Through(p.modified[o], q.generated)
                \o Carried(Outputs(p), o, q.generated[o]))
         /\ r.modified[o] = Once(
              Through(p.modified[o], Pieces(q)) \o Carried(Outputs(p), o, q.modified[o]))
    /\ r.deleted = p.deleted \cup (q.deleted \ Outputs(p))
                     \cup {s \in Entities : p.modified[s] # <<>> /\ r.modified[s] = <<>>}

LEMMA ImagesOf ==
    ASSUME NEW q \in Records
    PROVE  /\ Images(Pieces(q), Entities, Entities)
           /\ Images(Family(q), Entities, Entities)
           /\ Images(q.generated, Entities, Entities)
           /\ \A x \in Entities : /\ ToSet(Pieces(q)[x]) = Stand(q, x)
                                  /\ ToSet(Family(q)[x]) = Gen(q, x) \cup Stand(q, x)
<1> SUFFICES ASSUME NEW x \in Entities
             PROVE  /\ Pieces(q)[x] \in Seq(Entities) /\ Family(q)[x] \in Seq(Entities)
                    /\ q.generated[x] \in Seq(Entities)
                    /\ ToSet(Pieces(q)[x]) = Stand(q, x)
                    /\ ToSet(Family(q)[x]) = Gen(q, x) \cup Stand(q, x)
  BY DEF Images
<1> DEFINE m == q.modified[x]
           g == q.generated[x]
           s == Stays(q, x)
           n == Pieces(q)[x]
<1>1. m \in Seq(Entities) /\ g \in Seq(Entities)
  BY DEF Records, Origins
<1>2. s \in Seq(Entities) /\ ToSet(s) = {y \in {x} : ~ Consumed(q, y)}
  BY ToSetEmpty DEF Stays
<1>3. n = m \o s /\ Family(q)[x] = g \o n
  BY DEF Pieces, Family
<1>4. ToSet(m) = Mod(q, x) /\ ToSet(g) = Gen(q, x)
  BY DEF Mod, Gen
<1> HIDE DEF m, g, s, n
<1>5. n \in Seq(Entities) /\ ToSet(n) = ToSet(m) \cup ToSet(s)
  BY <1>1, <1>2, <1>3, ConcatProperties, ToSetConcat
<1>6. g \o n \in Seq(Entities) /\ ToSet(g \o n) = ToSet(g) \cup ToSet(n)
  BY <1>1, <1>5, ConcatProperties, ToSetConcat
<1>7. ToSet(n) = Stand(q, x)
  BY <1>2, <1>4, <1>5 DEF Stand
<1> QED
  BY <1>1, <1>3, <1>4, <1>5, <1>6, <1>7 DEF n, g

LEMMA ThroughRecord ==
    ASSUME NEW q \in Records, NEW l \in Seq(Entities)
    PROVE  /\ Through(l, Pieces(q)) \in Seq(Entities)
           /\ ToSet(Through(l, Pieces(q))) = UNION {Stand(q, x) : x \in ToSet(l)}
           /\ Through(l, Family(q)) \in Seq(Entities)
           /\ ToSet(Through(l, Family(q))) = UNION {Gen(q, x) \cup Stand(q, x) : x \in ToSet(l)}
           /\ Through(l, q.generated) \in Seq(Entities)
           /\ ToSet(Through(l, q.generated)) = UNION {Gen(q, x) : x \in ToSet(l)}
<1> DEFINE i == Pieces(q)
           j == Family(q)
           k == q.generated
<1>1. /\ Images(i, Entities, Entities) /\ Images(j, Entities, Entities)
      /\ Images(k, Entities, Entities)
      /\ \A x \in Entities : ToSet(i[x]) = Stand(q, x)
      /\ \A x \in Entities : ToSet(j[x]) = Gen(q, x) \cup Stand(q, x)
      /\ \A x \in Entities : ToSet(k[x]) = Gen(q, x)
  <2>1. \A x \in Entities : ToSet(k[x]) = Gen(q, x)
    BY DEF Gen
  <2> QED
    BY <2>1, ImagesOf
<1>2. \A x \in ToSet(l) : x \in Entities
  BY ToSetInside
<1> HIDE DEF i, j, k
<1>3. Through(l, i) \in Seq(Entities) /\ ToSet(Through(l, i)) = Shown(i, ToSet(l))
  BY <1>1, ThroughShows
<1>4. Through(l, j) \in Seq(Entities) /\ ToSet(Through(l, j)) = Shown(j, ToSet(l))
  BY <1>1, ThroughShows
<1>5. Through(l, k) \in Seq(Entities) /\ ToSet(Through(l, k)) = Shown(k, ToSet(l))
  BY <1>1, ThroughShows
<1>6. {ToSet(i[x]) : x \in ToSet(l)} = {Stand(q, x) : x \in ToSet(l)}
  BY <1>1, <1>2
<1>7. {ToSet(j[x]) : x \in ToSet(l)} = {Gen(q, x) \cup Stand(q, x) : x \in ToSet(l)}
  BY <1>1, <1>2
<1>8. {ToSet(k[x]) : x \in ToSet(l)} = {Gen(q, x) : x \in ToSet(l)}
  BY <1>1, <1>2
<1> QED
  BY <1>3, <1>4, <1>5, <1>6, <1>7, <1>8, Zenon DEF i, j, k, Shown

LEMMA ThenIs ==
    ASSUME NEW p \in Records, NEW q \in Records
    PROVE  ThenLists(p, q, Then(p, q))
<1> DEFINE gen == [o \in Origins |-> Once(
              Through(p.generated[o], Family(q)) \o Through(p.modified[o], q.generated)
                \o Carried(Outputs(p), o, q.generated[o]))]
           mod == [o \in Origins |-> Once(
              Through(p.modified[o], Pieces(q)) \o Carried(Outputs(p), o, q.modified[o]))]
           del == p.deleted \cup (q.deleted \ Outputs(p))
                    \cup {s \in Entities : p.modified[s] # <<>> /\ mod[s] = <<>>}
<1>1. Then(p, q) = [generated |-> gen, modified |-> mod, deleted |-> del]
  BY Zenon DEF Then, CarriedDeleted
<1>2. /\ Then(p, q).generated = gen /\ Then(p, q).modified = mod
      /\ Then(p, q).deleted = del
  <2> HIDE DEF gen, mod, del
  <2> QED
    BY <1>1
<1>3. \A o \in Origins :
         /\ gen[o] = Once(
              Through(p.generated[o], Family(q)) \o Through(p.modified[o], q.generated)
                \o Carried(Outputs(p), o, q.generated[o]))
         /\ mod[o] = Once(
              Through(p.modified[o], Pieces(q)) \o Carried(Outputs(p), o, q.modified[o]))
  BY Zenon
<1> HIDE DEF gen, mod
<1> QED
  BY <1>2, <1>3, Zenon DEF ThenLists

LEMMA ThenKeeps ==
    ASSUME NEW p \in Records, NEW q \in Records
    PROVE  /\ Then(p, q) \in Records
           /\ \A o \in Origins : /\ IsInjective(Then(p, q).generated[o])
                                 /\ IsInjective(Then(p, q).modified[o])
<1> DEFINE gen == [o \in Origins |-> Once(
              Through(p.generated[o], Family(q)) \o Through(p.modified[o], q.generated)
                \o Carried(Outputs(p), o, q.generated[o]))]
           mod == [o \in Origins |-> Once(
              Through(p.modified[o], Pieces(q)) \o Carried(Outputs(p), o, q.modified[o]))]
           del == p.deleted \cup (q.deleted \ Outputs(p))
                    \cup {s \in Entities : p.modified[s] # <<>> /\ mod[s] = <<>>}
<1>1. Then(p, q) = [generated |-> gen, modified |-> mod, deleted |-> del]
  BY Zenon DEF Then, CarriedDeleted
<1>2. ASSUME NEW o \in Origins
      PROVE  /\ gen[o] \in Seq(Entities) /\ IsInjective(gen[o])
             /\ mod[o] \in Seq(Entities) /\ IsInjective(mod[o])
  <2> DEFINE a == Through(p.generated[o], Family(q))
             b == Through(p.modified[o], q.generated)
             c == Carried(Outputs(p), o, q.generated[o])
             d == Through(p.modified[o], Pieces(q))
             e == Carried(Outputs(p), o, q.modified[o])
  <2>1. p.generated[o] \in Seq(Entities) /\ p.modified[o] \in Seq(Entities)
    BY DEF Records
  <2>2. a \in Seq(Entities)
    BY <2>1, ThroughRecord
  <2>3. b \in Seq(Entities)
    BY <2>1, ThroughRecord
  <2>4. d \in Seq(Entities)
    BY <2>1, ThroughRecord
  <2>5. c \in Seq(Entities) /\ e \in Seq(Entities)
    BY DEF Carried, Records
  <2>6. gen[o] = Once((a \o b) \o c) /\ mod[o] = Once(d \o e)
    BY Zenon
  <2> HIDE DEF a, b, c, d, e
  <2>7. (a \o b) \o c \in Seq(Entities) /\ d \o e \in Seq(Entities)
    BY <2>2, <2>3, <2>4, <2>5, ConcatProperties
  <2> HIDE DEF gen, mod
  <2> QED
    BY <2>6, <2>7, OnceKeeps
<1>3. gen = [o \in Origins |-> gen[o]] /\ mod = [o \in Origins |-> mod[o]]
  BY Zenon
<1>4. del \subseteq Entities
  BY DEF Records
<1> HIDE DEF gen, mod, del
<1>5. gen \in [Origins -> Seq(Entities)] /\ mod \in [Origins -> Seq(Entities)]
  BY <1>2, <1>3
<1>6. Then(p, q) \in Records
  BY <1>1, <1>4, <1>5 DEF Records
<1>7. Then(p, q).generated = gen /\ Then(p, q).modified = mod
  BY <1>1
<1> QED
  BY <1>2, <1>6, <1>7

\* What stands in the lists of a composition, and what it deletes.
ThenSets(p, q, r) ==
    /\ \A o \in Origins : \A y :
         y \in Mod(r, o) <=> \/ \E x \in Mod(p, o) : y \in Stand(q, x)
                             \/ o \notin Outputs(p) /\ y \in Mod(q, o)
    /\ \A o \in Origins : \A y :
         y \in Gen(r, o) <=> \/ \E x \in Gen(p, o) : y \in Gen(q, x) \/ y \in Stand(q, x)
                             \/ \E x \in Mod(p, o) : y \in Gen(q, x)
                             \/ o \notin Outputs(p) /\ y \in Gen(q, o)
    /\ \A s \in Entities :
         s \in r.deleted <=> \/ s \in p.deleted
                             \/ s \in q.deleted /\ s \notin Outputs(p)
                             \/ Mod(p, s) # {} /\ Mod(r, s) = {}

LEMMA ThenListsSets ==
    ASSUME NEW p \in Records, NEW q \in Records
    PROVE  ThenSets(p, q, Then(p, q))
<1> DEFINE r == Then(p, q)
<1>0. r \in Records /\ ThenLists(p, q, r)
  BY ThenKeeps, ThenIs
<1> HIDE DEF r
<1>1. ASSUME NEW o \in Origins
      PROVE  /\ Mod(r, o) = (UNION {Stand(q, x) : x \in Mod(p, o)})
                              \cup {y \in Mod(q, o) : o \notin Outputs(p)}
             /\ Gen(r, o) = (UNION {Gen(q, x) \cup Stand(q, x) : x \in Gen(p, o)})
                              \cup (UNION {Gen(q, x) : x \in Mod(p, o)})
                              \cup {y \in Gen(q, o) : o \notin Outputs(p)}
  <2> DEFINE a == Through(p.generated[o], Family(q))
             b == Through(p.modified[o], q.generated)
             c == Carried(Outputs(p), o, q.generated[o])
             d == Through(p.modified[o], Pieces(q))
             e == Carried(Outputs(p), o, q.modified[o])
  <2>1. p.generated[o] \in Seq(Entities) /\ p.modified[o] \in Seq(Entities)
    BY DEF Records
  <2>2. ToSet(p.generated[o]) = Gen(p, o) /\ ToSet(p.modified[o]) = Mod(p, o)
    BY DEF Gen, Mod
  <2>3. a \in Seq(Entities) /\ ToSet(a) = UNION {Gen(q, x) \cup Stand(q, x) : x \in Gen(p, o)}
    BY <2>1, <2>2, ThroughRecord
  <2>4. b \in Seq(Entities) /\ ToSet(b) = UNION {Gen(q, x) : x \in Mod(p, o)}
    BY <2>1, <2>2, ThroughRecord
  <2>5. d \in Seq(Entities) /\ ToSet(d) = UNION {Stand(q, x) : x \in Mod(p, o)}
    BY <2>1, <2>2, ThroughRecord
  <2>6. /\ c \in Seq(Entities) /\ ToSet(c) = {y \in Gen(q, o) : o \notin Outputs(p)}
        /\ e \in Seq(Entities) /\ ToSet(e) = {y \in Mod(q, o) : o \notin Outputs(p)}
    BY ToSetEmpty DEF Carried, Records, Gen, Mod
  <2>7. /\ Gen(r, o) = ToSet(Once((a \o b) \o c)) /\ Mod(r, o) = ToSet(Once(d \o e))
    BY <1>0, Zenon DEF ThenLists, Gen, Mod
  <2> HIDE DEF a, b, c, d, e
  <2>8. a \o b \in Seq(Entities) /\ ToSet(a \o b) = ToSet(a) \cup ToSet(b)
    BY <2>3, <2>4, ConcatProperties, ToSetConcat
  <2>9. /\ (a \o b) \o c \in Seq(Entities)
        /\ ToSet((a \o b) \o c) = ToSet(a \o b) \cup ToSet(c)
    <3> DEFINE n == a \o b
    <3>1. n \in Seq(Entities)
      BY <2>8
    <3> HIDE DEF n
    <3>2. n \o c \in Seq(Entities) /\ ToSet(n \o c) = ToSet(n) \cup ToSet(c)
      BY <2>6, <3>1, ConcatProperties, ToSetConcat
    <3> QED
      BY <3>2 DEF n
  <2>10. d \o e \in Seq(Entities) /\ ToSet(d \o e) = ToSet(d) \cup ToSet(e)
    BY <2>5, <2>6, ConcatProperties, ToSetConcat
  <2>11. /\ ToSet(Once((a \o b) \o c)) = ToSet((a \o b) \o c)
         /\ ToSet(Once(d \o e)) = ToSet(d \o e)
    BY <2>9, <2>10, OnceKeeps
  <2>12. Gen(r, o) = (ToSet(a) \cup ToSet(b)) \cup ToSet(c)
    BY <2>7, <2>8, <2>9, <2>11, Zenon
  <2>13. Mod(r, o) = ToSet(d) \cup ToSet(e)
    BY <2>7, <2>10, <2>11, Zenon
  <2> QED
    BY <2>3, <2>4, <2>5, <2>6, <2>12, <2>13, Zenon
<1>2. \A s \in Entities :
         s \in r.deleted <=> \/ s \in p.deleted
                             \/ s \in q.deleted /\ s \notin Outputs(p)
                             \/ Mod(p, s) # {} /\ Mod(r, s) = {}
  <2>1. \A s \in Entities : /\ p.modified[s] # <<>> <=> Mod(p, s) # {}
                            /\ r.modified[s] # <<>> <=> Mod(r, s) # {}
    BY <1>0, RecordReads DEF Reads, Origins
  <2> QED
    BY <1>0, <2>1 DEF ThenLists
<1> QED
  BY <1>1, <1>2 DEF ThenSets, r

-----------------------------------------------------------------------------
(***************************************************************************)
(* The invariant of the chain: an operation lists what it makes, and names *)
(* what was there - made before it, or first, and consumed by none before. *)
(***************************************************************************)

Clean(r) == \A o \in Origins : IsInjective(r.generated[o]) /\ IsInjective(r.modified[o])
Operations == [rec : Records, ins : SUBSET Entities, out : SUBSET Entities]
MadeBefore(h, k) == First \cup UNION {Outputs(h[j].rec) : j \in 1 .. (k - 1)}
Present(h, k) == {e \in MadeBefore(h, k) : \A j \in 1 .. (k - 1) : ~ Consumed(h[j].rec, e)}
Fits(h, k, r) ==
    /\ r \in Records /\ Clean(r)
    /\ \A y \in Outputs(r) : k \in DOMAIN New /\ y \in New[k]
    /\ \A e \in Entities : Accounted(r, e) => e \in Present(h, k)
Returned(h, k) ==
    /\ h[k].ins = IF k = 1 THEN First ELSE h[k - 1].out
    /\ h[k].out = Outputs(h[k].rec) \cup {e \in h[k].ins : ~ Accounted(h[k].rec, e)}
ChainInv ==
    /\ hist \in Seq(Operations)
    /\ \A k \in 1 .. Len(hist) : Fits(hist, k, hist[k].rec) /\ Returned(hist, k)
    /\ Fits(hist, Len(hist) + 1, rec)
    /\ here = Present(hist, Len(hist) + 1)

LEMMA EmptyFits ==
    /\ Empty \in Records /\ Clean(Empty) /\ Outputs(Empty) = {}
    /\ \A e \in Entities : ~ Accounted(Empty, e)
<1>1. /\ \A o \in Origins : Empty.generated[o] = <<>> /\ Empty.modified[o] = <<>>
      /\ Empty.deleted = {}
  BY DEF Empty
<1>2. Empty \in Records
  <2>1. [o \in Origins |-> <<>>] \in [Origins -> Seq(Entities)]
    OBVIOUS
  <2> QED
    BY <2>1 DEF Empty, Records
<1>3. IsInjective(<<>>)
  BY DEF IsInjective
<1>4. Outputs(Empty) = {}
  <2>1. \A o \in Origins : Gen(Empty, o) = {} /\ Mod(Empty, o) = {}
    BY <1>1, ToSetEmpty DEF Gen, Mod
  <2> QED
    BY <1>2, <2>1, RecordReads DEF Reads
<1>5. \A e \in Entities : e \in Origins
  BY DEF Origins
<1>6. \A e \in Entities : ~ Accounted(Empty, e)
  <2> HIDE DEF Empty
  <2> QED
    BY <1>1, <1>5 DEF Accounted, Recorded
<1>7. Clean(Empty)
  <2> HIDE DEF Empty
  <2> QED
    BY <1>1, <1>3 DEF Clean
<1> QED
  BY <1>2, <1>4, <1>6, <1>7

LEMMA RecordExcept ==
    ASSUME NEW r \in Records, NEW x
    PROVE  /\ [r EXCEPT !.generated = x] = [generated |-> x, modified |-> r.modified,
                                            deleted |-> r.deleted]
           /\ [r EXCEPT !.modified = x] = [generated |-> r.generated, modified |-> x,
                                           deleted |-> r.deleted]
           /\ [r EXCEPT !.deleted = x] = [generated |-> r.generated, modified |-> r.modified,
                                          deleted |-> x]
BY DEF Records

\* An entry more: of one origin, of one output.
Grown(r, s, o, Y) ==
    /\ s \in Records /\ Clean(s)
    /\ \A y \in Outputs(s) : y \in Outputs(r) \/ y \in Y
    /\ \A e \in Entities : Accounted(s, e) => Accounted(r, e) \/ e = o

LEMMA AddGeneratedGrows ==
    ASSUME NEW r \in Records, Clean(r), NEW o \in Origins, NEW y \in Entities
    PROVE  Grown(r, AddGenerated(r, o, y), o, {y})
<1> DEFINE s == AddGenerated(r, o, y)
           list == PushOnce(r.generated[o], y)
           gen == [r.generated EXCEPT ![o] = list]
<1>1. s = [generated |-> gen, modified |-> r.modified, deleted |-> r.deleted]
  <2>1. s = [r EXCEPT !.generated = gen]
    BY Zenon DEF AddGenerated
  <2> HIDE DEF gen
  <2> QED
    BY <2>1, RecordExcept
<1>2. /\ list \in Seq(Entities) /\ IsInjective(list)
      /\ ToSet(list) = ToSet(r.generated[o]) \cup {y}
  <2>1. r.generated[o] \in Seq(Entities) /\ IsInjective(r.generated[o])
    BY DEF Records, Clean
  <2> QED
    BY <2>1, PushOnceKeeps
<1> HIDE DEF list
<1>3. /\ gen \in [Origins -> Seq(Entities)] /\ gen[o] = list
      /\ \A p \in Origins : p # o => gen[p] = r.generated[p]
  BY <1>2 DEF Records
<1> HIDE DEF gen, s
<1>4. s \in Records /\ s.generated = gen /\ s.modified = r.modified /\ s.deleted = r.deleted
  BY <1>1, <1>3 DEF Records
<1>5. Clean(s)
  BY <1>2, <1>3, <1>4 DEF Clean
<1>6. /\ \A p \in Origins : Mod(s, p) = Mod(r, p) /\ (p # o => Gen(s, p) = Gen(r, p))
      /\ Gen(s, o) = Gen(r, o) \cup {y}
  BY <1>2, <1>3, <1>4 DEF Gen, Mod
<1>7. Reads(r) /\ Reads(s)
  BY <1>4, RecordReads
<1>8. \A e \in Outputs(s) : e \in Outputs(r) \/ e = y
  BY <1>6, <1>7 DEF Reads
<1>9. \A e \in Entities : Accounted(s, e) => Accounted(r, e) \/ e = o
  BY <1>4, <1>6, <1>7 DEF Reads, Origins
<1> QED
  BY <1>4, <1>5, <1>8, <1>9 DEF Grown, s

LEMMA AddModifiedGrows ==
    ASSUME NEW r \in Records, Clean(r), NEW o \in Origins, NEW y \in Entities
    PROVE  Grown(r, AddModified(r, o, y), o, {y})
<1> DEFINE s == AddModified(r, o, y)
           list == PushOnce(r.modified[o], y)
           mod == [r.modified EXCEPT ![o] = list]
<1>1. s = [generated |-> r.generated, modified |-> mod, deleted |-> r.deleted]
  <2>1. s = [r EXCEPT !.modified = mod]
    BY Zenon DEF AddModified
  <2> HIDE DEF mod
  <2> QED
    BY <2>1, RecordExcept
<1>2. /\ list \in Seq(Entities) /\ IsInjective(list)
      /\ ToSet(list) = ToSet(r.modified[o]) \cup {y}
  <2>1. r.modified[o] \in Seq(Entities) /\ IsInjective(r.modified[o])
    BY DEF Records, Clean
  <2> QED
    BY <2>1, PushOnceKeeps
<1> HIDE DEF list
<1>3. /\ mod \in [Origins -> Seq(Entities)] /\ mod[o] = list
      /\ \A p \in Origins : p # o => mod[p] = r.modified[p]
  BY <1>2 DEF Records
<1> HIDE DEF mod, s
<1>4. s \in Records /\ s.generated = r.generated /\ s.modified = mod /\ s.deleted = r.deleted
  BY <1>1, <1>3 DEF Records
<1>5. Clean(s)
  BY <1>2, <1>3, <1>4 DEF Clean
<1>6. /\ \A p \in Origins : Gen(s, p) = Gen(r, p) /\ (p # o => Mod(s, p) = Mod(r, p))
      /\ Mod(s, o) = Mod(r, o) \cup {y}
  BY <1>2, <1>3, <1>4 DEF Gen, Mod
<1>7. Reads(r) /\ Reads(s)
  BY <1>4, RecordReads
<1>8. \A e \in Outputs(s) : e \in Outputs(r) \/ e = y
  BY <1>6, <1>7 DEF Reads
<1>9. \A e \in Entities : Accounted(s, e) => Accounted(r, e) \/ e = o
  BY <1>4, <1>6, <1>7 DEF Reads, Origins
<1> QED
  BY <1>4, <1>5, <1>8, <1>9 DEF Grown, s

LEMMA AddDeletedGrows ==
    ASSUME NEW r \in Records, Clean(r), NEW o \in Entities
    PROVE  Grown(r, AddDeleted(r, o), o, {})
<1> DEFINE s == AddDeleted(r, o)
           del == r.deleted \cup {o}
<1>1. s = [generated |-> r.generated, modified |-> r.modified, deleted |-> del]
  <2>1. s = [r EXCEPT !.deleted = del]
    BY Zenon DEF AddDeleted
  <2> HIDE DEF del
  <2> QED
    BY <2>1, RecordExcept
<1>2. del \subseteq Entities
  BY DEF Records
<1> HIDE DEF s
<1>4. s \in Records /\ s.generated = r.generated /\ s.modified = r.modified /\ s.deleted = del
  BY <1>1, <1>2 DEF Records
<1>5. Clean(s)
  BY <1>4 DEF Clean
<1>6. \A p \in Origins : Gen(s, p) = Gen(r, p) /\ Mod(s, p) = Mod(r, p)
  BY <1>4 DEF Gen, Mod
<1>7. Reads(r) /\ Reads(s)
  BY <1>4, RecordReads
<1>8. \A e \in Outputs(s) : e \in Outputs(r)
  BY <1>6, <1>7 DEF Reads
<1>9. \A e \in Entities : Accounted(s, e) => Accounted(r, e) \/ e = o
  BY <1>4, <1>6, <1>7 DEF Reads, Origins
<1> QED
  BY <1>4, <1>5, <1>8, <1>9 DEF Grown, s

LEMMA GrownFits ==
    ASSUME ChainInv, NEW r, NEW o, NEW Y, Grown(rec, r, o, Y),
           \A y \in Y : Step \in DOMAIN New /\ y \in New[Step],
           o \in Entities => o \in here
    PROVE  Fits(hist, Len(hist) + 1, r)
BY DEF ChainInv, Fits, Grown, Step

LEMMA PresentKept ==
    ASSUME NEW h, NEW g, NEW k \in Nat, \A j \in 1 .. (k - 1) : g[j] = h[j]
    PROVE  MadeBefore(g, k) = MadeBefore(h, k) /\ Present(g, k) = Present(h, k)
<1>1. {Outputs(g[j].rec) : j \in 1 .. (k - 1)} = {Outputs(h[j].rec) : j \in 1 .. (k - 1)}
  OBVIOUS
<1>2. MadeBefore(g, k) = MadeBefore(h, k)
  BY <1>1, Zenon DEF MadeBefore
<1>3. \A e : (\A j \in 1 .. (k - 1) : ~ Consumed(g[j].rec, e))
               <=> (\A j \in 1 .. (k - 1) : ~ Consumed(h[j].rec, e))
  OBVIOUS
<1> QED
  BY <1>2, <1>3, Zenon DEF Present

\* What an operation makes, no operation named before.
LEMMA NotNamedBefore ==
    ASSUME ProvenanceAssumption, NEW h, NEW n \in Nat,
           \A k \in 1 .. n : Fits(h, k, h[k].rec),
           NEW y, y \in Entities, NEW m \in DOMAIN New, y \in New[m],
           NEW k \in 1 .. n, k <= m
    PROVE  y \notin First /\ y \notin MadeBefore(h, k)
             /\ ~ Accounted(h[k].rec, y) /\ ~ Consumed(h[k].rec, y)
<1>1. y \notin First
  <2>1. New[m] \in SUBSET (Entities \ First)
    BY DEF ProvenanceAssumption
  <2> QED
    BY <2>1
<1>2. y \notin MadeBefore(h, k)
  <2> SUFFICES ASSUME NEW j \in 1 .. (k - 1), y \in Outputs(h[j].rec) PROVE FALSE
    BY <1>1 DEF MadeBefore
  <2>1. j \in 1 .. n /\ j # m
    <3>1. m \in Nat
      BY DEF ProvenanceAssumption
    <3> QED
      BY <3>1
  <2>2. j \in DOMAIN New /\ y \in New[j]
    BY <2>1 DEF Fits
  <2> QED
    BY <2>1, <2>2 DEF ProvenanceAssumption
<1>3. ~ Accounted(h[k].rec, y)
  BY <1>2 DEF Fits, Present
<1>4. ~ Consumed(h[k].rec, y)
  BY <1>3 DEF Accounted, Recorded, Consumed
<1> QED
  BY <1>1, <1>2, <1>3, <1>4

LEMMA ReturnKeeps ==
    ASSUME ProvenanceAssumption, ChainInv, Return
    PROVE  ChainInv'
<1> DEFINE L == Len(hist)
           op == [rec |-> rec, ins |-> LastOut,
                  out |-> Outputs(rec) \cup {e \in LastOut : ~ Accounted(rec, e)}]
           h == Append(hist, op)
<1>1. L \in Nat /\ hist \in Seq(Operations) /\ L + 1 \in DOMAIN New
  <2>1. hist \in Seq(Operations)
    BY DEF ChainInv
  <2>2. L \in Nat
    BY <2>1, LenProperties
  <2>3. DOMAIN New = 1 .. Len(New) /\ Len(New) \in Nat /\ Len(MaxEntries) \in Nat
    BY LenProperties DEF ProvenanceAssumption
  <2> QED
    BY <2>1, <2>2, <2>3 DEF Return, Running, Step, ProvenanceAssumption
<1>2. hist' = h /\ rec' = Empty
  BY Zenon DEF Return
<1>3. LastOut = IF L = 0 THEN First ELSE hist[L].out
  <2>1. hist = <<>> <=> L = 0
    BY <1>1, EmptySeq
  <2> QED
    BY <2>1 DEF LastOut, Last
<1>4. Reads(rec) /\ rec \in Records
  BY RecordReads DEF ChainInv, Fits
<1>5. op \in Operations /\ op.rec = rec /\ op.ins = LastOut
        /\ op.out = Outputs(rec) \cup {e \in LastOut : ~ Accounted(rec, e)}
  <2>1. LastOut \subseteq Entities
    <3>1. L # 0 => hist[L] \in Operations
      BY <1>1
    <3> QED
      BY <1>3, <3>1 DEF ProvenanceAssumption, Operations
  <2>2. Outputs(rec) \subseteq Entities
    BY <1>4 DEF Reads
  <2> QED
    BY <1>4, <2>1, <2>2 DEF Operations
<1> HIDE DEF op
<1>6. /\ h \in Seq(Operations) /\ Len(h) = L + 1 /\ h[L + 1] = op
      /\ \A j \in 1 .. L : h[j] = hist[j]
  BY <1>1, <1>5, AppendProperties
<1> HIDE DEF h
<1>7. \A k \in 1 .. L + 1 : MadeBefore(h, k) = MadeBefore(hist, k) /\ Present(h, k) = Present(hist, k)
  <2> SUFFICES ASSUME NEW k \in 1 .. L + 1
               PROVE  MadeBefore(h, k) = MadeBefore(hist, k) /\ Present(h, k) = Present(hist, k)
    OBVIOUS
  <2>1. k \in Nat /\ \A j \in 1 .. (k - 1) : h[j] = hist[j]
    BY <1>1, <1>6
  <2> QED
    BY <2>1, PresentKept
<1>8. ASSUME NEW k \in 1 .. L PROVE Fits(h, k, h[k].rec) /\ Returned(h, k)
  <2>1. Fits(hist, k, hist[k].rec) /\ Returned(hist, k)
    BY DEF ChainInv
  <2>2. h[k] = hist[k] /\ (k # 1 => h[k - 1] = hist[k - 1]) /\ Present(h, k) = Present(hist, k)
    <3>1. k \in 1 .. L + 1 /\ (k # 1 => k - 1 \in 1 .. L)
      BY <1>1
    <3> QED
      BY <1>6, <1>7, <3>1, Zenon
  <2>3. Fits(h, k, h[k].rec)
    BY <2>1, <2>2, Zenon DEF Fits
  <2>4. Returned(h, k)
    BY <2>1, <2>2, Zenon DEF Returned
  <2> QED
    BY <2>3, <2>4
<1>9. Fits(h, L + 1, h[L + 1].rec) /\ Returned(h, L + 1)
  <2>1. Fits(hist, L + 1, rec)
    BY DEF ChainInv
  <2>2. L + 1 \in 1 .. L + 1
    BY <1>1
  <2>3. Fits(h, L + 1, h[L + 1].rec)
    BY <1>5, <1>6, <1>7, <2>1, <2>2, Zenon DEF Fits
  <2>4. LastOut = IF L + 1 = 1 THEN First ELSE h[(L + 1) - 1].out
    BY <1>1, <1>3, <1>6
  <2>5. Returned(h, L + 1)
    BY <1>5, <1>6, <2>4, Zenon DEF Returned
  <2> QED
    BY <2>3, <2>5
<1>10. \A k \in 1 .. L + 1 : Fits(h, k, h[k].rec) /\ Returned(h, k)
  BY <1>1, <1>8, <1>9
<1>11. Fits(h, (L + 1) + 1, Empty)
  BY EmptyFits DEF Fits
<1>12. here' = Present(h, (L + 1) + 1)
  <2> DEFINE K == (L + 1) + 1
  <2>1. here' = {e \in here \cup Outputs(rec) : ~ Consumed(rec, e)}
    BY Zenon DEF Return
  <2>2. here = Present(h, L + 1)
    <3>1. L + 1 \in 1 .. L + 1
      BY <1>1
    <3> QED
      BY <1>7, <3>1 DEF ChainInv
  <2>3. \A j : j \in 1 .. (K - 1) <=> j \in 1 .. ((L + 1) - 1) \/ j = L + 1
    BY <1>1
  <2> HIDE DEF K
  <2>4. \A e : e \in MadeBefore(h, K) <=> e \in MadeBefore(h, L + 1) \/ e \in Outputs(rec)
    BY <1>5, <1>6, <2>3, Zenon DEF MadeBefore
  <2>5. \A e : (\A j \in 1 .. (K - 1) : ~ Consumed(h[j].rec, e))
                 <=> (\A j \in 1 .. ((L + 1) - 1) : ~ Consumed(h[j].rec, e)) /\ ~ Consumed(rec, e)
    BY <1>5, <1>6, <2>3, Zenon
  <2>6. ASSUME NEW e \in Outputs(rec), NEW j \in 1 .. ((L + 1) - 1)
        PROVE  ~ Consumed(h[j].rec, e)
    <3>1. e \in Entities /\ e \in New[L + 1]
      BY <1>4 DEF ChainInv, Fits, Reads
    <3>2. \A k \in 1 .. L : Fits(h, k, h[k].rec)
      BY <1>8
    <3>3. j \in 1 .. L /\ j <= L + 1
      BY <1>1
    <3> QED
      BY <1>1, <3>1, <3>2, <3>3, NotNamedBefore
  <2>7. \A e : e \in Present(h, K) <=> (e \in Present(h, L + 1) \/ e \in Outputs(rec)) /\ ~ Consumed(rec, e)
    BY <2>4, <2>5, <2>6, Zenon DEF Present
  <2> QED
    BY <2>1, <2>2, <2>7 DEF K
<1> QED
  <2> DEFINE N == Len(h)
  <2>1. N = L + 1
    BY <1>6
  <2>2. hist' \in Seq(Operations) /\ Len(hist') = N
    BY <1>2, <1>6
  <2> HIDE DEF N, L
  <2>3. \A k \in 1 .. Len(hist') : Fits(hist', k, hist'[k].rec) /\ Returned(hist', k)
    BY <1>2, <1>10, <2>1, <2>2, Zenon
  <2>4. Fits(hist', Len(hist') + 1, rec') /\ here' = Present(hist', Len(hist') + 1)
    BY <1>2, <1>11, <1>12, <2>1, <2>2, Zenon
  <2> QED
    BY <2>2, <2>3, <2>4, Zenon DEF ChainInv, Fits, Returned, Present, MadeBefore, Consumed,
       Accounted, Recorded, Outputs, Records, Operations, Clean

\* The chain keeps the invariant.
LEMMA ChainIsInvariant ==
    ASSUME ProvenanceAssumption
    PROVE  Spec => []ChainInv
<1>1. Init => ChainInv
  <2> SUFFICES ASSUME Init PROVE ChainInv
    OBVIOUS
  <2>1. hist \in Seq(Operations) /\ Len(hist) = 0 /\ Len(hist) + 1 = 1 /\ 1 .. (1 - 1) = {}
    BY DEF Init
  <2>2. Present(hist, 1) = First
    BY <2>1, Zenon DEF Present, MadeBefore
  <2>3. Fits(hist, Len(hist) + 1, rec)
    BY EmptyFits DEF Init, Fits
  <2>4. here = Present(hist, Len(hist) + 1)
    BY <2>1, <2>2 DEF Init
  <2>5. \A k \in 1 .. Len(hist) : FALSE
    BY <2>1
  <2> QED
    BY <2>1, <2>3, <2>4, <2>5, Zenon DEF ChainInv
<1>2. ASSUME ChainInv, [Next]_vars PROVE ChainInv'
  <2>0. rec \in Records /\ Clean(rec)
    BY <1>2 DEF ChainInv, Fits
  <2>1. \A m \in DOMAIN New : New[m] \subseteq Entities
    BY DEF ProvenanceAssumption
  <2>2. Room => Step \in DOMAIN New
    <3>1. hist \in Seq(Operations)
      BY <1>2 DEF ChainInv
    <3>2. Len(hist) \in Nat
      BY <3>1, LenProperties
    <3>3. DOMAIN New = 1 .. Len(New) /\ Len(New) \in Nat /\ Len(MaxEntries) \in Nat
      BY LenProperties DEF ProvenanceAssumption
    <3> QED
      BY <3>2, <3>3 DEF Room, Running, Step, ProvenanceAssumption
  <2>3. ASSUME UNCHANGED <<here, hist>>, Fits(hist, Len(hist) + 1, rec') PROVE ChainInv'
    <3>1. Fits(hist', Len(hist') + 1, rec') /\ here' = Present(hist', Len(hist') + 1)
      BY <1>2, <2>3, Zenon DEF ChainInv
    <3>2. /\ hist' \in Seq(Operations)
          /\ \A k \in 1 .. Len(hist') : Fits(hist', k, hist'[k].rec) /\ Returned(hist', k)
      BY <1>2, <2>3, Zenon DEF ChainInv
    <3> QED
      BY <3>1, <3>2, Zenon DEF ChainInv, Fits, Returned, Present, MadeBefore, Consumed,
         Accounted, Recorded, Outputs, Records, Operations, Clean
  <2>4. here \subseteq Entities
    <3>1. \A j \in 1 .. Len(hist) : Outputs(hist[j].rec) \subseteq Entities
      <4> SUFFICES ASSUME NEW j \in 1 .. Len(hist) PROVE Outputs(hist[j].rec) \subseteq Entities
        OBVIOUS
      <4>1. hist[j].rec \in Records
        BY <1>2 DEF ChainInv, Fits
      <4> QED
        BY <4>1, RecordReads DEF Reads
    <3>2. Len(hist) \in Nat /\ (Len(hist) + 1) - 1 = Len(hist)
      BY <1>2, LenProperties DEF ChainInv
    <3> QED
      BY <1>2, <3>1, <3>2 DEF ChainInv, Present, MadeBefore, ProvenanceAssumption
  <2>5. CASE Generate
    <3>1. PICK o \in here \cup Roles, y \in New[Step] : rec' = AddGenerated(rec, o, y)
      BY <2>5 DEF Generate
    <3>2. Step \in DOMAIN New /\ y \in Entities /\ o \in Origins /\ (o \in Entities => o \in here)
      BY <2>1, <2>2, <2>4, <2>5, <3>1 DEF Generate, Origins, ProvenanceAssumption
    <3>3. Grown(rec, rec', o, {y})
      BY <2>0, <3>1, <3>2, AddGeneratedGrows, Zenon
    <3>4. Fits(hist, Len(hist) + 1, rec')
      <4> DEFINE Y == {y}
      <4>1. Grown(rec, rec', o, Y) /\ \A z \in Y : Step \in DOMAIN New /\ z \in New[Step]
        BY <3>2, <3>3
      <4> HIDE DEF Y
      <4> QED
        BY <1>2, <3>2, <4>1, GrownFits
    <3> QED
      BY <2>3, <2>5, <3>4 DEF Generate
  <2>6. CASE Modify
    <3>1. PICK o \in (here \ rec.deleted) \cup Roles, y \in New[Step] : rec' = AddModified(rec, o, y)
      BY <2>6 DEF Modify
    <3>2. Step \in DOMAIN New /\ y \in Entities /\ o \in Origins /\ (o \in Entities => o \in here)
      BY <2>1, <2>2, <2>4, <2>6, <3>1 DEF Modify, Origins, ProvenanceAssumption
    <3>3. Grown(rec, rec', o, {y})
      BY <2>0, <3>1, <3>2, AddModifiedGrows, Zenon
    <3>4. Fits(hist, Len(hist) + 1, rec')
      <4> DEFINE Y == {y}
      <4>1. Grown(rec, rec', o, Y) /\ \A z \in Y : Step \in DOMAIN New /\ z \in New[Step]
        BY <3>2, <3>3
      <4> HIDE DEF Y
      <4> QED
        BY <1>2, <3>2, <4>1, GrownFits
    <3> QED
      BY <2>3, <2>6, <3>4 DEF Modify
  <2>7. CASE Delete
    <3>1. PICK s \in here : rec' = AddDeleted(rec, s)
      BY <2>7 DEF Delete
    <3>2. Grown(rec, rec', s, {})
      BY <2>0, <2>4, <3>1, AddDeletedGrows
    <3>3. Fits(hist, Len(hist) + 1, rec')
      <4> DEFINE Y == {}
      <4>1. Grown(rec, rec', s, Y) /\ \A z \in Y : Step \in DOMAIN New /\ z \in New[Step]
        BY <3>2
      <4> HIDE DEF Y
      <4> QED
        BY <1>2, <4>1, GrownFits
    <3> QED
      BY <2>3, <2>7, <3>3 DEF Delete
  <2>8. CASE Return
    BY <1>2, <2>8, ReturnKeeps
  <2>9. CASE UNCHANGED vars
    BY <1>2, <2>9, <2>3 DEF vars, ChainInv
  <2> QED
    BY <1>2, <2>5, <2>6, <2>7, <2>8, <2>9 DEF Next
<1> QED
  BY <1>1, <1>2, PTL DEF Spec

-----------------------------------------------------------------------------
(***************************************************************************)
(* Nested order, for every chain.                                          *)
(***************************************************************************)

LEMMA ThenNests ==
    ASSUME NEW p \in Records, NEW q \in Records, NEW o \in Origins
    PROVE  LET r == Then(p, q)
           IN  /\ Nests(r.modified[o], p.modified[o], Pieces(q))
               /\ Nests(r.generated[o], p.generated[o], Family(q))
               /\ p.generated[o] = <<>> => Nests(r.generated[o], p.modified[o], q.generated)
<1> DEFINE r == Then(p, q)
           i == Pieces(q)
           j == Family(q)
           k == q.generated
           g == p.generated[o]
           m == p.modified[o]
           c == Carried(Outputs(p), o, q.generated[o])
           e == Carried(Outputs(p), o, q.modified[o])
           b == Through(m, k)
<1>1. /\ Images(i, Entities, Entities) /\ Images(j, Entities, Entities)
      /\ Images(k, Entities, Entities)
  BY ImagesOf
<1>2. g \in Seq(Entities) /\ m \in Seq(Entities) /\ c \in Seq(Entities) /\ e \in Seq(Entities)
  BY DEF Carried, Records
<1>3. b \in Seq(Entities)
  BY <1>2, ThroughRecord
<1>4. r.generated[o] = Once((Through(g, j) \o b) \o c) /\ r.modified[o] = Once(Through(m, i) \o e)
  BY ThenIs, Zenon DEF ThenLists
<1>5. Through(g, j) \in Seq(Entities)
  BY <1>2, ThroughRecord
<1> HIDE DEF r, i, j, k, g, m, c, e, b
<1>6. Nests(Once(Through(m, i) \o e), m, i)
  BY <1>1, <1>2, OnceNests
<1>7. Nests(Once(Through(g, j) \o (b \o c)), g, j)
  <2>1. b \o c \in Seq(Entities)
    BY <1>2, <1>3, ConcatProperties
  <2> QED
    BY <1>1, <1>2, <2>1, OnceNests
<1>8. (Through(g, j) \o b) \o c = Through(g, j) \o (b \o c)
  BY <1>2, <1>3, <1>5, ConcatAssociative, SMTT(20)
<1>9. ASSUME g = <<>> PROVE Nests(r.generated[o], m, k)
  <2>1. Through(g, j) = <<>>
    BY <1>9, ThroughAlong
  <2>2. Through(g, j) \o b = b
    BY <1>3, <2>1, ConcatEmptySeq
  <2>3. Nests(Once(Through(m, k) \o c), m, k)
    BY <1>1, <1>2, OnceNests
  <2> QED
    BY <1>4, <2>2, <2>3, Zenon DEF b
<1> QED
  BY <1>4, <1>6, <1>7, <1>8, <1>9, Zenon DEF r, i, j, k, g, m

\* The order nests: with any entities, roles and operations, the composition
\* of the last two records lists, of every origin, what stands for one piece
\* before what stands for the next (`OnceNests`: what is listed of the first
\* pieces is kept, in place, by whatever follows).
THEOREM CompositionNests ==
    ASSUME ProvenanceAssumption
    PROVE  Spec => []OrderNests
<1>1. ChainInv => OrderNests
  <2> SUFFICES ASSUME ChainInv, rec = Empty, Len(hist) >= 2
               PROVE  LET p == Rec(Len(hist) - 1)
                          q == Rec(Len(hist))
                          r == Then(p, q)
                      IN  \A o \in Origins :
                            /\ Nests(r.modified[o], p.modified[o], Pieces(q))
                            /\ Nests(r.generated[o], p.generated[o], Family(q))
                            /\ p.generated[o] = <<>> =>
                                  Nests(r.generated[o], p.modified[o], q.generated)
    BY Zenon DEF OrderNests
  <2> DEFINE p == Rec(Len(hist) - 1)
             q == Rec(Len(hist))
  <2>1. Len(hist) \in Nat
    BY LenProperties DEF ChainInv
  <2>2. p \in Records /\ q \in Records
    BY <2>1 DEF ChainInv, Fits, Rec
  <2> HIDE DEF p, q
  <2>3. \A o \in Origins :
           LET r == Then(p, q)
           IN  /\ Nests(r.modified[o], p.modified[o], Pieces(q))
               /\ Nests(r.generated[o], p.generated[o], Family(q))
               /\ p.generated[o] = <<>> => Nests(r.generated[o], p.modified[o], q.generated)
    BY <2>2, ThenNests, Zenon
  <2> QED
    BY <2>3, Zenon DEF p, q
<1> QED
  BY <1>1, ChainIsInvariant, PTL

-----------------------------------------------------------------------------
(***************************************************************************)
(* What a composition names, lists and consumes.                           *)
(***************************************************************************)

\* q runs after p: it makes what was not there, and names nothing consumed.
Chained(p, q) ==
    /\ p \in Records /\ q \in Records
    /\ \A e \in Entities : Accounted(q, e) => ~ Consumed(p, e)
    /\ \A e \in Outputs(p) : ~ Accounted(p, e)
    /\ \A e \in Outputs(q) : ~ Accounted(p, e) /\ ~ Accounted(q, e) /\ e \notin Outputs(p)

LEMMA RecordsAreChained ==
    ASSUME ProvenanceAssumption, ChainInv,
           NEW j \in 1 .. Len(hist), NEW k \in 1 .. Len(hist), j < k
    PROVE  Chained(Rec(j), Rec(k))
<1> DEFINE p == Rec(j)
           q == Rec(k)
<1>0. Len(hist) \in Nat /\ \A i \in 1 .. Len(hist) : Fits(hist, i, hist[i].rec)
  BY LenProperties DEF ChainInv
<1>1. Fits(hist, j, p) /\ Fits(hist, k, q)
  BY <1>0 DEF Rec
<1>2. p \in Records /\ q \in Records
  BY <1>1 DEF Fits
<1>3. ASSUME NEW e \in Entities, Accounted(q, e) PROVE ~ Consumed(p, e)
  <2>1. j \in 1 .. (k - 1)
    BY <1>0
  <2> QED
    BY <1>1, <1>3, <2>1 DEF Fits, Present, Rec
<1>4. ASSUME NEW e \in Outputs(p) PROVE ~ Accounted(p, e)
  <2>1. e \in Entities
    BY <1>2, RecordReads DEF Reads
  <2>2. j \in DOMAIN New /\ e \in New[j]
    BY <1>1 DEF Fits
  <2>3. j <= j
    BY <1>0
  <2> QED
    BY <1>0, <2>1, <2>2, <2>3, NotNamedBefore DEF Rec
<1>5. ASSUME NEW e \in Outputs(q)
      PROVE  ~ Accounted(p, e) /\ ~ Accounted(q, e) /\ e \notin Outputs(p)
  <2>1. e \in Entities
    BY <1>2, RecordReads DEF Reads
  <2>2. k \in DOMAIN New /\ e \in New[k]
    BY <1>1 DEF Fits
  <2>3. k <= k /\ j <= k
    BY <1>0
  <2>4. ~ Accounted(q, e)
    BY <1>0, <2>1, <2>2, <2>3, NotNamedBefore DEF Rec
  <2>5. ~ Accounted(p, e)
    BY <1>0, <2>1, <2>2, <2>3, NotNamedBefore DEF Rec
  <2>6. e \notin Outputs(p)
    <3> SUFFICES ASSUME e \in Outputs(p) PROVE FALSE
      OBVIOUS
    <3>1. j \in DOMAIN New /\ e \in New[j] /\ j # k
      BY <1>1 DEF Fits
    <3> QED
      BY <2>2, <3>1 DEF ProvenanceAssumption
  <2> QED
    BY <2>4, <2>5, <2>6
<1> QED
  BY <1>2, <1>3, <1>4, <1>5 DEF Chained

ThenNames(p, q, s) ==
    /\ s \in Records
    /\ \A y : y \in Outputs(s) <=> \/ y \in Outputs(p) /\ ~ Consumed(q, y)
                                   \/ y \in Outputs(q)
    /\ \A e \in Outputs(p) : ~ Accounted(s, e)
    /\ \A e \in Entities : e \notin Outputs(p) =>
         /\ Consumed(s, e) <=> Consumed(p, e) \/ Consumed(q, e)
         /\ Accounted(s, e) => Accounted(p, e) \/ Accounted(q, e)

LEMMA ThenIsNamed ==
    ASSUME NEW p, NEW q, Chained(p, q)
    PROVE  ThenNames(p, q, Then(p, q))
<1> DEFINE s == Then(p, q)
<1>0. p \in Records /\ q \in Records
  BY DEF Chained
<1>1. s \in Records /\ ThenSets(p, q, s) /\ Reads(p) /\ Reads(q) /\ Reads(s)
  BY <1>0, ThenKeeps, ThenListsSets, RecordReads
<1>2. Entities \subseteq Origins
  BY DEF Origins
<1> HIDE DEF s
<1>3. ASSUME NEW y \in Outputs(s)
      PROVE  (y \in Outputs(p) /\ ~ Consumed(q, y)) \/ y \in Outputs(q)
  <2>1. PICK o \in Origins : y \in Gen(s, o) \/ y \in Mod(s, o)
    BY <1>1 DEF Reads
  <2>2. ASSUME NEW x \in Gen(p, o) \cup Mod(p, o), y \in Gen(q, x) \/ y \in Stand(q, x)
        PROVE  (y \in Outputs(p) /\ ~ Consumed(q, y)) \/ y \in Outputs(q)
    <3>1. x \in Origins /\ x \in Outputs(p)
      BY <1>1, <1>2 DEF Reads
    <3>2. y \in Gen(q, x) \/ y \in Mod(q, x) \/ (y = x /\ ~ Consumed(q, x))
      BY <2>2 DEF Stand
    <3> QED
      BY <1>1, <3>1, <3>2 DEF Reads
  <2>3. (y \in Gen(q, o) \/ y \in Mod(q, o)) => y \in Outputs(q)
    BY <1>1 DEF Reads
  <2> QED
    BY <1>1, <2>1, <2>2, <2>3 DEF ThenSets
<1>4. ASSUME NEW y \in Outputs(p), ~ Consumed(q, y) PROVE y \in Outputs(s)
  <2>1. PICK o \in Origins : y \in Gen(p, o) \/ y \in Mod(p, o)
    BY <1>1 DEF Reads
  <2>2. y \in Stand(q, y)
    BY <1>4 DEF Stand
  <2>3. y \in Gen(s, o) \/ y \in Mod(s, o)
    BY <1>1, <2>1, <2>2 DEF ThenSets
  <2> QED
    BY <1>1, <2>3 DEF Reads
<1>5. ASSUME NEW y \in Outputs(q) PROVE y \in Outputs(s)
  <2>1. PICK x \in Origins : y \in Gen(q, x) \/ y \in Mod(q, x)
    BY <1>1 DEF Reads
  <2>2. CASE x \notin Outputs(p)
    <3>1. y \in Gen(s, x) \/ y \in Mod(s, x)
      BY <1>1, <2>1, <2>2 DEF ThenSets
    <3> QED
      BY <1>1, <3>1 DEF Reads
  <2>3. CASE x \in Outputs(p)
    <3>1. PICK o \in Origins : x \in Gen(p, o) \/ x \in Mod(p, o)
      BY <1>1, <2>3 DEF Reads
    <3>2. y \in Gen(q, x) \/ y \in Stand(q, x)
      BY <2>1 DEF Stand
    <3>3. y \in Gen(s, o) \/ y \in Mod(s, o)
      BY <1>1, <3>1, <3>2 DEF ThenSets
    <3> QED
      BY <1>1, <3>3 DEF Reads
  <2> QED
    BY <2>2, <2>3
<1>6. ASSUME NEW e \in Outputs(p) PROVE ~ Accounted(s, e)
  <2>1. e \in Entities /\ e \in Origins /\ ~ Accounted(p, e)
    BY <1>1, <1>2 DEF Reads, Chained
  <2>2. Gen(p, e) = {} /\ Mod(p, e) = {} /\ e \notin p.deleted
    BY <1>1, <2>1 DEF Reads
  <2>3. Gen(s, e) = {} /\ Mod(s, e) = {} /\ e \notin s.deleted
    BY <1>1, <2>1, <2>2 DEF ThenSets
  <2> QED
    BY <1>1, <2>1, <2>3 DEF Reads
<1>7. ASSUME NEW e \in Entities, e \notin Outputs(p)
      PROVE  /\ Consumed(s, e) <=> Consumed(p, e) \/ Consumed(q, e)
             /\ Accounted(s, e) => Accounted(p, e) \/ Accounted(q, e)
  <2>0. e \in Origins
    BY <1>2
  <2>1. /\ Consumed(s, e) <=> e \in s.deleted \/ Mod(s, e) # {}
        /\ Consumed(p, e) <=> e \in p.deleted \/ Mod(p, e) # {}
        /\ Consumed(q, e) <=> e \in q.deleted \/ Mod(q, e) # {}
        /\ Accounted(s, e) <=> e \in s.deleted \/ Gen(s, e) # {} \/ Mod(s, e) # {}
        /\ Accounted(p, e) <=> e \in p.deleted \/ Gen(p, e) # {} \/ Mod(p, e) # {}
        /\ Accounted(q, e) <=> e \in q.deleted \/ Gen(q, e) # {} \/ Mod(q, e) # {}
    BY <1>1 DEF Reads
  <2>2. e \in s.deleted <=> \/ e \in p.deleted
                            \/ e \in q.deleted
                            \/ Mod(p, e) # {} /\ Mod(s, e) = {}
    BY <1>1, <1>7 DEF ThenSets
  <2>3. Mod(q, e) # {} => Mod(s, e) # {}
    BY <1>1, <1>7, <2>0 DEF ThenSets
  <2>4. Mod(s, e) # {} => Mod(p, e) # {} \/ Mod(q, e) # {}
    BY <1>1, <2>0 DEF ThenSets
  <2>5. Gen(s, e) # {} => Gen(p, e) # {} \/ Mod(p, e) # {} \/ Gen(q, e) # {}
    BY <1>1, <2>0 DEF ThenSets
  <2> QED
    BY <2>1, <2>2, <2>3, <2>4, <2>5
<1> QED
  BY <1>1, <1>3, <1>4, <1>5, <1>6, <1>7, Zenon DEF ThenNames, s

\* What runs after both of two runs after their composition, and the other way.
LEMMA ThenIsChained ==
    ASSUME NEW p, NEW q, NEW r, Chained(p, q), Chained(p, r), Chained(q, r)
    PROVE  Chained(Then(p, q), r) /\ Chained(p, Then(q, r))
<1> DEFINE s == Then(p, q)
           t == Then(q, r)
<1>1. ThenNames(p, q, s) /\ ThenNames(q, r, t)
  BY ThenIsNamed
<1> HIDE DEF s, t
<1>2. Reads(p) /\ Reads(q) /\ Reads(r) /\ Reads(s) /\ Reads(t)
  BY <1>1, RecordReads DEF Chained, ThenNames
<1>3. \A x \in Records : \A e \in Entities : Consumed(x, e) => Accounted(x, e)
  BY DEF Consumed, Accounted, Recorded
<1>4. Chained(s, r)
  <2>1. ASSUME NEW e \in Entities, Accounted(r, e) PROVE ~ Consumed(s, e)
    <3>1. CASE e \in Outputs(p)
      BY <1>1, <1>3, <3>1 DEF ThenNames
    <3>2. CASE e \notin Outputs(p)
      BY <1>1, <2>1, <3>2 DEF ThenNames, Chained
    <3> QED
      BY <3>1, <3>2
  <2>2. ASSUME NEW e \in Outputs(s) PROVE ~ Accounted(s, e)
    <3>1. e \in Entities
      BY <1>2 DEF Reads
    <3>2. CASE e \in Outputs(p)
      BY <1>1, <3>2 DEF ThenNames
    <3>3. CASE e \notin Outputs(p)
      BY <1>1, <3>1, <3>3 DEF ThenNames, Chained
    <3> QED
      BY <3>2, <3>3
  <2>3. ASSUME NEW e \in Outputs(r)
        PROVE  ~ Accounted(s, e) /\ ~ Accounted(r, e) /\ e \notin Outputs(s)
    <3>1. e \in Entities
      BY <1>2 DEF Reads
    <3> QED
      BY <1>1, <3>1 DEF ThenNames, Chained
  <2> QED
    BY <1>1, <2>1, <2>2, <2>3 DEF Chained, ThenNames
<1>5. Chained(p, t)
  <2>1. ASSUME NEW e \in Entities, Accounted(t, e) PROVE ~ Consumed(p, e)
    BY <1>1, <2>1 DEF ThenNames, Chained
  <2>2. ASSUME NEW e \in Outputs(t)
        PROVE  ~ Accounted(p, e) /\ ~ Accounted(t, e) /\ e \notin Outputs(p)
    <3>1. e \in Entities
      BY <1>2 DEF Reads
    <3>2. CASE e \in Outputs(q)
      BY <1>1, <3>2 DEF ThenNames, Chained
    <3>3. CASE e \notin Outputs(q)
      BY <1>1, <3>1, <3>3 DEF ThenNames, Chained
    <3> QED
      BY <3>2, <3>3
  <2> QED
    BY <1>1, <2>1, <2>2 DEF Chained, ThenNames
<1> QED
  BY <1>4, <1>5 DEF s, t

-----------------------------------------------------------------------------
(***************************************************************************)
(* The bracketings of three records agree.                                 *)
(***************************************************************************)

\* What stands for an output of the first, after the other two.
LEMMA PiecesOfPieces ==
    ASSUME NEW p, NEW q, NEW r, Chained(p, q), Chained(q, r), NEW x \in Outputs(p)
    PROVE  Once(Pieces(Then(q, r))[x]) = Once(Through(Pieces(q)[x], Pieces(r)))
<1> DEFINE t == Then(q, r)
           J == Pieces(r)
           a == Through(q.modified[x], J)
           m == r.modified[x]
           c == Carried(Outputs(q), x, r.modified[x])
           n == t.modified[x]
<1>0. p \in Records /\ q \in Records /\ r \in Records /\ x \notin Outputs(q)
  BY DEF Chained
<1>1. x \in Entities /\ x \in Origins
  BY <1>0, RecordReads DEF Reads, Origins
<1>2. /\ Pieces(t)[x] = n \o Stays(t, x) /\ Pieces(q)[x] = q.modified[x] \o Stays(q, x)
      /\ J[x] = m \o Stays(r, x)
  BY <1>1 DEF Pieces
<1>3. Images(J, Entities, Entities)
  BY <1>0, ImagesOf
<1>4. q.modified[x] \in Seq(Entities) /\ m \in Seq(Entities) /\ a \in Seq(Entities)
  <2>1. q.modified[x] \in Seq(Entities) /\ m \in Seq(Entities)
    BY <1>0, <1>1 DEF Records
  <2> QED
    BY <1>0, <2>1, ThroughRecord
<1>5. n = Once(a \o c) /\ c = m
  <2>1. n = Once(a \o c)
    BY <1>0, <1>1, ThenIs, Zenon DEF ThenLists
  <2> QED
    BY <1>0, <2>1 DEF Carried
<1>6. Consumed(t, x) <=> Consumed(q, x) \/ Consumed(r, x)
  BY <1>0, <1>1, ThenIsNamed DEF ThenNames
<1> HIDE DEF t, J, a, m, c, n
<1>7. CASE Consumed(q, x)
  <2>1. ~ Accounted(r, x)
    BY <1>1, <1>7 DEF Chained
  <2>2. m = <<>>
    BY <2>1 DEF Accounted, Recorded, m
  <2>3. Stays(t, x) = <<>> /\ Stays(q, x) = <<>>
    BY <1>6, <1>7 DEF Stays
  <2>4. a \o c = a
    BY <1>4, <1>5, <2>2, ConcatEmptySeq
  <2>5. n = Once(a) /\ Once(a) \in Seq(Entities) /\ Once(Once(a)) = Once(a)
    BY <1>4, <1>5, <2>4, OnceKeeps
  <2>6. Pieces(t)[x] = n /\ Pieces(q)[x] = q.modified[x]
    BY <1>2, <1>4, <2>3, <2>5, ConcatEmptySeq
  <2> QED
    BY <2>5, <2>6, Zenon DEF a, t, J
<1>8. CASE ~ Consumed(q, x)
  <2>1. q.modified[x] = <<>>
    BY <1>8 DEF Consumed
  <2>2. Stays(q, x) = <<x>> /\ Stays(t, x) = Stays(r, x)
    BY <1>6, <1>8, Zenon DEF Stays
  <2>3. Pieces(q)[x] = <<x>> /\ Through(<<x>>, J) = J[x]
    <3>1. <<>> \o <<x>> = <<x>>
      BY <1>1
    <3>2. Pieces(q)[x] = <<x>>
      BY <1>2, <2>1, <2>2, <3>1, Zenon
    <3>3. Through(<<x>>, J) = J[x]
      BY <1>1, <1>3, ThroughOne
    <3> QED
      BY <3>2, <3>3
  <2>4. a = <<>>
    BY <2>1, ThroughAlong DEF a
  <2>5. a \o c = m
    BY <1>4, <1>5, <2>4, ConcatEmptySeq
  <2> DEFINE y == Stays(r, x)
  <2>6. y \in Seq(Entities)
    BY <1>1 DEF Stays
  <2>7. n = Once(m)
    BY <1>5, <2>5
  <2> HIDE DEF y
  <2>8. Once(m \o y) = Once(Once(m) \o y)
    BY <1>4, <2>6, OnceJoined DEF OnceJoins
  <2> QED
    BY <1>2, <2>2, <2>3, <2>7, <2>8, Zenon DEF y, t, J
<1> QED
  BY <1>7, <1>8

LEMMA NotNamedByBoth ==
    ASSUME NEW p, NEW q, NEW r, Chained(p, q), Chained(p, r), Chained(q, r), NEW o \in Outputs(p)
    PROVE  ~ Accounted(Then(Then(p, q), r), o) /\ ~ Accounted(Then(p, Then(q, r)), o)
<1> DEFINE s == Then(p, q)
           t == Then(q, r)
           u == Then(s, r)
           v == Then(p, t)
<1>1. ThenNames(p, q, s) /\ ThenNames(s, r, u) /\ ThenNames(p, t, v)
  BY ThenIsChained, ThenIsNamed
<1>2. o \in Entities
  BY RecordReads DEF Chained, Reads
<1> HIDE DEF s, t, u, v
<1>3. ~ Accounted(v, o) /\ ~ Accounted(s, o)
  BY <1>1 DEF ThenNames
<1>4. ~ Accounted(u, o)
  <2>1. CASE o \in Outputs(s)
    BY <1>1, <2>1 DEF ThenNames
  <2>2. CASE o \notin Outputs(s)
    <3>1. Consumed(q, o)
      BY <1>1, <2>2 DEF ThenNames
    <3>2. ~ Accounted(r, o)
      BY <1>2, <3>1 DEF Chained
    <3> QED
      BY <1>1, <1>2, <1>3, <2>2, <3>2 DEF ThenNames
  <2> QED
    BY <2>1, <2>2
<1> QED
  BY <1>3, <1>4 DEF s, t, u, v

LEMMA ModifiedAgree ==
    ASSUME NEW p, NEW q, NEW r, Chained(p, q), Chained(p, r), Chained(q, r), NEW o \in Origins
    PROVE  Then(Then(p, q), r).modified[o] = Then(p, Then(q, r)).modified[o]
<1> DEFINE s == Then(p, q)
           t == Then(q, r)
           u == Then(s, r)
           v == Then(p, t)
<1>0. /\ p \in Records /\ q \in Records /\ r \in Records /\ s \in Records /\ t \in Records
      /\ ThenLists(p, q, s) /\ ThenLists(q, r, t) /\ ThenLists(s, r, u) /\ ThenLists(p, t, v)
      /\ ThenNames(p, q, s)
  <2>1. p \in Records /\ q \in Records /\ r \in Records
    BY DEF Chained
  <2>2. s \in Records /\ t \in Records
    BY <2>1, ThenKeeps
  <2>3. ThenLists(p, q, s) /\ ThenLists(q, r, t) /\ ThenLists(s, r, u) /\ ThenLists(p, t, v)
    BY <2>1, <2>2, ThenIs
  <2> QED
    BY <2>1, <2>2, <2>3, ThenIsNamed
<1>1. CASE o \in Outputs(p)
  BY <1>1, NotNamedByBoth DEF Accounted, Recorded
<1>2. CASE o \notin Outputs(p)
  <2> DEFINE I == Pieces(q)
             J == Pieces(r)
             K == Pieces(t)
             a == p.modified[o]
             b == q.modified[o]
             c == Carried(Outputs(q), o, r.modified[o])
             ai == Through(a, I)
             l == ai \o b
             X == Through(ai, J)
             Y == Through(b, J)
             Z == Through(a, K)
  <2>1. a \in Seq(Entities) /\ b \in Seq(Entities) /\ c \in Seq(Entities)
    BY <1>0 DEF Carried, Records
  <2>2. Images(I, Entities, Entities) /\ Images(J, Entities, Entities) /\ Images(K, Entities, Entities)
    BY <1>0, ImagesOf
  <2>3. ai \in Seq(Entities) /\ Y \in Seq(Entities) /\ Z \in Seq(Entities)
    BY <1>0, <2>1, ThroughRecord
  <2>4. X \in Seq(Entities)
    <3> HIDE DEF ai
    <3> QED
      BY <1>0, <2>3, ThroughRecord
  <2>5. l \in Seq(Entities)
    <3> HIDE DEF ai, b
    <3> QED
      BY <2>1, <2>3, ConcatProperties
  <2>6. /\ s.modified[o] = Once(ai \o Carried(Outputs(p), o, b))
        /\ t.modified[o] = Once(Y \o c)
        /\ u.modified[o] = Once(Through(s.modified[o], J) \o Carried(Outputs(s), o, r.modified[o]))
        /\ v.modified[o] = Once(Z \o Carried(Outputs(p), o, t.modified[o]))
    BY <1>0, Zenon DEF ThenLists
  <2>7. /\ Carried(Outputs(p), o, b) = b /\ Carried(Outputs(p), o, t.modified[o]) = t.modified[o]
        /\ Carried(Outputs(s), o, r.modified[o]) = c
    <3>1. o \in Outputs(s) <=> o \in Outputs(q)
      BY <1>0, <1>2, Zenon DEF ThenNames
    <3> QED
      BY <1>2, <3>1, Zenon DEF Carried
  <2>8. \A x \in ToSet(a) : Once(K[x]) = Once(Through(I[x], J))
    <3> SUFFICES ASSUME NEW x \in ToSet(a) PROVE Once(K[x]) = Once(Through(I[x], J))
      OBVIOUS
    <3>1. x \in Outputs(p)
      BY DEF Outputs
    <3> QED
      BY <3>1, PiecesOfPieces
  <2>9. l = ai \o b
    OBVIOUS
  <2>10. X = Through(ai, J) /\ Z = Through(a, K) /\ ai = Through(a, I) /\ Y = Through(b, J)
    OBVIOUS
  <2> HIDE DEF I, J, K, a, b, c, ai, l, X, Y, Z
  <2>11. Once(X) = Once(Z)
    <3>1. Once(Through(Through(a, I), J)) = Once(Through(a, K))
      BY <2>1, <2>2, <2>8, ThroughTwice
    <3> QED
      BY <2>10, <3>1, Zenon
  <2>12. u.modified[o] = Once(X \o (Y \o c))
    <3>1. s.modified[o] = Once(l)
      BY <2>6, <2>7, <2>9, Zenon
    <3>2. Once(Through(Once(l), J)) = Once(Through(l, J))
      BY <2>2, <2>5, ThroughOnce
    <3>3. Through(l, J) = X \o Y
      <4>1. Through(ai \o b, J) = Through(ai, J) \o Through(b, J)
        <5>1. \A x, y \in Seq(Entities) : Through(x \o y, J) = Through(x, J) \o Through(y, J)
          BY <2>2, ThroughJoined
        <5> QED
          BY <2>1, <2>3, <5>1, Zenon
      <4> QED
        BY <2>9, <2>10, <4>1, Zenon
    <3> DEFINE d == Through(Once(l), J)
               e == X \o Y
    <3>4. d \in Seq(Entities)
      <4>1. Once(l) \in Seq(Entities)
        BY <2>5, OnceKeeps
      <4> QED
        BY <2>2, <4>1, ThroughShows
    <3>5. e \in Seq(Entities)
      BY <2>3, <2>4, ConcatProperties
    <3>6. Once(d) = Once(e)
      BY <3>2, <3>3, Zenon
    <3>7. Once(d \o c) = Once(e \o c)
      <4> HIDE DEF d, e
      <4> QED
        BY <2>1, <3>4, <3>5, <3>6, SameJoined
    <3>8. (X \o Y) \o c = X \o (Y \o c)
      <4>1. \A x, y, z \in Seq(Entities) : (x \o y) \o z = x \o (y \o z)
        BY ConcatAssociative
      <4> QED
        BY <2>1, <2>3, <2>4, <4>1, Zenon
    <3> QED
      BY <2>6, <2>7, <3>1, <3>7, <3>8, Zenon
  <2>13. v.modified[o] = Once(Z \o (Y \o c))
    <3> DEFINE d == Y \o c
    <3>1. d \in Seq(Entities)
      BY <2>1, <2>3, ConcatProperties
    <3>2. Once(Z \o d) = Once(Z \o Once(d))
      <4> HIDE DEF d
      <4> QED
        BY <2>3, <3>1, OnceJoined DEF OnceJoins
    <3> QED
      BY <2>6, <2>7, <3>2, Zenon
  <2>14. Once(X \o (Y \o c)) = Once(Z \o (Y \o c))
    <3> DEFINE d == Y \o c
    <3>1. d \in Seq(Entities)
      BY <2>1, <2>3, ConcatProperties
    <3> HIDE DEF d
    <3>2. Once(X \o d) = Once(Z \o d)
      BY <2>3, <2>4, <2>11, <3>1, SameJoined
    <3> QED
      BY <3>2 DEF d
  <2> QED
    BY <2>12, <2>13, <2>14, Zenon
<1> QED
  BY <1>1, <1>2

LEMMA DeletedAgree ==
    ASSUME NEW p, NEW q, NEW r, Chained(p, q), Chained(p, r), Chained(q, r)
    PROVE  Then(Then(p, q), r).deleted = Then(p, Then(q, r)).deleted
<1> DEFINE s == Then(p, q)
           t == Then(q, r)
           u == Then(s, r)
           v == Then(p, t)
<1>0. /\ ThenNames(p, q, s) /\ ThenNames(q, r, t) /\ ThenNames(s, r, u) /\ ThenNames(p, t, v)
  BY ThenIsChained, ThenIsNamed
<1>1. /\ p \in Records /\ q \in Records /\ r \in Records
      /\ s \in Records /\ t \in Records /\ u \in Records /\ v \in Records
  BY <1>0 DEF Chained, ThenNames
<1>2. /\ ThenSets(p, q, s) /\ ThenSets(q, r, t) /\ ThenSets(s, r, u) /\ ThenSets(p, t, v)
      /\ Reads(p) /\ Reads(q) /\ Reads(r) /\ Reads(s) /\ Reads(t) /\ Reads(u) /\ Reads(v)
  BY <1>1, ThenListsSets, RecordReads
<1>3. \A e \in Outputs(p) : ~ Accounted(u, e) /\ ~ Accounted(v, e)
  BY NotNamedByBoth
<1>4. \A o \in Origins : Mod(u, o) = Mod(v, o)
  BY ModifiedAgree DEF Mod
<1> HIDE DEF s, t, u, v
<1>5. ASSUME NEW e \in Entities PROVE e \in u.deleted <=> e \in v.deleted
  <2>1. CASE e \in Outputs(p)
    BY <1>3, <2>1 DEF Accounted
  <2>2. CASE e \notin Outputs(p)
    <3>0. e \in Origins /\ Mod(u, e) = Mod(v, e)
      BY <1>4 DEF Origins
    <3>1. e \in Outputs(s) <=> e \in Outputs(q)
      BY <1>0, <2>2 DEF ThenNames
    <3>2. /\ e \in s.deleted <=> \/ e \in p.deleted \/ e \in q.deleted
                                 \/ Mod(p, e) # {} /\ Mod(s, e) = {}
          /\ e \in u.deleted <=> \/ e \in s.deleted
                                 \/ e \in r.deleted /\ e \notin Outputs(q)
                                 \/ Mod(s, e) # {} /\ Mod(u, e) = {}
          /\ e \in t.deleted <=> \/ e \in q.deleted
                                 \/ e \in r.deleted /\ e \notin Outputs(q)
                                 \/ Mod(q, e) # {} /\ Mod(t, e) = {}
          /\ e \in v.deleted <=> \/ e \in p.deleted \/ e \in t.deleted
                                 \/ Mod(p, e) # {} /\ Mod(v, e) = {}
      BY <1>2, <2>2, <3>1 DEF ThenSets
    \* What p consumed, neither of the others names.
    <3>3. Mod(p, e) # {} => Mod(q, e) = {} /\ Mod(r, e) = {}
      BY <1>2 DEF Reads, Chained
    <3>4. Mod(q, e) # {} => Mod(s, e) # {}
      BY <1>2, <2>2, <3>0 DEF ThenSets
    <3>5. Mod(t, e) # {} => Mod(v, e) # {}
      BY <1>2, <2>2, <3>0 DEF ThenSets
    <3>6. Mod(s, e) # {} => Mod(p, e) # {} \/ Mod(q, e) # {}
      BY <1>2, <3>0 DEF ThenSets
    <3>7. Mod(u, e) # {} => Mod(s, e) # {} \/ Mod(r, e) # {}
      BY <1>2, <3>0 DEF ThenSets
    <3>8. Mod(v, e) # {} => Mod(p, e) # {} \/ Mod(t, e) # {}
      BY <1>2, <3>0 DEF ThenSets
    <3> QED
      BY <3>0, <3>2, <3>3, <3>4, <3>5, <3>6, <3>7, <3>8
  <2> QED
    BY <2>1, <2>2
<1>6. u.deleted \subseteq Entities /\ v.deleted \subseteq Entities
  BY <1>2 DEF Reads
<1>7. u.deleted = v.deleted
  BY <1>5, <1>6
<1> QED
  BY <1>7 DEF s, t, u, v

\* What comes of an output of the first, through the other two.
LEMMA FamilyOfFamily ==
    ASSUME NEW p, NEW q, NEW r, Chained(p, q), Chained(q, r), NEW x \in Outputs(p)
    PROVE  \A y :
             /\ y \in Stand(Then(q, r), x) <=> \E z \in Stand(q, x) : y \in Stand(r, z)
             /\ y \in Gen(Then(q, r), x) <=>
                  \/ \E z \in Gen(q, x) : y \in Gen(r, z) \/ y \in Stand(r, z)
                  \/ \E z \in Stand(q, x) : y \in Gen(r, z)
<1> DEFINE t == Then(q, r)
<1>0. p \in Records /\ q \in Records /\ r \in Records /\ x \notin Outputs(q)
  BY DEF Chained
<1>1. ThenNames(q, r, t) /\ ThenSets(q, r, t) /\ Reads(p) /\ Reads(q) /\ Reads(r)
  BY <1>0, ThenIsNamed, ThenListsSets, RecordReads
<1>2. x \in Entities /\ x \in Origins
  BY <1>0, <1>1 DEF Reads, Origins
<1>3. Consumed(t, x) <=> Consumed(q, x) \/ Consumed(r, x)
  BY <1>0, <1>1, <1>2 DEF ThenNames
<1> HIDE DEF t
<1>4. Consumed(q, x) => Gen(r, x) = {} /\ Mod(r, x) = {}
  BY <1>1, <1>2 DEF Chained, Reads
<1>5. ~ Consumed(q, x) => Mod(q, x) = {}
  BY <1>1, <1>2 DEF Reads
<1>6. \A y : y \in Mod(t, x) <=> (\E z \in Mod(q, x) : y \in Stand(r, z)) \/ y \in Mod(r, x)
  BY <1>0, <1>1, <1>2 DEF ThenSets
<1>7. \A y : y \in Gen(t, x) <=> \/ \E z \in Gen(q, x) : y \in Gen(r, z) \/ y \in Stand(r, z)
                                 \/ \E z \in Mod(q, x) : y \in Gen(r, z)
                                 \/ y \in Gen(r, x)
  BY <1>0, <1>1, <1>2 DEF ThenSets
<1>8. \A y : /\ y \in Stand(t, x) <=> y \in Mod(t, x) \/ (y = x /\ ~ Consumed(t, x))
             /\ y \in Stand(q, x) <=> y \in Mod(q, x) \/ (y = x /\ ~ Consumed(q, x))
             /\ y \in Stand(r, x) <=> y \in Mod(r, x) \/ (y = x /\ ~ Consumed(r, x))
  BY DEF Stand
<1>9. ASSUME NEW y
      PROVE  y \in Stand(t, x) <=> \E z \in Stand(q, x) : y \in Stand(r, z)
  <2>1. CASE Consumed(q, x)
    BY <1>3, <1>4, <1>6, <1>8, <2>1
  <2>2. CASE ~ Consumed(q, x)
    BY <1>3, <1>5, <1>6, <1>8, <2>2
  <2> QED
    BY <2>1, <2>2
<1>10. ASSUME NEW y
       PROVE  y \in Gen(t, x) <=>
                  \/ \E z \in Gen(q, x) : y \in Gen(r, z) \/ y \in Stand(r, z)
                  \/ \E z \in Stand(q, x) : y \in Gen(r, z)
  <2>1. CASE Consumed(q, x)
    BY <1>4, <1>7, <1>8, <2>1
  <2>2. CASE ~ Consumed(q, x)
    BY <1>5, <1>7, <1>8, <2>2
  <2> QED
    BY <2>1, <2>2
<1> QED
  BY <1>9, <1>10 DEF t

LEMMA GeneratedAgree ==
    ASSUME NEW p, NEW q, NEW r, Chained(p, q), Chained(p, r), Chained(q, r), NEW o \in Origins
    PROVE  Gen(Then(Then(p, q), r), o) = Gen(Then(p, Then(q, r)), o)
<1> DEFINE s == Then(p, q)
           t == Then(q, r)
           u == Then(s, r)
           v == Then(p, t)
<1>0. ThenNames(p, q, s) /\ ThenNames(q, r, t) /\ ThenNames(s, r, u) /\ ThenNames(p, t, v)
  BY ThenIsChained, ThenIsNamed
<1>1. /\ p \in Records /\ q \in Records /\ r \in Records
      /\ s \in Records /\ t \in Records /\ u \in Records /\ v \in Records
  BY <1>0 DEF Chained, ThenNames
<1>2. /\ ThenSets(p, q, s) /\ ThenSets(q, r, t) /\ ThenSets(s, r, u) /\ ThenSets(p, t, v)
      /\ Reads(p) /\ Reads(u) /\ Reads(v)
  BY <1>1, ThenListsSets, RecordReads
<1>3. CASE o \in Outputs(p)
  <2>1. ~ Accounted(u, o) /\ ~ Accounted(v, o) /\ o \in Entities
    BY <1>2, <1>3, NotNamedByBoth DEF Reads
  <2>2. Gen(u, o) = {} /\ Gen(v, o) = {}
    BY <1>2, <2>1 DEF Reads
  <2> QED
    BY <2>2
<1>4. CASE o \notin Outputs(p)
  <2>1. o \in Outputs(s) <=> o \in Outputs(q)
    BY <1>0, <1>4 DEF ThenNames
  <2>2. ASSUME NEW w \in Gen(p, o) \cup Mod(p, o), NEW y
        PROVE  /\ y \in Stand(t, w) <=> \E z \in Stand(q, w) : y \in Stand(r, z)
               /\ y \in Gen(t, w) <=> \/ \E z \in Gen(q, w) : y \in Gen(r, z) \/ y \in Stand(r, z)
                                      \/ \E z \in Stand(q, w) : y \in Gen(r, z)
    <3>1. w \in Outputs(p)
      BY <1>2 DEF Reads
    <3> QED
      BY <3>1, FamilyOfFamily
  <2> HIDE DEF s, t, u, v
  <2>3. \A y : y \in Mod(s, o) <=> (\E x \in Mod(p, o) : y \in Stand(q, x)) \/ y \in Mod(q, o)
    BY <1>2, <1>4 DEF ThenSets
  <2>4. \A y : y \in Gen(s, o) <=> \/ \E x \in Gen(p, o) : y \in Gen(q, x) \/ y \in Stand(q, x)
                                   \/ \E x \in Mod(p, o) : y \in Gen(q, x)
                                   \/ y \in Gen(q, o)
    BY <1>2, <1>4 DEF ThenSets
  <2>5. \A y : y \in Gen(t, o) <=> \/ \E x \in Gen(q, o) : y \in Gen(r, x) \/ y \in Stand(r, x)
                                   \/ \E x \in Mod(q, o) : y \in Gen(r, x)
                                   \/ o \notin Outputs(q) /\ y \in Gen(r, o)
    BY <1>2 DEF ThenSets
  <2>6. \A y : y \in Gen(u, o) <=> \/ \E x \in Gen(s, o) : y \in Gen(r, x) \/ y \in Stand(r, x)
                                   \/ \E x \in Mod(s, o) : y \in Gen(r, x)
                                   \/ o \notin Outputs(q) /\ y \in Gen(r, o)
    BY <1>2, <2>1 DEF ThenSets
  <2>7. \A y : y \in Gen(v, o) <=> \/ \E x \in Gen(p, o) : y \in Gen(t, x) \/ y \in Stand(t, x)
                                   \/ \E x \in Mod(p, o) : y \in Gen(t, x)
                                   \/ y \in Gen(t, o)
    BY <1>2, <1>4 DEF ThenSets
  <2>8. ASSUME NEW y \in Gen(u, o) PROVE y \in Gen(v, o)
    <3>1. CASE \E x \in Gen(s, o) : y \in Gen(r, x) \/ y \in Stand(r, x)
      BY <2>2, <2>4, <2>5, <2>7, <3>1, Zenon
    <3>2. CASE \E x \in Mod(s, o) : y \in Gen(r, x)
      BY <2>2, <2>3, <2>5, <2>7, <3>2, Zenon
    <3>3. CASE o \notin Outputs(q) /\ y \in Gen(r, o)
      BY <2>5, <2>7, <3>3, Zenon
    <3> QED
      BY <2>6, <3>1, <3>2, <3>3, Zenon
  <2>9. ASSUME NEW y \in Gen(v, o) PROVE y \in Gen(u, o)
    <3>1. ASSUME NEW w \in Gen(p, o), y \in Gen(t, w) \/ y \in Stand(t, w)
          PROVE  y \in Gen(u, o)
      <4>1. w \in Gen(p, o) \cup Mod(p, o)
        OBVIOUS
      <4>2. \/ \E z \in Gen(q, w) : y \in Gen(r, z) \/ y \in Stand(r, z)
            \/ \E z \in Stand(q, w) : y \in Gen(r, z) \/ y \in Stand(r, z)
        BY <2>2, <3>1, <4>1
      <4>3. \E z \in Gen(s, o) : y \in Gen(r, z) \/ y \in Stand(r, z)
        BY <2>4, <4>2
      <4> QED
        BY <2>6, <4>3, Zenon
    <3>2. ASSUME NEW w \in Mod(p, o), y \in Gen(t, w)
          PROVE  y \in Gen(u, o)
      <4>1. w \in Gen(p, o) \cup Mod(p, o)
        OBVIOUS
      <4>2. \/ \E z \in Gen(q, w) : y \in Gen(r, z) \/ y \in Stand(r, z)
            \/ \E z \in Stand(q, w) : y \in Gen(r, z)
        BY <2>2, <3>2, <4>1
      <4>3. \/ \E z \in Gen(s, o) : y \in Gen(r, z) \/ y \in Stand(r, z)
            \/ \E z \in Mod(s, o) : y \in Gen(r, z)
        BY <2>3, <2>4, <4>2
      <4> QED
        BY <2>6, <4>3, Zenon
    <3>3. CASE y \in Gen(t, o)
      BY <2>3, <2>4, <2>5, <2>6, <3>3, Zenon
    <3> QED
      BY <2>7, <3>1, <3>2, <3>3, Zenon
  <2> QED
    BY <2>8, <2>9 DEF s, t, u, v
<1> QED
  BY <1>3, <1>4

\* The chains there are: up to three records, in each bracketing.
LEMMA ChainsAre ==
    ASSUME NEW x \in Chains
    PROVE  /\ rec = Empty
           /\ \/ Len(hist) = 1 /\ x = Rec(1)
              \/ Len(hist) = 2 /\ x = Then(Rec(1), Rec(2))
              \/ Len(hist) = 3 /\ \/ x = Then(Then(Rec(1), Rec(2)), Rec(3))
                                  \/ x = Then(Rec(1), Then(Rec(2), Rec(3)))
<1>1. CASE rec # Empty
  <2>1. Chains = {}
    BY <1>1, Zenon DEF Chains
  <2> QED
    BY <2>1
<1>2. CASE rec = Empty /\ Len(hist) = 1
  <2>1. Chains = {Rec(1)}
    BY <1>2 DEF Chains
  <2> QED
    BY <1>2, <2>1
<1>3. CASE rec = Empty /\ Len(hist) = 2
  <2>1. Chains = {Then(Rec(1), Rec(2))}
    BY <1>3 DEF Chains
  <2> QED
    BY <1>3, <2>1
<1>4. CASE rec = Empty /\ Len(hist) = 3
  <2>1. Chains = {Then(Then(Rec(1), Rec(2)), Rec(3)), Then(Rec(1), Then(Rec(2), Rec(3)))}
    BY <1>4 DEF Chains
  <2> QED
    BY <1>4, <2>1
<1>5. CASE rec = Empty /\ Len(hist) # 1 /\ Len(hist) # 2 /\ Len(hist) # 3
  <2>1. Chains = {}
    BY <1>5, Zenon DEF Chains
  <2> QED
    BY <2>1
<1> QED
  BY <1>1, <1>2, <1>3, <1>4, <1>5

LEMMA ThreeChained ==
    ASSUME ProvenanceAssumption, ChainInv, Len(hist) = 3
    PROVE  Chained(Rec(1), Rec(2)) /\ Chained(Rec(1), Rec(3)) /\ Chained(Rec(2), Rec(3))
<1> DEFINE i == 1
           j == 2
           k == 3
<1>1. i \in 1 .. Len(hist) /\ j \in 1 .. Len(hist) /\ k \in 1 .. Len(hist) /\ i < j /\ i < k /\ j < k
  OBVIOUS
<1> HIDE DEF i, j, k
<1>2. Chained(Rec(i), Rec(j)) /\ Chained(Rec(i), Rec(k)) /\ Chained(Rec(j), Rec(k))
  BY <1>1, RecordsAreChained
<1> QED
  BY <1>2 DEF i, j, k

LEMMA TwoChained ==
    ASSUME ProvenanceAssumption, ChainInv, Len(hist) = 2
    PROVE  Chained(Rec(1), Rec(2))
<1> DEFINE i == 1
           j == 2
<1>1. i \in 1 .. Len(hist) /\ j \in 1 .. Len(hist) /\ i < j
  OBVIOUS
<1> HIDE DEF i, j
<1>2. Chained(Rec(i), Rec(j))
  BY <1>1, RecordsAreChained
<1> QED
  BY <1>2 DEF i, j

LEMMA SameModified ==
    ASSUME NEW u \in Records, NEW v \in Records,
           \A o \in Origins : u.modified[o] = v.modified[o]
    PROVE  u.modified = v.modified
<1>1. u.modified \in [Origins -> Seq(Entities)] /\ v.modified \in [Origins -> Seq(Entities)]
  BY DEF Records
<1> DEFINE f == u.modified
           g == v.modified
<1>2. \A o \in Origins : f[o] = g[o]
  OBVIOUS
<1> HIDE DEF f, g
<1>3. f \in [Origins -> Seq(Entities)] /\ g \in [Origins -> Seq(Entities)]
  BY <1>1 DEF f, g
<1>4. f = g
  BY <1>2, <1>3
<1> QED
  BY <1>4 DEF f, g

\* `then` is associative over a chain: with any entities, roles and operations,
\* both bracketings of three records list the same pieces in the same order,
\* delete the same and generate the same - that in an order of their own.
THEOREM BracketingsAgree ==
    ASSUME ProvenanceAssumption
    PROVE  Spec => []ChainsAgree
<1>1. ChainInv => ChainsAgree
  <2> SUFFICES ASSUME ChainInv, NEW x \in Chains, NEW y \in Chains
               PROVE  /\ x.modified = y.modified /\ x.deleted = y.deleted
                      /\ \A o \in Origins : ToSet(x.generated[o]) = ToSet(y.generated[o])
    BY Zenon DEF ChainsAgree
  <2>1. CASE x = y
    BY <2>1
  <2>2. CASE x # y
    <3> DEFINE p == Rec(1)
               q == Rec(2)
               r == Rec(3)
               u == Then(Then(p, q), r)
               v == Then(p, Then(q, r))
    <3>1. Len(hist) = 3 /\ ((x = u /\ y = v) \/ (x = v /\ y = u))
      <4> DEFINE s == Then(p, q)
      <4>1. \/ Len(hist) = 1 /\ x = p
            \/ Len(hist) = 2 /\ x = s
            \/ Len(hist) = 3 /\ (x = u \/ x = v)
        BY ChainsAre, Zenon
      <4>2. \/ Len(hist) = 1 /\ y = p
            \/ Len(hist) = 2 /\ y = s
            \/ Len(hist) = 3 /\ (y = u \/ y = v)
        BY ChainsAre, Zenon
      <4> DEFINE N == Len(hist)
      <4>3. N \in Nat
        BY LenProperties DEF ChainInv
      <4> HIDE DEF N, p, s, u, v
      <4>4. (N = 1 => N # 2) /\ (N = 1 => N # 3) /\ (N = 2 => N # 3)
        BY <4>3
      <4>5. \/ N = 1 /\ x = p
            \/ N = 2 /\ x = s
            \/ N = 3 /\ (x = u \/ x = v)
        BY <4>1, Zenon DEF N
      <4>6. \/ N = 1 /\ y = p
            \/ N = 2 /\ y = s
            \/ N = 3 /\ (y = u \/ y = v)
        BY <4>2, Zenon DEF N
      <4>7. N = 3 /\ ((x = u /\ y = v) \/ (x = v /\ y = u))
        BY <2>2, <4>4, <4>5, <4>6
      <4> QED
        BY <4>7 DEF N
    <3>2. Chained(p, q) /\ Chained(p, r) /\ Chained(q, r)
      BY <3>1, ThreeChained
    <3>3. u \in Records /\ v \in Records
      BY <3>2, ThenKeeps DEF Chained
    <3>4. \A o \in Origins : u.modified[o] = v.modified[o]
      BY <3>2, ModifiedAgree
    <3>5. u.deleted = v.deleted
      BY <3>2, DeletedAgree
    <3>6. \A o \in Origins : ToSet(u.generated[o]) = ToSet(v.generated[o])
      BY <3>2, GeneratedAgree DEF Gen
    <3> HIDE DEF u, v
    <3>7. u.modified = v.modified
      BY <3>3, <3>4, SameModified
    <3> QED
      BY <3>1, <3>5, <3>6, <3>7
  <2> QED
    BY <2>1, <2>2
<1> QED
  BY <1>1, ChainIsInvariant, PTL

-----------------------------------------------------------------------------
(***************************************************************************)
(* Nothing intermediate is named, and the audit survives composition.      *)
(***************************************************************************)

LEMMA OwnNotNamed ==
    ASSUME ProvenanceAssumption, ChainInv, NEW k \in 1 .. Len(hist)
    PROVE  /\ Rec(k) \in Records /\ Clean(Rec(k))
           /\ \A e \in Outputs(Rec(k)) : ~ Accounted(Rec(k), e) /\ e \notin First
<1>0. Len(hist) \in Nat /\ \A i \in 1 .. Len(hist) : Fits(hist, i, hist[i].rec)
  BY LenProperties DEF ChainInv
<1>1. Fits(hist, k, Rec(k)) /\ Rec(k) \in Records /\ Clean(Rec(k))
  BY <1>0 DEF Rec, Fits
<1>2. ASSUME NEW e \in Outputs(Rec(k)) PROVE ~ Accounted(Rec(k), e) /\ e \notin First
  <2>1. e \in Entities
    BY <1>1, RecordReads DEF Reads
  <2>2. k \in DOMAIN New /\ e \in New[k]
    BY <1>1 DEF Fits
  <2>3. k <= k
    BY <1>0
  <2> QED
    BY <1>0, <2>1, <2>2, <2>3, NotNamedBefore DEF Rec
<1> QED
  BY <1>1, <1>2

\* x names nothing made on the way, and lists only what none consumed.
Leaves(x, P) ==
    /\ \A z \in P : \A e \in Outputs(z) : ~ Accounted(x, e)
    /\ \A y \in Outputs(x) : /\ \E z \in P : y \in Outputs(z)
                             /\ \A z \in P : ~ Consumed(z, y)

LEMMA TwoLeave ==
    ASSUME NEW p, NEW q, Chained(p, q)
    PROVE  Leaves(Then(p, q), {p, q})
<1> DEFINE s == Then(p, q)
<1>1. ThenNames(p, q, s)
  BY ThenIsNamed
<1>2. Reads(p) /\ Reads(q)
  BY RecordReads DEF Chained
<1>3. \A x, e : Consumed(x, e) => Accounted(x, e)
  BY DEF Consumed, Accounted, Recorded
<1> HIDE DEF s
<1>4. ASSUME NEW e \in Outputs(p) PROVE ~ Accounted(s, e)
  BY <1>1 DEF ThenNames
<1>5. ASSUME NEW e \in Outputs(q) PROVE ~ Accounted(s, e)
  <2>1. e \in Entities
    BY <1>2 DEF Reads
  <2> QED
    BY <1>1, <2>1 DEF ThenNames, Chained
<1>6. ASSUME NEW y \in Outputs(s)
      PROVE  /\ y \in Outputs(p) \/ y \in Outputs(q)
             /\ ~ Consumed(p, y) /\ ~ Consumed(q, y)
  BY <1>1, <1>3 DEF ThenNames, Chained
<1> QED
  BY <1>4, <1>5, <1>6 DEF Leaves, s

LEMMA ThreeLeave ==
    ASSUME NEW p, NEW q, NEW r, Chained(p, q), Chained(p, r), Chained(q, r)
    PROVE  /\ Leaves(Then(Then(p, q), r), {p, q, r})
           /\ Leaves(Then(p, Then(q, r)), {p, q, r})
<1> DEFINE s == Then(p, q)
           t == Then(q, r)
           u == Then(s, r)
           v == Then(p, t)
<1>1. Chained(s, r) /\ Chained(p, t)
  BY ThenIsChained
<1>2. ThenNames(p, q, s) /\ ThenNames(q, r, t)
  BY ThenIsNamed
<1>3. Leaves(s, {p, q}) /\ Leaves(t, {q, r}) /\ Leaves(u, {s, r}) /\ Leaves(v, {p, t})
  <2>1. Leaves(s, {p, q}) /\ Leaves(t, {q, r})
    BY TwoLeave
  <2>2. Leaves(u, {s, r})
    BY <1>1, TwoLeave
  <2>3. Leaves(v, {p, t})
    BY <1>1, TwoLeave
  <2> QED
    BY <2>1, <2>2, <2>3
<1>4. \A e \in Outputs(p) : ~ Accounted(u, e) /\ ~ Accounted(v, e)
  BY NotNamedByBoth
<1>5. Reads(p) /\ Reads(q) /\ Reads(r) /\ Reads(s) /\ Reads(t)
  BY <1>2, RecordReads DEF ThenNames, Chained
<1>6. ThenNames(s, r, u) /\ ThenNames(p, t, v)
  BY <1>1, ThenIsNamed
<1>7. \A x, e : Consumed(x, e) => Accounted(x, e)
  BY DEF Consumed, Accounted, Recorded
<1> HIDE DEF s, t, u, v
<1>8. \A e \in Outputs(q) : ~ Accounted(u, e) /\ ~ Accounted(v, e)
  <2> SUFFICES ASSUME NEW e \in Outputs(q) PROVE ~ Accounted(u, e) /\ ~ Accounted(v, e)
    OBVIOUS
  <2>1. e \in Entities /\ e \in Outputs(s) /\ e \notin Outputs(p)
    BY <1>2, <1>5 DEF Reads, ThenNames, Chained
  <2>2. ~ Accounted(u, e)
    BY <1>6, <2>1 DEF ThenNames
  <2>3. ~ Accounted(p, e) /\ ~ Accounted(t, e)
    BY <1>2 DEF ThenNames, Chained
  <2>4. ~ Accounted(v, e)
    BY <1>6, <2>1, <2>3 DEF ThenNames
  <2> QED
    BY <2>2, <2>4
<1>9. \A e \in Outputs(r) : ~ Accounted(u, e) /\ ~ Accounted(v, e)
  <2> SUFFICES ASSUME NEW e \in Outputs(r) PROVE ~ Accounted(u, e) /\ ~ Accounted(v, e)
    OBVIOUS
  <2>1. e \in Entities /\ e \in Outputs(t)
    BY <1>2, <1>5 DEF Reads, ThenNames
  <2>2. ~ Accounted(u, e)
    BY <1>3 DEF Leaves
  <2>3. ~ Accounted(v, e)
    BY <1>3, <2>1 DEF Leaves
  <2> QED
    BY <2>2, <2>3
<1>10. ASSUME NEW y \in Outputs(u)
       PROVE  /\ y \in Outputs(p) \/ y \in Outputs(q) \/ y \in Outputs(r)
              /\ ~ Consumed(p, y) /\ ~ Consumed(q, y) /\ ~ Consumed(r, y)
  <2>1. CASE y \in Outputs(s) /\ ~ Consumed(r, y)
    BY <1>3, <2>1 DEF Leaves
  <2>2. CASE y \in Outputs(r)
    BY <1>7, <2>2 DEF Chained
  <2> QED
    BY <1>6, <2>1, <2>2 DEF ThenNames
<1>11. ASSUME NEW y \in Outputs(v)
       PROVE  /\ y \in Outputs(p) \/ y \in Outputs(q) \/ y \in Outputs(r)
              /\ ~ Consumed(p, y) /\ ~ Consumed(q, y) /\ ~ Consumed(r, y)
  <2>1. CASE y \in Outputs(p) /\ ~ Consumed(t, y)
    <3>1. y \in Entities /\ y \notin Outputs(q)
      BY <1>5, <2>1 DEF Reads, Chained
    <3>2. ~ Consumed(q, y) /\ ~ Consumed(r, y)
      BY <1>2, <2>1, <3>1 DEF ThenNames
    <3> QED
      BY <1>7, <2>1, <3>2 DEF Chained
  <2>2. CASE y \in Outputs(t)
    <3>1. /\ y \in Outputs(q) \/ y \in Outputs(r)
          /\ ~ Consumed(q, y) /\ ~ Consumed(r, y)
      BY <1>3, <2>2 DEF Leaves
    <3> QED
      BY <1>7, <3>1 DEF Chained
  <2> QED
    BY <1>6, <2>1, <2>2 DEF ThenNames
<1>12. Leaves(u, {p, q, r})
  BY <1>4, <1>8, <1>9, <1>10 DEF Leaves
<1>13. Leaves(v, {p, q, r})
  BY <1>4, <1>8, <1>9, <1>11 DEF Leaves
<1> QED
  BY <1>12, <1>13 DEF s, t, u, v

\* A record that passes the audit of A against B but for inputs in X, names
\* only A and makes nothing of A; of A, what it only generates from is in X.
Sound(A, B, r, X) ==
    /\ A \subseteq Entities /\ r \in Records
    /\ \A e \in Entities : Accounted(r, e) => e \in A
    /\ \A e \in A : e \notin Outputs(r)
    /\ \A e \in B : (e \in A /\ ~ Accounted(r, e)) \/ e \in Outputs(r)
    /\ \A e \in A : ~ (e \in r.deleted /\ Mod(r, e) # {})
    /\ \A e \in A : e \notin B /\ ~ Accounted(r, e) => e \in X
    /\ \A e \in A : Accounted(r, e) /\ ~ Consumed(r, e) => e \in X

LEMMA SoundThen ==
    ASSUME NEW p, NEW q, NEW A, NEW B, NEW C, NEW X, Chained(p, q),
           Sound(A, B, p, X), Sound(B, C, q, X), A \cap Outputs(q) = {}
    PROVE  Sound(A, C, Then(p, q), X)
<1> DEFINE s == Then(p, q)
<1>1. ThenNames(p, q, s) /\ s \in Records /\ ThenSets(p, q, s)
  BY ThenIsNamed, ThenListsSets DEF Chained, ThenNames
<1>2. Reads(p) /\ Reads(q) /\ Reads(s)
  BY <1>1, RecordReads DEF Chained
<1> HIDE DEF s
<1>3. ASSUME NEW e \in Entities, Accounted(s, e) PROVE e \in A
  <2>1. e \notin Outputs(p) /\ (Accounted(p, e) \/ Accounted(q, e))
    BY <1>1, <1>3 DEF ThenNames
  <2> QED
    BY <2>1 DEF Sound
<1>4. ASSUME NEW e \in A PROVE e \notin Outputs(s) /\ e \notin Outputs(p) /\ e \in Entities
  BY <1>1 DEF ThenNames, Sound
<1>5. ASSUME NEW e \in C PROVE (e \in A /\ ~ Accounted(s, e)) \/ e \in Outputs(s)
  <2>1. CASE e \in Outputs(q)
    BY <1>1, <2>1 DEF ThenNames
  <2>2. CASE e \in B /\ ~ Accounted(q, e) /\ e \in Outputs(p)
    <3>1. ~ Consumed(q, e)
      BY <2>2 DEF Consumed, Accounted, Recorded
    <3> QED
      BY <1>1, <2>2, <3>1 DEF ThenNames
  <2>3. CASE e \in B /\ ~ Accounted(q, e) /\ e \in A /\ ~ Accounted(p, e)
    BY <1>1, <1>4, <2>3 DEF ThenNames
  <2> QED
    BY <2>1, <2>2, <2>3 DEF Sound
<1>6. ASSUME NEW e \in A, e \in s.deleted, Mod(s, e) # {} PROVE FALSE
  <2>0. e \in Entities /\ e \in Origins /\ e \notin Outputs(p)
    BY <1>4 DEF Origins
  <2>1. e \in p.deleted \/ e \in q.deleted
    BY <1>1, <1>6, <2>0 DEF ThenSets
  <2>2. Mod(p, e) # {} \/ Mod(q, e) # {}
    BY <1>1, <1>6, <2>0 DEF ThenSets
  <2>3. ~ (Accounted(q, e) /\ Consumed(p, e))
    BY <2>0 DEF Chained
  <2>4. /\ e \in p.deleted \/ Mod(p, e) # {} => Consumed(p, e)
        /\ e \in q.deleted \/ Mod(q, e) # {} => Accounted(q, e)
    BY <1>2, <2>0 DEF Reads
  <2>5. (e \in p.deleted /\ Mod(p, e) # {}) \/ (e \in q.deleted /\ Mod(q, e) # {})
    BY <2>1, <2>2, <2>3, <2>4
  <2>6. ~ (e \in p.deleted /\ Mod(p, e) # {})
    BY DEF Sound
  <2>7. ~ (e \in q.deleted /\ Mod(q, e) # {})
    BY <2>0, <2>4 DEF Sound
  <2> QED
    BY <2>5, <2>6, <2>7
<1>7. ASSUME NEW e \in A
      PROVE  /\ e \notin C /\ ~ Accounted(s, e) => e \in X
             /\ Accounted(s, e) /\ ~ Consumed(s, e) => e \in X
  <2>0. e \in Entities /\ e \notin Outputs(p)
    BY <1>4
  <2>1. ~ Consumed(s, e) => ~ Consumed(p, e) /\ ~ Consumed(q, e)
    BY <1>1, <2>0 DEF ThenNames
  <2>2. Consumed(s, e) => Accounted(s, e)
    BY DEF Consumed, Accounted, Recorded
  <2>3. Accounted(s, e) => Accounted(p, e) \/ Accounted(q, e)
    BY <1>1, <2>0 DEF ThenNames
  <2>4. Accounted(p, e) /\ ~ Consumed(p, e) => e \in X
    BY DEF Sound
  <2>5. Accounted(q, e) /\ ~ Consumed(q, e) => e \in X
    BY <2>0 DEF Sound
  <2>6. e \notin B /\ ~ Accounted(p, e) => e \in X
    BY DEF Sound
  <2>7. e \in B /\ e \notin C /\ ~ Accounted(q, e) => e \in X
    BY DEF Sound
  <2> QED
    BY <2>1, <2>2, <2>3, <2>4, <2>5, <2>6, <2>7
<1>8. A \subseteq Entities
  BY DEF Sound
<1> QED
  BY <1>1, <1>3, <1>4, <1>5, <1>6, <1>7, <1>8 DEF Sound, s

\* The audit as what Sound says of one record, and back.
LEMMA AuditReads ==
    ASSUME NEW r \in Records, NEW A \in SUBSET Entities, NEW B
    PROVE  /\ NoOrigin(A, B, r) = {} <=>
                \A e \in B : (e \in A /\ ~ Accounted(r, e)) \/ e \in Outputs(r)
           /\ DeletedAndModified(A, r) = {} <=>
                \A e \in A : ~ (e \in r.deleted /\ Mod(r, e) # {})
           /\ \A e \in A : GeneratedOnly(r, e) <=> Accounted(r, e) /\ ~ Consumed(r, e)
<1>1. Reads(r)
  BY RecordReads
<1>2. \A e : OriginsOf(r, e) = {} <=> e \notin Outputs(r)
  BY <1>1 DEF Reads, OriginsOf, Gen, Mod
<1>3. NoOrigin(A, B, r) = {} <=>
                \A e \in B : (e \in A /\ ~ Accounted(r, e)) \/ e \in Outputs(r)
  BY <1>2 DEF NoOrigin
<1>4. \A e \in A : r.modified[e] # <<>> <=> Mod(r, e) # {}
  BY <1>1 DEF Reads, Origins
<1>5. DeletedAndModified(A, r) = {} <=> \A e \in A : ~ (e \in r.deleted /\ Mod(r, e) # {})
  BY <1>4 DEF DeletedAndModified
<1>6. \A e \in A : GeneratedOnly(r, e) <=> Accounted(r, e) /\ ~ Consumed(r, e)
  BY DEF GeneratedOnly, Accounted, Consumed, Recorded
<1> QED
  BY <1>3, <1>5, <1>6

Spared == {e \in Entities : \E k \in DOMAIN hist : GeneratedOnly(Rec(k), e)}

LEMMA InLineIsSound ==
    ASSUME ProvenanceAssumption, ChainInv, InLine, NEW k \in 1 .. Len(hist),
           \A e \in hist[k].ins : e \notin Outputs(Rec(k))
    PROVE  Sound(hist[k].ins, hist[k].out, Rec(k), Spared)
<1> DEFINE A == hist[k].ins
           B == hist[k].out
           r == Rec(k)
<1>0. k \in DOMAIN hist /\ hist[k] \in Operations
  BY LenProperties DEF ChainInv
<1>1. r \in Records /\ A \subseteq Entities
  BY <1>0 DEF Operations, Rec
<1>2. (\A e \in Entities : Accounted(r, e) => e \in A) /\ Audit(A, B, r)
  BY <1>0 DEF InLine
<1>3. /\ \A e \in B : (e \in A /\ ~ Accounted(r, e)) \/ e \in Outputs(r)
      /\ \A e \in A : ~ (e \in r.deleted /\ Mod(r, e) # {})
      /\ \A e \in A : GeneratedOnly(r, e) <=> Accounted(r, e) /\ ~ Consumed(r, e)
  <2> HIDE DEF A, B, r
  <2> QED
    BY <1>1, <1>2, AuditReads DEF Audit
<1>4. \A e \in A : e \notin B /\ ~ Accounted(r, e) => e \in Spared
  BY <1>2 DEF Audit, Unaccounted
<1>5. \A e \in A : Accounted(r, e) /\ ~ Consumed(r, e) => e \in Spared
  BY <1>0, <1>1, <1>3 DEF Spared
<1>6. \A e \in A : e \notin Outputs(r)
  OBVIOUS
<1> HIDE DEF A, B, r
<1>7. Sound(A, B, r, Spared)
  BY <1>1, <1>2, <1>3, <1>4, <1>5, <1>6, Zenon DEF Sound
<1> QED
  BY <1>7 DEF A, B, r

\* What an operation is given: first, or made before it.
LEMMA GivenIsOld ==
    ASSUME ProvenanceAssumption, ChainInv
    PROVE  /\ 1 \in 1 .. Len(hist) => hist[1].ins = First
           /\ 2 \in 1 .. Len(hist) => /\ hist[2].ins = hist[1].out
                                      /\ hist[2].ins \subseteq First \cup Outputs(Rec(1))
           /\ 3 \in 1 .. Len(hist) => /\ hist[3].ins = hist[2].out
                                      /\ hist[3].ins \subseteq First \cup Outputs(Rec(1))
                                                                \cup Outputs(Rec(2))
<1>0. Len(hist) \in Nat
  BY LenProperties DEF ChainInv
<1>1. ASSUME NEW k \in 1 .. Len(hist)
      PROVE  /\ hist[k].ins = IF k = 1 THEN First ELSE hist[k - 1].out
             /\ hist[k].out \subseteq Outputs(Rec(k)) \cup hist[k].ins
  BY DEF ChainInv, Returned, Rec
<1>2. 1 \in 1 .. Len(hist) => hist[1].ins = First /\ hist[1].out \subseteq Outputs(Rec(1)) \cup First
  BY <1>1
<1>3. 2 \in 1 .. Len(hist) => /\ hist[2].ins = hist[1].out
                              /\ hist[2].out \subseteq Outputs(Rec(2)) \cup hist[2].ins
  <2> SUFFICES ASSUME 2 \in 1 .. Len(hist)
               PROVE  /\ hist[2].ins = hist[1].out
                      /\ hist[2].out \subseteq Outputs(Rec(2)) \cup hist[2].ins
    OBVIOUS
  <2> DEFINE k == 2
  <2>1. k \in 1 .. Len(hist) /\ k # 1 /\ k - 1 = 1
    OBVIOUS
  <2> HIDE DEF k
  <2>2. hist[k].ins = hist[1].out /\ hist[k].out \subseteq Outputs(Rec(k)) \cup hist[k].ins
    BY <1>1, <2>1
  <2> QED
    BY <2>2 DEF k
<1>4. 3 \in 1 .. Len(hist) => hist[3].ins = hist[2].out
  <2> SUFFICES ASSUME 3 \in 1 .. Len(hist) PROVE hist[3].ins = hist[2].out
    OBVIOUS
  <2> DEFINE k == 3
  <2>1. k \in 1 .. Len(hist) /\ k # 1 /\ k - 1 = 2
    OBVIOUS
  <2> HIDE DEF k
  <2>2. hist[k].ins = hist[2].out
    BY <1>1, <2>1
  <2> QED
    BY <2>2 DEF k
<1>5. /\ 2 \in 1 .. Len(hist) => 1 \in 1 .. Len(hist)
      /\ 3 \in 1 .. Len(hist) => 2 \in 1 .. Len(hist)
  BY <1>0
<1> QED
  BY <1>2, <1>3, <1>4, <1>5

\* A chain in line composes to a record that is sound from its first input to
\* its last output.
LEMMA ChainIsSound ==
    ASSUME ProvenanceAssumption, ChainInv, InLine, NEW x \in Chains
    PROVE  Sound(First, hist[Len(hist)].out, x, Spared)
<1> DEFINE p == Rec(1)
           q == Rec(2)
           r == Rec(3)
           A == First
           B == hist[1].out
           C == hist[2].out
           D == hist[3].out
<1>0. Len(hist) \in Nat
  BY LenProperties DEF ChainInv
<1>1. \A k \in 1 .. Len(hist) : \A e \in Outputs(Rec(k)) : e \notin First
  BY OwnNotNamed
<1>2. 1 \in 1 .. Len(hist) => Sound(A, B, p, Spared)
  <2> SUFFICES ASSUME 1 \in 1 .. Len(hist) PROVE Sound(A, B, p, Spared)
    OBVIOUS
  <2> DEFINE k == 1
  <2>1. k \in 1 .. Len(hist) /\ hist[k].ins = A
    BY GivenIsOld
  <2> HIDE DEF k
  <2>2. \A e \in hist[k].ins : e \notin Outputs(Rec(k))
    BY <1>1, <2>1
  <2>3. Sound(hist[k].ins, hist[k].out, Rec(k), Spared)
    BY <2>1, <2>2, InLineIsSound
  <2> QED
    BY <2>1, <2>3, Zenon DEF k
<1>3. 2 \in 1 .. Len(hist) /\ Chained(p, q) => Sound(B, C, q, Spared)
  <2> SUFFICES ASSUME 2 \in 1 .. Len(hist), Chained(p, q) PROVE Sound(B, C, q, Spared)
    OBVIOUS
  <2> DEFINE k == 2
  <2>1. k \in 1 .. Len(hist) /\ hist[k].ins = B /\ B \subseteq First \cup Outputs(p)
    BY GivenIsOld
  <2>2. \A e \in Outputs(q) : e \notin Outputs(p)
    BY DEF Chained
  <2>3. q = Rec(k)
    OBVIOUS
  <2> HIDE DEF k, p, q
  <2>4. \A e \in hist[k].ins : e \notin Outputs(Rec(k))
    BY <1>1, <2>1, <2>2, <2>3
  <2>5. Sound(hist[k].ins, hist[k].out, Rec(k), Spared)
    BY <2>1, <2>4, InLineIsSound
  <2> QED
    BY <2>1, <2>5, Zenon DEF k, q
<1>4. 3 \in 1 .. Len(hist) /\ Chained(p, r) /\ Chained(q, r) => Sound(C, D, r, Spared)
  <2> SUFFICES ASSUME 3 \in 1 .. Len(hist), Chained(p, r), Chained(q, r)
               PROVE  Sound(C, D, r, Spared)
    OBVIOUS
  <2> DEFINE k == 3
  <2>1. /\ k \in 1 .. Len(hist) /\ hist[k].ins = C
        /\ C \subseteq First \cup Outputs(p) \cup Outputs(q)
    BY GivenIsOld
  <2>2. \A e \in Outputs(r) : e \notin Outputs(p) /\ e \notin Outputs(q)
    BY DEF Chained
  <2>3. r = Rec(k)
    OBVIOUS
  <2> HIDE DEF k, p, q, r
  <2>4. \A e \in hist[k].ins : e \notin Outputs(Rec(k))
    BY <1>1, <2>1, <2>2, <2>3
  <2>5. Sound(hist[k].ins, hist[k].out, Rec(k), Spared)
    BY <2>1, <2>4, InLineIsSound
  <2> QED
    BY <2>1, <2>5, Zenon DEF k, r
<1>5. CASE Len(hist) = 1 /\ x = p
  BY <1>2, <1>5
<1>6. CASE Len(hist) = 2 /\ x = Then(p, q)
  <2>1. Chained(p, q) /\ 1 \in 1 .. Len(hist) /\ 2 \in 1 .. Len(hist)
    BY <1>6, TwoChained
  <2>2. A \cap Outputs(q) = {}
    BY <1>1, <2>1
  <2>3. Sound(A, B, p, Spared) /\ Sound(B, C, q, Spared)
    BY <1>2, <1>3, <2>1
  <2> HIDE DEF A, B, C, p, q
  <2>4. Sound(A, C, Then(p, q), Spared)
    BY <2>1, <2>2, <2>3, SoundThen
  <2> QED
    BY <1>6, <2>4 DEF A, C
<1>7. CASE Len(hist) = 3 /\ (x = Then(Then(p, q), r) \/ x = Then(p, Then(q, r)))
  <2>1. /\ Chained(p, q) /\ Chained(p, r) /\ Chained(q, r)
        /\ 1 \in 1 .. Len(hist) /\ 2 \in 1 .. Len(hist) /\ 3 \in 1 .. Len(hist)
    BY <1>7, ThreeChained
  <2> DEFINE s == Then(p, q)
             t == Then(q, r)
  <2>2. A \cap Outputs(q) = {} /\ A \cap Outputs(r) = {} /\ B \cap Outputs(r) = {}
          /\ A \cap Outputs(t) = {}
    <3>1. A \cap Outputs(q) = {} /\ A \cap Outputs(r) = {}
      BY <1>1, <2>1
    <3>2. B \subseteq First \cup Outputs(p)
      BY <2>1, GivenIsOld
    <3>3. \A e \in Outputs(r) : e \notin Outputs(p)
      BY <2>1 DEF Chained
    <3>4. ThenNames(q, r, t)
      BY <2>1, ThenIsNamed
    <3> HIDE DEF B, p, q, r, t
    <3>5. B \cap Outputs(r) = {}
      BY <3>1, <3>2, <3>3
    <3>6. A \cap Outputs(t) = {}
      BY <3>1, <3>4 DEF ThenNames
    <3> QED
      BY <3>1, <3>5, <3>6
  <2>3. Sound(A, B, p, Spared) /\ Sound(B, C, q, Spared) /\ Sound(C, D, r, Spared)
    BY <1>2, <1>3, <1>4, <2>1
  <2>4. Chained(s, r) /\ Chained(p, t)
    BY <2>1, ThenIsChained
  <2> HIDE DEF A, B, C, D, p, q, r
  <2>5. Sound(A, C, s, Spared) /\ Sound(B, D, t, Spared)
    <3>1. Sound(A, C, s, Spared)
      BY <2>1, <2>2, <2>3, SoundThen
    <3>2. Sound(B, D, t, Spared)
      BY <2>1, <2>2, <2>3, SoundThen
    <3> QED
      BY <3>1, <3>2
  <2> HIDE DEF s, t
  <2>6. Sound(A, D, Then(s, r), Spared)
    BY <2>2, <2>3, <2>4, <2>5, SoundThen
  <2>7. Sound(A, D, Then(p, t), Spared)
    BY <2>2, <2>3, <2>4, <2>5, SoundThen
  <2> QED
    BY <1>7, <2>6, <2>7, Zenon DEF A, D, s, t
<1> QED
  BY <1>5, <1>6, <1>7, ChainsAre

LEMMA ChainLeaves ==
    ASSUME ProvenanceAssumption, ChainInv, NEW x \in Chains
    PROVE  /\ x \in Records /\ Clean(x)
           /\ Leaves(x, {Rec(k) : k \in 1 .. Len(hist)})
<1> DEFINE p == Rec(1)
           q == Rec(2)
           r == Rec(3)
           P == {Rec(k) : k \in 1 .. Len(hist)}
<1>1. CASE Len(hist) = 1 /\ x = p
  <2> DEFINE k == 1
  <2>1. k \in 1 .. Len(hist) /\ P = {p} /\ x = Rec(k)
    BY <1>1
  <2> HIDE DEF k, P
  <2>2. Rec(k) \in Records /\ Clean(Rec(k)) /\ \A e \in Outputs(Rec(k)) : ~ Accounted(Rec(k), e)
    BY <2>1, OwnNotNamed
  <2>3. \A e \in Outputs(x) : ~ Consumed(x, e)
    BY <2>1, <2>2 DEF Accounted, Consumed, Recorded
  <2>4. Leaves(x, P)
    BY <1>1, <2>1, <2>2, <2>3 DEF Leaves
  <2> QED
    BY <2>1, <2>2, <2>4 DEF P
<1>2. CASE Len(hist) = 2 /\ x = Then(p, q)
  <2>1. Chained(p, q) /\ P = {p, q}
    BY <1>2, TwoChained
  <2>2. p \in Records /\ q \in Records
    BY <2>1 DEF Chained
  <2> HIDE DEF p, q, P
  <2>3. x \in Records /\ Clean(x)
    BY <1>2, <2>2, ThenKeeps DEF Clean
  <2>4. Leaves(x, P)
    BY <1>2, <2>1, TwoLeave
  <2> QED
    BY <2>3, <2>4 DEF P
<1>3. CASE Len(hist) = 3 /\ (x = Then(Then(p, q), r) \/ x = Then(p, Then(q, r)))
  <2>1. Chained(p, q) /\ Chained(p, r) /\ Chained(q, r) /\ P = {p, q, r}
    <3>1. 1 .. Len(hist) = {1, 2, 3}
      BY <1>3
    <3>2. P = {p, q, r}
      BY <3>1
    <3> QED
      BY <1>3, <3>2, ThreeChained
  <2>2. p \in Records /\ q \in Records /\ r \in Records
    BY <2>1 DEF Chained
  <2> HIDE DEF p, q, r, P
  <2>3. Then(p, q) \in Records /\ Then(q, r) \in Records
    BY <2>2, ThenKeeps
  <2>4. x \in Records /\ Clean(x)
    BY <1>3, <2>2, <2>3, ThenKeeps DEF Clean
  <2>5. Leaves(x, P)
    BY <1>3, <2>1, ThreeLeave
  <2> QED
    BY <2>4, <2>5 DEF P
<1> QED
  BY <1>1, <1>2, <1>3, ChainsAre

\* Compositions account for what the chain was given: with any entities, roles
\* and operations, no record and no composition lists an output twice, none
\* names or lists what was made on the way and consumed, and a chain whose
\* every record passes `audit` composes to one that passes it, but for inputs
\* only generated from.
THEOREM CompositionsAccount ==
    ASSUME ProvenanceAssumption
    PROVE  Spec => []ChainsAccount
<1>1. ChainInv => TypeOK
  <2> SUFFICES ASSUME ChainInv, NEW x \in Chains \cup {rec}, NEW o \in Origins
               PROVE  /\ IsInjective(x.generated[o]) /\ IsInjective(x.modified[o])
                      /\ ToSet(x.generated[o]) \cup ToSet(x.modified[o]) \subseteq Entities
    BY Zenon DEF TypeOK
  <2>1. x \in Records /\ Clean(x)
    <3>1. x \in Chains => x \in Records /\ Clean(x)
      BY ChainLeaves
    <3>2. rec \in Records /\ Clean(rec)
      BY DEF ChainInv, Fits
    <3> QED
      BY <3>1, <3>2
  <2> QED
    BY <2>1, RecordReads DEF Clean, Reads, Gen, Mod
<1>2. ChainInv => NothingIntermediate
  <2> SUFFICES ASSUME ChainInv, NEW x \in Chains
               PROVE  (\A e \in Made : ~ Accounted(x, e)) /\ Outputs(x) \subseteq here
    BY Zenon DEF NothingIntermediate
  <2>1. Leaves(x, {Rec(k) : k \in 1 .. Len(hist)})
    BY ChainLeaves
  <2>2. Len(hist) \in Nat /\ DOMAIN hist = 1 .. Len(hist) /\ (Len(hist) + 1) - 1 = Len(hist)
    BY LenProperties DEF ChainInv
  <2>3. \A e \in Made : ~ Accounted(x, e)
    BY <2>1, <2>2 DEF Leaves, Made
  <2>4. ASSUME NEW y \in Outputs(x) PROVE y \in here
    <3>1. \E k \in 1 .. Len(hist) : y \in Outputs(Rec(k))
      BY <2>1 DEF Leaves
    <3>2. \A k \in 1 .. Len(hist) : ~ Consumed(Rec(k), y)
      BY <2>1 DEF Leaves
    <3>3. here = Present(hist, Len(hist) + 1)
      BY DEF ChainInv
    <3>4. y \in MadeBefore(hist, Len(hist) + 1)
      BY <2>2, <3>1 DEF MadeBefore, Rec
    <3> QED
      BY <2>2, <3>2, <3>3, <3>4 DEF Present, Rec
  <2> QED
    BY <2>3, <2>4
<1>3. ChainInv => AuditSurvivesThen
  <2> SUFFICES ASSUME ChainInv, hist # <<>>, InLine, NEW x \in Chains
               PROVE  /\ NoOrigin(First, Last(hist).out, x) = {}
                      /\ DeletedAndModified(First, x) = {}
                      /\ NotAnInput(First, x) = {}
                      /\ \A e \in Unaccounted(First, Last(hist).out, x) :
                            \E k \in DOMAIN hist : GeneratedOnly(Rec(k), e)
    BY Zenon DEF AuditSurvivesThen
  <2> DEFINE D == Last(hist).out
  <2>1. Sound(First, D, x, Spared)
    BY ChainIsSound DEF Last
  <2>2. x \in Records /\ First \subseteq Entities
    BY <2>1 DEF Sound
  <2> HIDE DEF D
  <2>3. NoOrigin(First, D, x) = {} /\ DeletedAndModified(First, x) = {}
    BY <2>1, <2>2, AuditReads DEF Sound
  <2>4. NotAnInput(First, x) = {}
    <3>1. x.deleted \subseteq Entities /\ \A e \in x.deleted : Accounted(x, e)
      BY <2>2 DEF Records, Accounted
    <3> QED
      BY <2>1, <3>1 DEF Sound, NotAnInput
  <2>5. \A e \in Unaccounted(First, D, x) : e \in Spared
    BY <2>1 DEF Sound, Unaccounted
  <2> QED
    BY <2>3, <2>4, <2>5 DEF Spared, D
<1>4. ChainInv => ChainsAccount
  BY <1>1, <1>2, <1>3 DEF ChainsAccount
<1> QED
  BY <1>4, ChainIsInvariant, PTL
=============================================================================
