---------------------------- MODULE SlotsProofs ----------------------------
(***************************************************************************)
(* What the operators of Slots return and preserve, for every arena: the   *)
(* lemmas the proofs about the arena and about the model rest on.          *)
(***************************************************************************)
EXTENDS Slots, Order

\* An arena is the record of its four fields, each of its type.
LEMMA ArenaFields ==
    ASSUME NEW V, NEW a
    PROVE  IsArena(a, V) <=>
             /\ a = [len |-> a.len, gen |-> a.gen, val |-> a.val,
                     free |-> a.free]
             /\ a.len \in Nat
             /\ a.gen \in [Indices(a) -> 0 .. (GenModulus - 1)]
             /\ a.val \in [Occupied(a) -> V]
             /\ Occupied(a) \subseteq Indices(a)
             /\ a.free = Indices(a) \ Occupied(a)
<1>1. IsArena(a, V) => a = [len |-> a.len, gen |-> a.gen, val |-> a.val,
                            free |-> a.free]
  BY DEF IsArena
<1>2. IsArena(a, V) => /\ a.len \in Nat
                       /\ a.gen \in [Indices(a) -> 0 .. (GenModulus - 1)]
                       /\ a.val \in [Occupied(a) -> V]
  BY DEF IsArena
<1>3. ASSUME a = [len |-> a.len, gen |-> a.gen, val |-> a.val,
                  free |-> a.free],
             a.len \in Nat,
             a.gen \in [Indices(a) -> 0 .. (GenModulus - 1)],
             a.val \in [Occupied(a) -> V],
             a.free \in SUBSET Indices(a)
      PROVE  a \in [len  : Nat,
                    gen  : [Indices(a) -> 0 .. (GenModulus - 1)],
                    val  : [Occupied(a) -> V],
                    free : SUBSET Indices(a)]
  <2> DEFINE G == [Indices(a) -> 0 .. (GenModulus - 1)]
             W == [Occupied(a) -> V]
             F == SUBSET Indices(a)
  <2> HIDE DEF G, W, F
  <2>1. [len |-> a.len, gen |-> a.gen, val |-> a.val, free |-> a.free]
           \in [len : Nat, gen : G, val : W, free : F]
    BY <1>3 DEF G, W, F
  <2> QED
    BY <1>3, <2>1 DEF G, W, F
<1> QED
  BY <1>1, <1>2, <1>3 DEF IsArena

\* The arena without slots is one.
LEMMA EmptyIsArena == ASSUME NEW V PROVE IsArena(EmptyArena, V)
<1> DEFINE e == EmptyArena
<1>1. e = [len |-> 0, gen |-> EmptyFun, val |-> EmptyFun, free |-> {}]
  BY DEF EmptyArena
<1>2. /\ Indices(e) = {}
      /\ Occupied(e) = {}
  BY <1>1 DEF Indices, Occupied, EmptyFun
<1> QED
  BY <1>1, <1>2, ArenaFields DEF EmptyFun

\* The slot an append takes is empty: the lowest free one, or the next.
LEMMA NextSlotIsEmpty ==
    ASSUME NEW V, NEW a, IsArena(a, V)
    PROVE  /\ NextSlot(a) \in Nat \ Occupied(a)
           /\ a.free # {} => NextSlot(a) \in a.free
           /\ a.free = {} => NextSlot(a) = a.len
<1>1. /\ a.len \in Nat
      /\ a.free \subseteq Indices(a)
      /\ a.free = Indices(a) \ Occupied(a)
      /\ Occupied(a) \subseteq Indices(a)
  BY DEF IsArena
<1>2. CASE a.free = {}
  <2>1. NextSlot(a) = a.len
    BY <1>2 DEF NextSlot
  <2>2. a.len \notin Occupied(a)
    BY <1>1 DEF Indices
  <2> QED
    BY <1>1, <1>2, <2>1, <2>2
<1>3. CASE a.free # {}
  <2>1. a.free \in SUBSET Nat
    BY <1>1 DEF Indices
  <2>2. \E i \in a.free : \A j \in a.free : i <= j
    BY <1>3, <2>1, LeastOfNats
  <2>3. LowestFree(a) \in a.free
    BY <2>2 DEF LowestFree
  <2> QED
    BY <1>1, <1>3, <2>1, <2>3 DEF NextSlot
<1> QED
  BY <1>2, <1>3

\* `push` gives an arena again; the id it returns is live with the value, and
\* every other slot is as it was.
LEMMA PushProperties ==
    ASSUME NEW V, NEW a, IsArena(a, V), NEW v \in V
    PROVE  LET p == Push(a, v)
               i == NextSlot(a)
           IN  /\ IsArena(p, V)
               /\ p.len = IF a.free = {} THEN a.len + 1 ELSE a.len
               /\ Occupied(p) = Occupied(a) \cup {i}
               /\ p.free = a.free \ {i}
               /\ p.val[i] = v
               /\ \A j \in Occupied(a) : p.val[j] = a.val[j]
               /\ \A j \in Indices(a) : p.gen[j] = a.gen[j]
               /\ IdOf(p, i) = NextId(a)
<1> DEFINE p == Push(a, v)
           i == NextSlot(a)
<1> SUFFICES /\ IsArena(p, V)
             /\ p.len = IF a.free = {} THEN a.len + 1 ELSE a.len
             /\ Occupied(p) = Occupied(a) \cup {i}
             /\ p.free = a.free \ {i}
             /\ p.val[i] = v
             /\ \A j \in Occupied(a) : p.val[j] = a.val[j]
             /\ \A j \in Indices(a) : p.gen[j] = a.gen[j]
             /\ IdOf(p, i) = NextId(a)
  OBVIOUS
<1> HIDE DEF p, i
<1>1. /\ a = [len |-> a.len, gen |-> a.gen, val |-> a.val, free |-> a.free]
      /\ a.len \in Nat
      /\ a.gen \in [Indices(a) -> 0 .. (GenModulus - 1)]
      /\ a.val \in [Occupied(a) -> V]
      /\ Occupied(a) \subseteq Indices(a)
      /\ a.free = Indices(a) \ Occupied(a)
  BY ArenaFields
<1>2. /\ i \in Nat \ Occupied(a)
      /\ a.free # {} => i \in a.free
      /\ a.free = {} => i = a.len
  BY NextSlotIsEmpty DEF i
<1>3. CASE a.free # {}
  <2>1. p = [len |-> a.len, gen |-> a.gen, val |-> Put(a.val, i, v),
             free |-> a.free \ {i}]
    BY <1>1, <1>3 DEF Push, NextSlot, p, i
  <2>2. Put(a.val, i, v) \in [Occupied(a) \cup {i} -> V]
    BY <1>1 DEF Put, Occupied
  <2>3. /\ Occupied(p) = Occupied(a) \cup {i}
        /\ Indices(p) = Indices(a)
    BY <2>1, <2>2 DEF Occupied, Indices
  <2>4. /\ p.gen \in [Indices(p) -> 0 .. (GenModulus - 1)]
        /\ p.val \in [Occupied(p) -> V]
        /\ p.len \in Nat
    BY <1>1, <2>1, <2>2, <2>3
  <2>5. /\ Occupied(p) \subseteq Indices(p)
        /\ p.free = Indices(p) \ Occupied(p)
    BY <1>1, <1>2, <1>3, <2>1, <2>3
  <2>a. IsArena(p, V)
    <3>1. p = [len |-> p.len, gen |-> p.gen, val |-> p.val, free |-> p.free]
      BY <2>1
    <3> QED
      BY <2>4, <2>5, <3>1, ArenaFields
  <2>6. /\ p.val[i] = v
        /\ \A j \in Occupied(a) : p.val[j] = a.val[j]
    BY <1>2, <2>1 DEF Put, Occupied
  <2>7. IdOf(p, i) = NextId(a)
    BY <1>3, <2>1 DEF IdOf, NextId, NextSlot, i
  <2> QED
    BY <1>3, <2>1, <2>3, <2>a, <2>6, <2>7
<1>4. CASE a.free = {}
  <2>1. p = [len |-> a.len + 1, gen |-> Put(a.gen, i, 0),
             val |-> Put(a.val, i, v), free |-> a.free]
    BY <1>1, <1>2, <1>4 DEF Push, p
  <2>2. Put(a.val, i, v) \in [Occupied(a) \cup {i} -> V]
    BY <1>1 DEF Put, Occupied
  <2>3. Put(a.gen, i, 0) \in [Indices(a) \cup {i} -> 0 .. (GenModulus - 1)]
    BY <1>1, GenAssumption DEF Put
  <2>4. Indices(a) \cup {i} = 0 .. ((a.len + 1) - 1)
    BY <1>1, <1>2, <1>4 DEF Indices
  <2>5. /\ Occupied(p) = Occupied(a) \cup {i}
        /\ Indices(p) = Indices(a) \cup {i}
    BY <2>1, <2>2, <2>4 DEF Occupied, Indices
  <2>6. /\ p.gen \in [Indices(p) -> 0 .. (GenModulus - 1)]
        /\ p.val \in [Occupied(p) -> V]
        /\ p.len \in Nat
    <3>1. /\ p.gen = Put(a.gen, i, 0)
          /\ p.val = Put(a.val, i, v)
          /\ p.len = a.len + 1
      BY <2>1
    <3>2. p.gen \in [Indices(p) -> 0 .. (GenModulus - 1)]
      BY <2>3, <2>5, <3>1
    <3>3. p.val \in [Occupied(p) -> V]
      BY <2>2, <2>5, <3>1
    <3> QED
      BY <1>1, <3>1, <3>2, <3>3
  <2>7. /\ Occupied(p) \subseteq Indices(p)
        /\ p.free = Indices(p) \ Occupied(p)
        /\ p.free = a.free \ {i}
    BY <1>1, <1>2, <1>4, <2>1, <2>5
  <2>8. /\ p.val[i] = v
        /\ \A j \in Occupied(a) : p.val[j] = a.val[j]
        /\ \A j \in Indices(a) : p.gen[j] = a.gen[j]
    <3>1. i \notin Indices(a)
      BY <1>1, <1>2, <1>4 DEF Indices
    <3> QED
      BY <1>2, <2>1, <3>1, <1>1 DEF Put, Occupied
  <2>9. IdOf(p, i) = NextId(a)
    BY <1>1, <1>2, <1>4, <2>1 DEF IdOf, NextId, Put
  <2>a. IsArena(p, V)
    <3>1. p = [len |-> p.len, gen |-> p.gen, val |-> p.val, free |-> p.free]
      BY <2>1
    <3> QED
      BY <2>6, <2>7, <3>1, ArenaFields
  <2> QED
    BY <1>4, <2>1, <2>5, <2>7, <2>8, <2>9, <2>a
<1> QED
  BY <1>3, <1>4

\* Freeing a set of slots gives an arena again: exactly the live slots of the
\* set lose their value, and only their generation moves.
LEMMA FreeSlotsProperties ==
    ASSUME NEW V, NEW a, IsArena(a, V), NEW S
    PROVE  LET f == FreeSlots(a, S)
           IN  /\ IsArena(f, V)
               /\ f.len = a.len
               /\ Occupied(f) = Occupied(a) \ S
               /\ \A j \in Occupied(f) : f.val[j] = a.val[j]
               /\ \A j \in Indices(a) :
                     f.gen[j] = IF j \in S \cap Occupied(a)
                                THEN Bump(a.gen[j]) ELSE a.gen[j]
<1> DEFINE f == FreeSlots(a, S)
<1> SUFFICES /\ IsArena(f, V)
             /\ f.len = a.len
             /\ Occupied(f) = Occupied(a) \ S
             /\ \A j \in Occupied(f) : f.val[j] = a.val[j]
             /\ \A j \in Indices(a) :
                   f.gen[j] = IF j \in S \cap Occupied(a)
                              THEN Bump(a.gen[j]) ELSE a.gen[j]
  OBVIOUS
<1> HIDE DEF f
<1>1. /\ a = [len |-> a.len, gen |-> a.gen, val |-> a.val, free |-> a.free]
      /\ a.len \in Nat
      /\ a.gen \in [Indices(a) -> 0 .. (GenModulus - 1)]
      /\ a.val \in [Occupied(a) -> V]
      /\ Occupied(a) \subseteq Indices(a)
      /\ a.free = Indices(a) \ Occupied(a)
  BY ArenaFields
<1>2. f = [len  |-> a.len,
           gen  |-> [i \in Indices(a) |-> IF i \in S \cap Occupied(a)
                                          THEN Bump(a.gen[i]) ELSE a.gen[i]],
           val  |-> Keep(a.val, Occupied(a) \ (S \cap Occupied(a))),
           free |-> a.free \cup (S \cap Occupied(a))]
  BY DEF f, FreeSlots
<1>3. \A g \in 0 .. (GenModulus - 1) : Bump(g) \in 0 .. (GenModulus - 1)
  BY GenAssumption DEF Bump
<1>4. f.gen \in [Indices(a) -> 0 .. (GenModulus - 1)]
  BY <1>1, <1>2, <1>3
<1>5. /\ Occupied(f) = Occupied(a) \ S
      /\ \A j \in Occupied(f) : f.val[j] = a.val[j]
      /\ f.val \in [Occupied(f) -> V]
  BY <1>1, <1>2 DEF Occupied, Keep
<1>6. Indices(f) = Indices(a)
  BY <1>2 DEF Indices
<1>7. /\ Occupied(f) \subseteq Indices(f)
      /\ f.free = Indices(f) \ Occupied(f)
  <2>1. Occupied(f) \subseteq Indices(f)
    BY <1>1, <1>5, <1>6
  <2>2. f.free = Indices(a) \ (Occupied(a) \ S)
    BY <1>1, <1>2
  <2> QED
    BY <1>5, <1>6, <2>1, <2>2
<1>8. \A j \in Indices(a) : f.gen[j] = IF j \in S \cap Occupied(a)
                                       THEN Bump(a.gen[j]) ELSE a.gen[j]
  BY <1>1, <1>2
<1>9. IsArena(f, V)
  BY <1>1, <1>2, <1>4, <1>5, <1>6, <1>7, ArenaFields
<1> QED
  BY <1>2, <1>5, <1>8, <1>9

\* Rolling back to a mark taken when the arena was no longer gives an arena of
\* the mark's length whose live slots were live before.
LEMMA RollbackProperties ==
    ASSUME NEW V, NEW a, NEW b, IsArena(a, V), IsArena(b, V), b.len <= a.len
    PROVE  LET r == Rollback(a, Mark(b))
           IN  /\ IsArena(r, V)
               /\ r.len = b.len
               /\ r.gen = Keep(a.gen, Indices(b))
               /\ Occupied(r) = (Occupied(a) \ (b.free \ a.free)) \cap Indices(b)
               /\ \A i \in Occupied(r) : r.val[i] = a.val[i]
<1> DEFINE u == b.free \ a.free
           c == [len |-> a.len, gen |-> a.gen,
                 val |-> Keep(a.val, Occupied(a) \ u), free |-> a.free \cup u]
           r == Rollback(a, Mark(b))
<1> SUFFICES /\ IsArena(r, V)
             /\ r.len = b.len
             /\ r.gen = Keep(a.gen, Indices(b))
             /\ Occupied(r) = (Occupied(a) \ (b.free \ a.free)) \cap Indices(b)
             /\ \A i \in Occupied(r) : r.val[i] = a.val[i]
  OBVIOUS
<1>1. /\ a = [len |-> a.len, gen |-> a.gen, val |-> a.val, free |-> a.free]
      /\ a.len \in Nat
      /\ a.gen \in [Indices(a) -> 0 .. (GenModulus - 1)]
      /\ a.val \in [Occupied(a) -> V]
      /\ Occupied(a) \subseteq Indices(a)
      /\ a.free = Indices(a) \ Occupied(a)
  BY ArenaFields
<1>2. /\ b.len \in Nat
      /\ b.free \subseteq Indices(b)
  BY ArenaFields
<1>3. /\ Mark(b).len = b.len
      /\ ReusedSince(a, Mark(b)) = u
  BY DEF Mark, ReusedSince
<1>4. r = Truncate(c, b.len)
  BY <1>3 DEF Rollback
<1>5. Indices(b) \subseteq Indices(a)
  BY <1>1, <1>2 DEF Indices
<1> HIDE DEF u, r
<1>6. c = [len |-> a.len, gen |-> a.gen, val |-> Keep(a.val, Occupied(a) \ u),
           free |-> a.free \cup u]
  OBVIOUS
<1>7. /\ Occupied(c) = Occupied(a) \ u
      /\ \A i \in Occupied(c) : c.val[i] = a.val[i]
      /\ c.val \in [Occupied(c) -> V]
  BY <1>1, <1>6 DEF Occupied, Keep
<1>8. c.free = Indices(a) \ Occupied(c)
  BY <1>1, <1>2, <1>5, <1>6, <1>7 DEF u
<1> HIDE DEF c
<1>9. CASE b.len = a.len
  <2>1. r = c
    BY <1>4, <1>6, <1>9, <1>1 DEF Truncate
  <2>2. /\ Indices(b) = Indices(a)
        /\ Indices(r) = Indices(a)
    BY <1>6, <1>9, <2>1 DEF Indices
  <2>3. r.gen = Keep(a.gen, Indices(b))
    BY <1>1, <1>6, <2>1, <2>2 DEF Keep
  <2>4. /\ Occupied(r) = (Occupied(a) \ u) \cap Indices(b)
        /\ Occupied(r) \subseteq Indices(r)
    BY <1>1, <1>7, <2>1, <2>2
  <2>5. IsArena(r, V)
    <3>1. r = [len |-> r.len, gen |-> r.gen, val |-> r.val, free |-> r.free]
      BY <1>6, <2>1
    <3>2. /\ r.len \in Nat
          /\ r.gen \in [Indices(r) -> 0 .. (GenModulus - 1)]
      BY <1>1, <1>6, <2>1, <2>2
    <3>3. /\ r.val \in [Occupied(r) -> V]
          /\ r.free = Indices(r) \ Occupied(r)
      BY <1>7, <1>8, <2>1, <2>2
    <3> QED
      BY <2>4, <3>1, <3>2, <3>3, ArenaFields
  <2> QED
    BY <1>6, <1>7, <1>9, <2>1, <2>3, <2>4, <2>5 DEF u
<1>10. CASE b.len < a.len
  <2>1. r = [len |-> b.len, gen |-> Keep(c.gen, 0 .. (b.len - 1)),
             val |-> Keep(c.val, 0 .. (b.len - 1)),
             free |-> {i \in c.free : i < b.len}]
    BY <1>1, <1>2, <1>4, <1>6, <1>10 DEF Truncate
  <2>2. /\ Indices(r) = Indices(b)
        /\ Indices(b) = 0 .. (b.len - 1)
    BY <2>1 DEF Indices
  <2>3. r.gen = Keep(a.gen, Indices(b))
    BY <1>6, <2>1, <2>2
  <2>4. r.gen \in [Indices(r) -> 0 .. (GenModulus - 1)]
    BY <1>1, <1>5, <2>2, <2>3 DEF Keep
  <2>5. /\ Occupied(r) = Occupied(c) \cap Indices(b)
        /\ \A i \in Occupied(r) : r.val[i] = c.val[i]
        /\ r.val \in [Occupied(r) -> V]
    BY <1>7, <2>1, <2>2 DEF Occupied, Keep
  <2>6. r.free = Indices(r) \ Occupied(r)
    <3>1. r.free = {i \in c.free : i < b.len}
      BY <2>1
    <3>2. \A i \in Indices(a) : i < b.len <=> i \in Indices(b)
      BY <1>1, <1>2 DEF Indices
    <3> QED
      BY <1>5, <1>8, <2>2, <2>5, <3>1, <3>2
  <2>7. IsArena(r, V)
    <3>1. /\ r = [len |-> r.len, gen |-> r.gen, val |-> r.val, free |-> r.free]
          /\ r.len \in Nat
      BY <1>2, <2>1
    <3> QED
      BY <2>2, <2>4, <2>5, <2>6, <3>1, ArenaFields
  <2> QED
    BY <1>7, <2>1, <2>3, <2>5, <2>7 DEF u
<1> QED
  BY <1>1, <1>2, <1>9, <1>10

-----------------------------------------------------------------------------
\* `a` is `b` with appends only: every slot of `b` is there at its generation,
\* what `b` held is held still, and no slot of `b` became free.
Extends(a, b) ==
    /\ b.len <= a.len
    /\ \A i \in Indices(b) : a.gen[i] = b.gen[i]
    /\ \A i \in Occupied(b) : i \in Occupied(a) /\ a.val[i] = b.val[i]

\* Rolling back appends gives back the very arena the mark was taken of.
LEMMA RollbackUndoesAppends ==
    ASSUME NEW V, NEW a, NEW b, IsArena(a, V), IsArena(b, V), Extends(a, b)
    PROVE  Rollback(a, Mark(b)) = b
<1> DEFINE r == Rollback(a, Mark(b))
<1>1. b.len <= a.len
  BY DEF Extends
<1>2. /\ IsArena(r, V)
      /\ r.len = b.len
      /\ r.gen = Keep(a.gen, Indices(b))
      /\ Occupied(r) = (Occupied(a) \ (b.free \ a.free)) \cap Indices(b)
      /\ \A i \in Occupied(r) : r.val[i] = a.val[i]
  BY <1>1, RollbackProperties
<1> HIDE DEF r
<1>3. /\ a.gen \in [Indices(a) -> 0 .. (GenModulus - 1)]
      /\ a.free = Indices(a) \ Occupied(a)
      /\ a.len \in Nat
  BY ArenaFields
<1>4. /\ b = [len |-> b.len, gen |-> b.gen, val |-> b.val, free |-> b.free]
      /\ b.len \in Nat
      /\ b.gen \in [Indices(b) -> 0 .. (GenModulus - 1)]
      /\ b.val \in [Occupied(b) -> V]
      /\ Occupied(b) \subseteq Indices(b)
      /\ b.free = Indices(b) \ Occupied(b)
  BY ArenaFields
<1>5. /\ r = [len |-> r.len, gen |-> r.gen, val |-> r.val, free |-> r.free]
      /\ r.val \in [Occupied(r) -> V]
      /\ r.free = Indices(r) \ Occupied(r)
  BY <1>2, ArenaFields
<1>6. Indices(b) \subseteq Indices(a)
  BY <1>3, <1>4 DEF Indices, Extends
<1>7. r.gen = b.gen
  <2>1. DOMAIN a.gen \cap Indices(b) = Indices(b)
    BY <1>3, <1>6
  <2>2. r.gen = [i \in Indices(b) |-> a.gen[i]]
    BY <1>2, <2>1 DEF Keep
  <2>3. \A i \in Indices(b) : a.gen[i] = b.gen[i]
    BY DEF Extends
  <2> QED
    BY <1>4, <2>2, <2>3
<1>8. Occupied(r) = Occupied(b)
  <2>1. ASSUME NEW i \in Occupied(r) PROVE i \in Occupied(b)
    <3>1. /\ i \in Occupied(a)
          /\ i \in Indices(b)
          /\ i \notin b.free \ a.free
      BY <1>2, <2>1
    <3> QED
      BY <1>3, <1>4, <3>1
  <2>2. ASSUME NEW i \in Occupied(b) PROVE i \in Occupied(r)
    <3>1. i \in Occupied(a)
      BY DEF Extends
    <3> QED
      BY <1>2, <1>4, <3>1
  <2> QED
    BY <2>1, <2>2
<1>9. r.val = b.val
  <2>1. \A i \in Occupied(b) : r.val[i] = b.val[i]
    BY <1>2, <1>8 DEF Extends
  <2> QED
    BY <1>4, <1>5, <1>8, <2>1
<1>10. r.free = b.free
  BY <1>2, <1>4, <1>5, <1>8 DEF Indices
<1> QED
  BY <1>2, <1>4, <1>5, <1>7, <1>9, <1>10 DEF r

\* An arena extends itself, and extending is transitive.
LEMMA ExtendsItself ==
    ASSUME NEW V, NEW a, IsArena(a, V)
    PROVE  Extends(a, a)
BY ArenaFields DEF Extends

LEMMA ExtendsTransitive ==
    ASSUME NEW V, NEW a, NEW b, NEW c, IsArena(a, V), IsArena(b, V),
           IsArena(c, V), Extends(a, b), Extends(b, c)
    PROVE  Extends(a, c)
<1>1. a.len \in Nat /\ b.len \in Nat /\ c.len \in Nat
  BY ArenaFields
<1>2. Indices(c) \subseteq Indices(b)
  BY <1>1 DEF Indices, Extends
<1>3. \A i \in Indices(c) : a.gen[i] = c.gen[i]
  BY <1>2 DEF Extends
<1>4. \A i \in Occupied(c) : i \in Occupied(a) /\ a.val[i] = c.val[i]
  BY DEF Extends
<1> QED
  BY <1>1, <1>3, <1>4 DEF Extends

LEMMA PushExtends ==
    ASSUME NEW W, NEW b, IsArena(b, W), NEW w \in W
    PROVE  Extends(Push(b, w), b)
<1>1. /\ Push(b, w).len = IF b.free = {} THEN b.len + 1 ELSE b.len
      /\ Occupied(Push(b, w)) = Occupied(b) \cup {NextSlot(b)}
      /\ \A k \in Occupied(b) : Push(b, w).val[k] = b.val[k]
      /\ \A k \in Indices(b) : Push(b, w).gen[k] = b.gen[k]
  BY PushProperties
<1>2. b.len \in Nat
  BY ArenaFields
<1> QED
  BY <1>1, <1>2 DEF Extends

\* An append mints: one id is new, with the value, and the others stand for
\* what they stood for.
LEMMA LiveAfterPush ==
    ASSUME NEW V, NEW a, IsArena(a, V), NEW v \in V, NEW b, b = Push(a, v)
    PROVE  \E id \in LiveIds(b) :
             /\ id \notin LiveIds(a)
             /\ LiveIds(b) = LiveIds(a) \cup {id}
             /\ b.val[id.slot] = v
             /\ \A x \in LiveIds(a) : b.val[x.slot] = a.val[x.slot]
<1> DEFINE i == NextSlot(a)
           new == IdOf(b, i)
<1>1. /\ Occupied(b) = Occupied(a) \cup {i}
      /\ b.val[i] = v
      /\ \A j \in Occupied(a) : b.val[j] = a.val[j]
      /\ \A j \in Indices(a) : b.gen[j] = a.gen[j]
  BY PushProperties
<1>2. /\ i \notin Occupied(a)
      /\ Occupied(a) \subseteq Indices(a)
  BY NextSlotIsEmpty, ArenaFields
<1> HIDE DEF i
<1>3. \A j \in Occupied(a) : IdOf(b, j) = IdOf(a, j)
  BY <1>1, <1>2 DEF IdOf
<1>4. LiveIds(b) = LiveIds(a) \cup {new}
  BY <1>1, <1>3 DEF LiveIds
<1>5. new.slot = i /\ \A id \in LiveIds(a) : id.slot \in Occupied(a)
  BY DEF IdOf, LiveIds
<1>6. new \notin LiveIds(a)
  BY <1>2, <1>5
<1> QED
  BY <1>1, <1>4, <1>5, <1>6

\* An arena that extends another holds its ids, with what they stand for.
LEMMA ExtendsLive ==
    ASSUME NEW V, NEW a, NEW b, IsArena(a, V), IsArena(b, V), Extends(a, b),
           NEW id \in LiveIds(b)
    PROVE  id \in LiveIds(a) /\ a.val[id.slot] = b.val[id.slot]
<1>1. PICK i \in Occupied(b) : id = IdOf(b, i)
  BY DEF LiveIds
<1>2. i \in Indices(b)
  BY ArenaFields
<1>3. /\ IdOf(a, i) = IdOf(b, i)
      /\ i \in Occupied(a)
      /\ a.val[i] = b.val[i]
      /\ id.slot = i
  BY <1>1, <1>2 DEF Extends, IdOf
<1> QED
  BY <1>1, <1>3 DEF LiveIds

-----------------------------------------------------------------------------
\* `slots` and `push_slot`: what is written out and read back slot by slot,
\* with the free set collected anew, is the arena.
LEMMA ReadBackIsTheArena ==
    ASSUME NEW V, NEW a, IsArena(a, V)
    PROVE  ReadBack(SlotsOf(a), a.len) = a
<1> DEFINE r == ReadBack(SlotsOf(a), a.len)
           t == SlotsOf(a)
<1>1. /\ a = [len |-> a.len, gen |-> a.gen, val |-> a.val, free |-> a.free]
      /\ a.gen \in [Indices(a) -> 0 .. (GenModulus - 1)]
      /\ a.val \in [Occupied(a) -> V]
      /\ Occupied(a) \subseteq Indices(a)
      /\ a.free = Indices(a) \ Occupied(a)
  BY ArenaFields
<1>2. r = [len  |-> a.len,
           gen  |-> [i \in Indices(a) |-> t[i].gen],
           val  |-> [i \in {j \in Indices(a) : t[j].some} |->
                       CHOOSE x \in t[i].val : TRUE],
           free |-> {i \in Indices(a) : ~ t[i].some}]
  BY DEF ReadBack, Indices
<1>3. \A i \in Indices(a) :
         /\ t[i].gen = a.gen[i]
         /\ t[i].some <=> i \in Occupied(a)
         /\ i \in Occupied(a) => t[i].val = {a.val[i]}
  BY DEF SlotsOf
<1> HIDE DEF t, r
<1>4. [i \in Indices(a) |-> t[i].gen] = a.gen
  BY <1>1, <1>3
<1>5. {j \in Indices(a) : t[j].some} = Occupied(a)
  BY <1>1, <1>3
<1>6. [i \in Occupied(a) |-> CHOOSE x \in t[i].val : TRUE] = a.val
  BY <1>1, <1>3
<1>7. {i \in Indices(a) : ~ t[i].some} = a.free
  BY <1>1, <1>3
<1> QED
  BY <1>1, <1>2, <1>4, <1>5, <1>6, <1>7 DEF r

-----------------------------------------------------------------------------
(* The stack of open transactions, whatever is saved on it.                *)

\* A sequence is a sequence of its own elements.
LEMMA OwnElements ==
    ASSUME NEW S, NEW t \in Seq(S)
    PROVE  t \in Seq({t[k] : k \in DOMAIN t})
<1>1. /\ Len(t) \in Nat
      /\ DOMAIN t = 1 .. Len(t)
  BY LenProperties
<1>2. SubSeq(t, 1, Len(t)) \in Seq({t[k] : k \in DOMAIN t})
  BY <1>1, SubSeqProperties
<1>3. SubSeq(t, 1, Len(t)) = t
  BY SubSeqFull
<1> QED
  BY <1>2, <1>3

\* Entering a transaction adds one entry and leaves the others.
LEMMA EnterTx ==
    ASSUME NEW t, t \in Seq({t[k] : k \in DOMAIN t}), NEW e
    PROVE  /\ DOMAIN t = 1 .. Len(t)
           /\ Len(t) \in Nat
           /\ Append(t, e) \in
                 Seq({Append(t, e)[k] : k \in DOMAIN Append(t, e)})
           /\ DOMAIN Append(t, e) = 1 .. (Len(t) + 1)
           /\ \A k \in 1 .. Len(t) : Append(t, e)[k] = t[k]
           /\ Append(t, e)[Len(t) + 1] = e
<1> DEFINE S == {t[k] : k \in DOMAIN t} \cup {e}
<1>1. t \in Seq(S)
  BY SeqMonotonic
<1> HIDE DEF S
<1>2. e \in S
  BY DEF S
<1>3. /\ Append(t, e) \in Seq(S)
      /\ Len(Append(t, e)) = Len(t) + 1
      /\ \A k \in 1 .. Len(t) : Append(t, e)[k] = t[k]
      /\ Append(t, e)[Len(t) + 1] = e
  BY <1>1, <1>2, AppendProperties
<1>4. /\ DOMAIN t = 1 .. Len(t)
      /\ Len(t) \in Nat
      /\ DOMAIN Append(t, e) = 1 .. (Len(t) + 1)
  BY <1>1, <1>3, LenProperties
<1> QED
  BY <1>3, <1>4, OwnElements

\* Leaving a transaction drops the innermost entry and leaves the others.
LEMMA LeaveTx ==
    ASSUME NEW t, t \in Seq({t[k] : k \in DOMAIN t}), t # <<>>
    PROVE  /\ DOMAIN t = 1 .. Len(t)
           /\ Len(t) \in Nat \ {0}
           /\ LET u == SubSeq(t, 1, Len(t) - 1)
              IN  /\ u \in Seq({u[k] : k \in DOMAIN u})
                  /\ \A k \in DOMAIN u : k \in DOMAIN t /\ k < Len(t) /\ u[k] = t[k]
<1> DEFINE S == {t[k] : k \in DOMAIN t}
<1> HIDE DEF S
<1>1. /\ t \in Seq(S)
      /\ DOMAIN t = 1 .. Len(t)
      /\ Len(t) \in Nat \ {0}
  BY LenProperties, EmptySeq DEF S
<1>2. \A k \in 1 .. (Len(t) - 1) : t[k] \in S
  BY <1>1 DEF S
<1> DEFINE u == SubSeq(t, 1, Len(t) - 1)
<1>3. /\ u \in Seq(S)
      /\ Len(u) = Len(t) - 1
      /\ \A k \in 1 .. (Len(t) - 1) : u[k] = t[k]
  <2> DEFINE n == Len(t) - 1
  <2>1. n \in Nat
    BY <1>1
  <2>2. \A k \in 1 .. n : t[k] \in S
    BY <1>2
  <2> HIDE DEF n
  <2>3. /\ SubSeq(t, 1, n) \in Seq(S)
        /\ Len(SubSeq(t, 1, n)) = IF 1 <= n THEN n - 1 + 1 ELSE 0
        /\ \A i \in 1 .. n - 1 + 1 : SubSeq(t, 1, n)[i] = t[1 + i - 1]
    BY <2>1, <2>2, SubSeqProperties
  <2>4. u = SubSeq(t, 1, n)
    BY DEF n
  <2>5. n - 1 + 1 = n /\ \A i \in 1 .. n : 1 + i - 1 = i
    BY <2>1
  <2>6. /\ Len(u) = n
        /\ \A k \in 1 .. n : u[k] = t[k]
    BY <2>1, <2>3, <2>4, <2>5
  <2> QED
    BY <2>3, <2>4, <2>6 DEF n
<1> HIDE DEF u
<1>4. DOMAIN u = 1 .. (Len(t) - 1)
  BY <1>3, LenProperties
<1>5. u \in Seq({u[k] : k \in DOMAIN u})
  BY <1>3, OwnElements
<1>6. ASSUME NEW k \in DOMAIN u
      PROVE  k \in DOMAIN t /\ k < Len(t) /\ u[k] = t[k]
  <2>1. k \in 1 .. (Len(t) - 1)
    BY <1>4
  <2> QED
    BY <1>1, <1>3, <2>1
<1> QED
  BY <1>1, <1>5, <1>6 DEF u
=============================================================================
