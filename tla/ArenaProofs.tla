---------------------------- MODULE ArenaProofs ----------------------------
(***************************************************************************)
(* The arena's promises, for any values, any depth of transactions and any *)
(* generation width.                                                       *)
(*                                                                         *)
(* TypeOK alone is not inductive: a rollback is typed only because no open *)
(* transaction began with a longer arena (Nested).  That an error restores *)
(* the arena of entry needs that, between entry and error, the arena only  *)
(* gained values (Growing), which is where a `retain` inside the closure   *)
(* would break it; and that stale ids stay dead needs that the generation  *)
(* of a freed slot only moves up (Stale), which is where the wrap of the   *)
(* counter would break it.  The native round trip follows from the types   *)
(* alone; the refinement of the slotless store needs both others, as an id *)
(* it mints must be new and an abort must bring back the store of entry.   *)
(***************************************************************************)
EXTENDS Arena, SlotsProofs

-----------------------------------------------------------------------------
(***************************************************************************)
(* Types.                                                                  *)
(***************************************************************************)

\* No transaction began with a longer arena than a later one, or than now.
Nested == /\ \A k \in DOMAIN txs : txs[k].len <= arena.len
          /\ \A k \in DOMAIN txs : \A j \in DOMAIN txs :
                j <= k => txs[j].len <= txs[k].len
TypeInv == TypeOK /\ Nested

\* The number of live slots is a number.
LEMMA LiveIsNat ==
    ASSUME NEW a, IsArena(a, Values)
    PROVE  IsFiniteSet(Occupied(a)) /\ Live(a) \in Nat
<1>1. a.len \in Nat /\ Occupied(a) \subseteq Indices(a)
  BY ArenaFields
<1>2. IsFiniteSet(Indices(a))
  BY <1>1, FS_Interval DEF Indices
<1> QED
  BY <1>1, <1>2, FS_Subset, FS_CardinalityType DEF Live

LEMMA TypeInit == Init => TypeInv
<1> SUFFICES ASSUME Init PROVE TypeInv
  OBVIOUS
<1>1. /\ arena = EmptyArena
      /\ txs = <<>>
      /\ retired = {}
      /\ peak = 0
  BY DEF Init
<1>3. IsArena(arena, Values)
  BY <1>1, EmptyIsArena
<1>4. /\ DOMAIN txs = {}
      /\ txs \in Seq({txs[k] : k \in DOMAIN txs})
  BY <1>1, EmptySeq
<1> QED
  BY <1>1, <1>3, <1>4 DEF TypeInv, TypeOK, Nested

LEMMA TypeAppend ==
    ASSUME TypeInv, NEW v \in Values, AppendValue(v)
    PROVE  TypeInv'
<1>1. IsArena(arena, Values)
  BY DEF TypeInv, TypeOK
<1>2. /\ arena' = Push(arena, v)
      /\ UNCHANGED <<txs, retired>>
      /\ peak' = MaxOf(peak, Live(arena'))
  BY DEF AppendValue
<1>3. /\ IsArena(arena', Values)
      /\ arena'.len = IF arena.free = {} THEN arena.len + 1 ELSE arena.len
  BY <1>1, <1>2, PushProperties
<1>4. peak' \in Nat
  BY <1>2, <1>3, LiveIsNat DEF MaxOf, TypeInv, TypeOK
<1>5. arena.len \in Nat /\ \A k \in DOMAIN txs : txs[k].len \in Nat
  BY ArenaFields DEF TypeInv, TypeOK
<1>6. TypeOK'
  BY <1>2, <1>3, <1>4 DEF TypeInv, TypeOK
<1>7. Nested'
  BY <1>2, <1>3, <1>5 DEF TypeInv, Nested
<1> QED
  BY <1>6, <1>7 DEF TypeInv

LEMMA TypeRetain ==
    ASSUME TypeInv, NEW keep, Retain(keep)
    PROVE  TypeInv'
<1>1. IsArena(arena, Values)
  BY DEF TypeInv, TypeOK
<1>2. /\ arena' = FreeSlots(arena, Indices(arena) \ keep)
      /\ UNCHANGED <<txs, peak>>
      /\ retired' = retired \cup {IdOf(arena, i) : i \in Occupied(arena) \ keep}
  BY DEF Retain
<1>3. /\ IsArena(arena', Values)
      /\ arena'.len = arena.len
  BY <1>1, <1>2, FreeSlotsProperties
<1>4. \A i \in Occupied(arena) :
         IdOf(arena, i) \in [slot : Nat, gen : 0 .. (GenModulus - 1)]
  <2>1. /\ Occupied(arena) \subseteq Indices(arena)
        /\ arena.len \in Nat
        /\ arena.gen \in [Indices(arena) -> 0 .. (GenModulus - 1)]
    BY <1>1, ArenaFields
  <2> QED
    BY <2>1 DEF IdOf, Indices
<1>5. TypeOK'
  BY <1>2, <1>3, <1>4 DEF TypeInv, TypeOK
<1>6. Nested'
  BY <1>2, <1>3 DEF TypeInv, Nested
<1> QED
  BY <1>5, <1>6 DEF TypeInv

LEMMA TypeBegin ==
    ASSUME TypeInv, Begin
    PROVE  TypeInv'
<1>1. /\ txs' = Append(txs, arena)
      /\ UNCHANGED <<arena, retired, peak>>
  BY DEF Begin
<1>2. /\ txs \in Seq({txs[k] : k \in DOMAIN txs})
      /\ IsArena(arena, Values)
      /\ \A k \in DOMAIN txs : IsArena(txs[k], Values)
  BY DEF TypeInv, TypeOK
<1>3. /\ DOMAIN txs = 1 .. Len(txs)
      /\ Len(txs) \in Nat
      /\ txs' \in Seq({txs'[k] : k \in DOMAIN txs'})
      /\ DOMAIN txs' = 1 .. (Len(txs) + 1)
      /\ \A k \in 1 .. Len(txs) : txs'[k] = txs[k]
      /\ txs'[Len(txs) + 1] = arena
  BY <1>1, <1>2, EnterTx
<1>4. \A k \in DOMAIN txs' : k \in DOMAIN txs \/ k = Len(txs) + 1
  BY <1>3
<1>5. TypeOK'
  BY <1>1, <1>2, <1>3, <1>4 DEF TypeInv, TypeOK
<1>6. Nested'
  <2>1. arena.len \in Nat
    BY <1>2, ArenaFields
  <2>2. \A k \in DOMAIN txs' : txs'[k].len <= arena.len
    BY <1>3, <1>4, <2>1 DEF TypeInv, Nested
  <2>3. ASSUME NEW k \in DOMAIN txs', NEW j \in DOMAIN txs', j <= k
        PROVE  txs'[j].len <= txs'[k].len
    <3>1. CASE k = Len(txs) + 1
      BY <1>3, <2>2, <3>1
    <3>2. CASE k \in DOMAIN txs
      <4>1. j \in DOMAIN txs
        BY <1>3, <2>3, <3>2
      <4> QED
        BY <1>3, <2>3, <3>2, <4>1 DEF TypeInv, Nested
    <3> QED
      BY <1>4, <3>1, <3>2
  <2> QED
    BY <1>1, <2>2, <2>3 DEF Nested
<1> QED
  BY <1>5, <1>6 DEF TypeInv

LEMMA TypeCommit ==
    ASSUME TypeInv, Commit
    PROVE  TypeInv'
<1>1. /\ txs' = Pop(txs)
      /\ txs # <<>>
      /\ UNCHANGED <<arena, retired, peak>>
  BY DEF Commit
<1>2. txs \in Seq({txs[k] : k \in DOMAIN txs})
  BY DEF TypeInv, TypeOK
<1>3. /\ DOMAIN txs = 1 .. Len(txs)
      /\ Len(txs) \in Nat \ {0}
      /\ txs' \in Seq({txs'[k] : k \in DOMAIN txs'})
  BY <1>1, <1>2, LeaveTx DEF Pop
<1>4. \A k \in DOMAIN txs' : k \in DOMAIN txs /\ txs'[k] = txs[k]
  BY <1>1, <1>2, LeaveTx DEF Pop
<1>5. TypeOK'
  BY <1>1, <1>3, <1>4 DEF TypeInv, TypeOK
<1>6. Nested'
  <2>1. \A k \in DOMAIN txs' : txs'[k].len <= arena'.len
    BY <1>1, <1>4 DEF TypeInv, Nested
  <2>2. \A k \in DOMAIN txs' : \A j \in DOMAIN txs' :
           j <= k => txs'[j].len <= txs'[k].len
    BY <1>4 DEF TypeInv, Nested
  <2> QED
    BY <2>1, <2>2 DEF Nested
<1> QED
  BY <1>5, <1>6 DEF TypeInv

LEMMA TypeAbort ==
    ASSUME TypeInv, Abort
    PROVE  TypeInv'
<1>1. /\ txs' = Pop(txs)
      /\ txs # <<>>
      /\ arena' = Rollback(arena, Mark(txs[Len(txs)]))
      /\ UNCHANGED <<retired, peak>>
  BY DEF Abort, Innermost
<1>2. txs \in Seq({txs[k] : k \in DOMAIN txs})
  BY DEF TypeInv, TypeOK
<1>3. /\ DOMAIN txs = 1 .. Len(txs)
      /\ Len(txs) \in Nat \ {0}
      /\ txs' \in Seq({txs'[k] : k \in DOMAIN txs'})
  BY <1>1, <1>2, LeaveTx DEF Pop
<1>4. \A k \in DOMAIN txs' : /\ k \in DOMAIN txs
                             /\ k < Len(txs)
                             /\ txs'[k] = txs[k]
  BY <1>1, <1>2, LeaveTx DEF Pop
<1>5. Len(txs) \in DOMAIN txs
  BY <1>3
<1>6. /\ IsArena(arena', Values)
      /\ arena'.len = txs[Len(txs)].len
  BY <1>1, <1>5, RollbackProperties DEF TypeInv, TypeOK, Nested
<1>7. TypeOK'
  BY <1>1, <1>3, <1>4, <1>6 DEF TypeInv, TypeOK
<1>8. Nested'
  BY <1>4, <1>5, <1>6 DEF TypeInv, Nested
<1> QED
  BY <1>7, <1>8 DEF TypeInv

LEMMA TypeNext == TypeInv /\ [Next]_vars => TypeInv'
<1> SUFFICES ASSUME TypeInv, [Next]_vars PROVE TypeInv'
  OBVIOUS
<1>1. CASE \E v \in Values : AppendValue(v)
  BY <1>1, TypeAppend
<1>2. CASE \E keep \in SUBSET Occupied(arena) : Retain(keep)
  BY <1>2, TypeRetain
<1>3. CASE Begin
  BY <1>3, TypeBegin
<1>4. CASE Commit
  BY <1>4, TypeCommit
<1>5. CASE Abort
  BY <1>5, TypeAbort
<1>6. CASE UNCHANGED vars
  BY <1>6 DEF vars, TypeInv, TypeOK, Nested
<1> QED
  BY <1>1, <1>2, <1>3, <1>4, <1>5, <1>6 DEF Next

\* Whatever is appended, freed, committed and rolled back in whatever order, a
\* `retain` inside a transaction included, the arena is well formed: its free
\* set is the slots without a value, as push, free_slot and rollback assume.
THEOREM TypeCorrect == Spec => []TypeOK
<1>1. Spec => []TypeInv
  BY TypeInit, TypeNext, PTL DEF Spec
<1>2. TypeInv => TypeOK
  BY DEF TypeInv
<1> QED
  BY <1>1, <1>2, PTL

-----------------------------------------------------------------------------
(***************************************************************************)
(* Rollback, for closures that do not call `retain`.                       *)
(***************************************************************************)

\* Between the entry of a transaction and now, and between the entries of two
\* nested ones, the arena only gained values.
Growing == /\ \A k \in DOMAIN txs : Extends(arena, txs[k])
           /\ \A k \in DOMAIN txs : \A j \in DOMAIN txs :
                 j <= k => Extends(txs[k], txs[j])
GrowInv == TypeInv /\ Growing

LEMMA GrowingNext ==
    ASSUME ~ RetainInTx, GrowInv, [Next]_vars
    PROVE  Growing'
<1>1. TypeInv /\ TypeInv' /\ Growing
  BY TypeNext DEF GrowInv
<1>2. /\ IsArena(arena, Values)
      /\ IsArena(arena', Values)
      /\ \A k \in DOMAIN txs : IsArena(txs[k], Values)
      /\ txs \in Seq({txs[k] : k \in DOMAIN txs})
  BY <1>1 DEF TypeInv, TypeOK
<1>3. CASE \E v \in Values : AppendValue(v)
  <2>1. /\ Extends(arena', arena)
        /\ UNCHANGED txs
    BY <1>2, <1>3, PushExtends DEF AppendValue
  <2>2. ASSUME NEW k \in DOMAIN txs PROVE Extends(arena', txs[k])
    <3>1. Extends(arena, txs[k])
      BY <1>1 DEF Growing
    <3> QED
      BY <1>2, <2>1, <3>1, ExtendsTransitive
  <2> QED
    BY <1>1, <2>1, <2>2 DEF Growing
<1>4. CASE \E keep \in SUBSET Occupied(arena) : Retain(keep)
  <2>1. /\ txs = <<>>
        /\ UNCHANGED txs
    BY <1>4 DEF Retain
  <2>2. DOMAIN txs = {}
    BY <2>1
  <2> QED
    BY <2>1, <2>2 DEF Growing
<1>5. CASE Begin
  <2>1. /\ txs' = Append(txs, arena)
        /\ UNCHANGED arena
    BY <1>5 DEF Begin
  <2>2. /\ DOMAIN txs = 1 .. Len(txs)
        /\ Len(txs) \in Nat
        /\ DOMAIN txs' = 1 .. (Len(txs) + 1)
        /\ \A k \in 1 .. Len(txs) : txs'[k] = txs[k]
        /\ txs'[Len(txs) + 1] = arena
    BY <1>2, <2>1, EnterTx
  <2>3. \A k \in DOMAIN txs' : k \in DOMAIN txs \/ k = Len(txs) + 1
    BY <2>2
  <2>4. \A k \in DOMAIN txs' : Extends(arena, txs'[k])
    BY <1>1, <1>2, <2>2, <2>3, ExtendsItself DEF Growing
  <2>5. ASSUME NEW k \in DOMAIN txs', NEW j \in DOMAIN txs', j <= k
        PROVE  Extends(txs'[k], txs'[j])
    <3>1. CASE k = Len(txs) + 1
      BY <2>2, <2>4, <3>1
    <3>2. CASE k \in DOMAIN txs
      <4>1. j \in DOMAIN txs
        BY <2>2, <2>5, <3>2
      <4> QED
        BY <1>1, <2>2, <2>5, <3>2, <4>1 DEF Growing
    <3> QED
      BY <2>3, <3>1, <3>2
  <2> QED
    BY <2>1, <2>4, <2>5 DEF Growing
<1>6. CASE Commit
  <2>1. \A k \in DOMAIN txs' : k \in DOMAIN txs /\ txs'[k] = txs[k]
    BY <1>2, <1>6, LeaveTx DEF Pop, Commit
  <2>2. UNCHANGED arena
    BY <1>6 DEF Commit
  <2>3. \A k \in DOMAIN txs' : Extends(arena', txs'[k])
    BY <1>1, <2>1, <2>2 DEF Growing
  <2>4. \A k \in DOMAIN txs' : \A j \in DOMAIN txs' :
           j <= k => Extends(txs'[k], txs'[j])
    BY <1>1, <2>1 DEF Growing
  <2> QED
    BY <2>3, <2>4 DEF Growing
<1>7. CASE Abort
  <2>1. /\ \A k \in DOMAIN txs' : /\ k \in DOMAIN txs
                                  /\ k < Len(txs)
                                  /\ txs'[k] = txs[k]
        /\ DOMAIN txs = 1 .. Len(txs)
        /\ Len(txs) \in Nat \ {0}
    BY <1>2, <1>7, LeaveTx DEF Pop, Abort
  <2>2. Len(txs) \in DOMAIN txs
    BY <2>1
  <2>3. arena' = txs[Len(txs)]
    BY <1>1, <1>2, <1>7, <2>2, RollbackUndoesAppends
       DEF Abort, Innermost, Growing
  <2>4. \A k \in DOMAIN txs' : Extends(arena', txs'[k])
    BY <1>1, <2>1, <2>2, <2>3 DEF Growing
  <2>5. \A k \in DOMAIN txs' : \A j \in DOMAIN txs' :
           j <= k => Extends(txs'[k], txs'[j])
    BY <1>1, <2>1 DEF Growing
  <2> QED
    BY <2>4, <2>5 DEF Growing
<1>8. CASE UNCHANGED vars
  BY <1>1, <1>8 DEF vars, Growing
<1> QED
  BY <1>3, <1>4, <1>5, <1>6, <1>7, <1>8 DEF Next

LEMMA GrowInvInductive ==
    ASSUME ~ RetainInTx
    PROVE  Spec => []GrowInv
<1>1. Init => GrowInv
  <2>1. Init => DOMAIN txs = {}
    BY DEF Init
  <2> QED
    BY <2>1, TypeInit DEF GrowInv, Growing
<1>2. GrowInv /\ [Next]_vars => GrowInv'
  BY GrowingNext, TypeNext DEF GrowInv
<1> QED
  BY <1>1, <1>2, PTL DEF Spec

\* model.rs transaction and arena.rs rollback: at any depth, an error in a
\* closure that does not call `retain` leaves the arena as the transaction
\* found it, whatever was appended, committed and rolled back inside.
THEOREM RollbackIsExact ==
    ASSUME ~ RetainInTx
    PROVE  Spec => []RollbackRestores
<1>1. GrowInv => RollbackRestores
  BY RollbackUndoesAppends
     DEF GrowInv, TypeInv, TypeOK, Growing, RollbackRestores
<1> QED
  BY <1>1, GrowInvInductive, PTL

-----------------------------------------------------------------------------
(***************************************************************************)
(* Stale ids, for fewer frees of one slot than the generation can count.   *)
(***************************************************************************)

\* The slot of a retired id is past the id's generation for good: it exists,
\* also in the arena any open transaction would roll back to.
Stale == \A id \in retired :
            /\ id.slot \in Indices(arena)
            /\ id.gen < arena.gen[id.slot]
            /\ \A k \in DOMAIN txs : id.slot \in Indices(txs[k])
StaleInv == GrowInv /\ Stale

LEMMA StaleNext ==
    ASSUME ~ RetainInTx, GenLimit < GenModulus, StaleInv, [Next]_vars
    PROVE  Stale'
<1>1. /\ GrowInv
      /\ Stale
      /\ IsArena(arena, Values)
      /\ txs \in Seq({txs[k] : k \in DOMAIN txs})
      /\ retired \subseteq [slot : Nat, gen : 0 .. (GenModulus - 1)]
      /\ \A k \in DOMAIN txs : IsArena(txs[k], Values)
  BY DEF StaleInv, GrowInv, TypeInv, TypeOK
<1>2. /\ arena.len \in Nat
      /\ arena.gen \in [Indices(arena) -> 0 .. (GenModulus - 1)]
      /\ Occupied(arena) \subseteq Indices(arena)
  BY <1>1, ArenaFields
<1>3. ASSUME NEW v \in Values, AppendValue(v) PROVE Stale'
  <2>1. /\ arena' = Push(arena, v)
        /\ UNCHANGED <<txs, retired>>
    BY <1>3 DEF AppendValue
  <2>2. Extends(arena', arena)
    BY <1>1, <2>1, PushExtends
  <2>3. arena'.len \in Nat
    <3>1. IsArena(arena', Values)
      BY <1>1, <2>1, PushProperties
    <3> QED
      BY <3>1, ArenaFields
  <2>4. Indices(arena) \subseteq Indices(arena')
    BY <1>2, <2>2, <2>3 DEF Extends, Indices
  <2>5. \A i \in Indices(arena) : arena'.gen[i] = arena.gen[i]
    BY <2>2 DEF Extends
  <2> QED
    BY <1>1, <2>1, <2>4, <2>5 DEF Stale
<1>4. ASSUME NEW keep, Retain(keep) PROVE Stale'
  <2>1. /\ txs = <<>>
        /\ UNCHANGED txs
        /\ arena' = FreeSlots(arena, Indices(arena) \ keep)
        /\ retired' = retired \cup
              {IdOf(arena, i) : i \in Occupied(arena) \ keep}
        /\ \A i \in Occupied(arena) \ keep : arena.gen[i] < GenLimit
    BY <1>4 DEF Retain
  <2>2. /\ arena'.len = arena.len
        /\ \A j \in Indices(arena) : arena'.gen[j] =
              IF j \in (Indices(arena) \ keep) \cap Occupied(arena)
              THEN Bump(arena.gen[j]) ELSE arena.gen[j]
    BY <1>1, <2>1, FreeSlotsProperties
  <2>3. /\ (Indices(arena) \ keep) \cap Occupied(arena) = Occupied(arena) \ keep
        /\ Indices(arena') = Indices(arena)
        /\ DOMAIN txs' = {}
    BY <1>2, <2>1, <2>2 DEF Indices
  <2>4. \A i \in Occupied(arena) \ keep : Bump(arena.gen[i]) = arena.gen[i] + 1
    BY <1>2, <2>1, GenAssumption, ArenaAssumption DEF Bump
  <2>5. ASSUME NEW j \in Indices(arena)
        PROVE  /\ arena'.gen[j] >= arena.gen[j]
               /\ j \in Occupied(arena) \ keep => arena'.gen[j] > arena.gen[j]
    <3>1. CASE j \in Occupied(arena) \ keep
      BY <1>2, <2>2, <2>3, <2>4, <3>1
    <3>2. CASE j \notin Occupied(arena) \ keep
      BY <1>2, <2>2, <2>3, <3>2
    <3> QED
      BY <3>1, <3>2
  <2>6. ASSUME NEW id \in retired
        PROVE  id.slot \in Indices(arena') /\ id.gen < arena'.gen[id.slot]
    <3>1. /\ id.slot \in Indices(arena)
          /\ id.gen < arena.gen[id.slot]
          /\ id.gen \in Nat
          /\ arena.gen[id.slot] \in Nat
      BY <1>1, <1>2 DEF Stale
    <3>2. arena'.gen[id.slot] \in Nat
      <4>1. IsArena(arena', Values)
        BY <1>1, <2>1, FreeSlotsProperties
      <4>2. arena'.gen \in [Indices(arena') -> 0 .. (GenModulus - 1)]
        BY <4>1, ArenaFields
      <4> QED
        BY <2>3, <3>1, <4>2
    <3> QED
      BY <2>3, <2>5, <3>1, <3>2
  <2>7. ASSUME NEW i \in Occupied(arena) \ keep, NEW id, id = IdOf(arena, i)
        PROVE  id.slot \in Indices(arena') /\ id.gen < arena'.gen[id.slot]
    <3>1. /\ id.slot = i
          /\ id.gen = arena.gen[i]
          /\ i \in Indices(arena)
      BY <1>2, <2>7 DEF IdOf
    <3>2. arena'.gen[i] = arena.gen[i] + 1
      BY <2>2, <2>3, <2>4, <3>1
    <3> QED
      BY <1>2, <2>3, <3>1, <3>2
  <2> QED
    BY <2>1, <2>3, <2>6, <2>7 DEF Stale
<1>5. CASE Begin
  <2>1. /\ txs' = Append(txs, arena)
        /\ arena' = arena
        /\ retired' = retired
    BY <1>5 DEF Begin
  <2>2. \A k \in DOMAIN txs' : \/ k \in DOMAIN txs /\ txs'[k] = txs[k]
                               \/ txs'[k] = arena
    BY <1>1, <2>1, EnterTx
  <2>3. ASSUME NEW id \in retired, NEW k \in DOMAIN txs'
        PROVE  id.slot \in Indices(txs'[k])
    <3>1. CASE txs'[k] = arena
      BY <1>1, <3>1 DEF Stale
    <3>2. CASE k \in DOMAIN txs /\ txs'[k] = txs[k]
      BY <1>1, <3>2 DEF Stale
    <3> QED
      BY <2>2, <3>1, <3>2
  <2>4. \A id \in retired : /\ id.slot \in Indices(arena')
                            /\ id.gen < arena'.gen[id.slot]
    BY <1>1, <2>1 DEF Stale, Indices
  <2>5. \A id \in retired : \A k \in DOMAIN txs' : id.slot \in Indices(txs'[k])
    BY <2>3
  <2> QED
    BY <2>1, <2>4, <2>5 DEF Stale, Indices
<1>6. CASE Commit
  <2>1. \A k \in DOMAIN txs' : k \in DOMAIN txs /\ txs'[k] = txs[k]
    BY <1>1, <1>6, LeaveTx DEF Pop, Commit
  <2>2. UNCHANGED <<arena, retired>>
    BY <1>6 DEF Commit
  <2> QED
    BY <1>1, <2>1, <2>2 DEF Stale
<1>7. CASE Abort
  <2>a. txs' = Pop(txs) /\ txs # <<>>
    BY <1>7 DEF Abort
  <2>b. /\ \A k \in DOMAIN txs' : k \in DOMAIN txs /\ txs'[k] = txs[k]
        /\ DOMAIN txs = 1 .. Len(txs)
        /\ Len(txs) \in Nat \ {0}
    BY <1>1, <2>a, LeaveTx DEF Pop
  <2>1. /\ \A k \in DOMAIN txs' : k \in DOMAIN txs /\ txs'[k] = txs[k]
        /\ Len(txs) \in DOMAIN txs
    BY <2>b
  <2>2. /\ arena' = txs[Len(txs)]
        /\ UNCHANGED retired
    BY <1>1, <1>7, <2>1, RollbackUndoesAppends
       DEF Abort, Innermost, GrowInv, Growing
  <2>3. \A i \in Indices(arena') : arena'.gen[i] = arena.gen[i]
    BY <1>1, <2>1, <2>2 DEF GrowInv, Growing, Extends
  <2>4. \A id \in retired : /\ id.slot \in Indices(arena')
                            /\ id.gen < arena'.gen[id.slot]
    BY <1>1, <2>1, <2>2, <2>3 DEF Stale
  <2> QED
    BY <1>1, <2>1, <2>2, <2>4 DEF Stale
<1>8. CASE UNCHANGED vars
  BY <1>1, <1>8 DEF vars, Stale
<1> QED
  BY <1>3, <1>4, <1>5, <1>6, <1>7, <1>8 DEF Next

LEMMA StaleInit == Init => StaleInv
<1>1. Init => GrowInv
  <2>1. Init => DOMAIN txs = {}
    BY DEF Init
  <2> QED
    BY <2>1, TypeInit DEF GrowInv, Growing
<1>2. Init => retired = {}
  BY DEF Init
<1> QED
  BY <1>1, <1>2 DEF StaleInv, Stale

LEMMA StaleInvNext ==
    ASSUME ~ RetainInTx, GenLimit < GenModulus
    PROVE  StaleInv /\ [Next]_vars => StaleInv'
BY StaleNext, GrowingNext, TypeNext DEF StaleInv, GrowInv

\* arena.rs:6: for every history in which no slot is freed as often as the
\* generation can count and no closure calls `retain`, an id `retain` took
\* away never resolves again.
THEOREM StaleIdsStayDead ==
    ASSUME ~ RetainInTx, GenLimit < GenModulus
    PROVE  Spec => []StaleNeverResolves
<1>1. StaleInv => StaleNeverResolves
  <2> SUFFICES ASSUME StaleInv, NEW id \in retired, Resolves(arena, id)
               PROVE  FALSE
    BY DEF StaleNeverResolves
  <2>1. /\ arena.gen[id.slot] = id.gen
        /\ id.gen < arena.gen[id.slot]
        /\ id.gen \in Nat
    BY DEF StaleInv, Stale, Resolves, GrowInv, TypeInv, TypeOK
  <2> QED
    BY <2>1
<1>2. StaleInv /\ [Next]_vars => StaleInv'
  BY StaleInvNext
<1> QED
  BY <1>1, <1>2, StaleInit, PTL DEF Spec

-----------------------------------------------------------------------------
(***************************************************************************)
(* Growth.                                                                 *)
(***************************************************************************)

\* A fresh slot is minted only when every slot is live.
LEMMA FullArena ==
    ASSUME NEW a, IsArena(a, Values), a.free = {}
    PROVE  Live(a) = a.len
<1>1. /\ a.len \in Nat
      /\ Occupied(a) \subseteq Indices(a)
      /\ a.free = Indices(a) \ Occupied(a)
  BY ArenaFields
<1>2. Occupied(a) = 0 .. (a.len - 1)
  BY <1>1 DEF Indices
<1>3. Cardinality(0 .. (a.len - 1)) = a.len
  BY <1>1, FS_Interval
<1> QED
  BY <1>2, <1>3 DEF Live

LEMMA GrowthNext ==
    ASSUME TypeInv, NoGrowthBeyondPeak, [Next]_vars
    PROVE  NoGrowthBeyondPeak'
<1>1. /\ IsArena(arena, Values)
      /\ IsArena(arena', Values)
      /\ \A k \in DOMAIN txs : IsArena(txs[k], Values)
      /\ txs \in Seq({txs[k] : k \in DOMAIN txs})
      /\ peak \in Nat
  <2>1. TypeInv'
    BY TypeNext
  <2> QED
    BY <2>1 DEF TypeInv, TypeOK
<1>2. arena.len \in Nat /\ arena'.len \in Nat
  BY <1>1, ArenaFields
<1>3. ASSUME NEW v \in Values, AppendValue(v) PROVE NoGrowthBeyondPeak'
  <2>1. /\ arena' = Push(arena, v)
        /\ peak' = MaxOf(peak, Live(arena'))
    BY <1>3 DEF AppendValue
  <2>2. /\ arena'.len = IF arena.free = {} THEN arena.len + 1 ELSE arena.len
        /\ arena'.free = arena.free \ {NextSlot(arena)}
    BY <1>1, <2>1, PushProperties
  <2>3. Live(arena') \in Nat
    BY <1>1, LiveIsNat
  <2>4. peak' >= peak /\ peak' >= Live(arena')
    BY <1>1, <2>1, <2>3 DEF MaxOf
  <2>5. peak' \in Nat
    BY <1>1, <2>1, <2>3 DEF MaxOf
  <2>6. CASE arena.free = {}
    <3>1. Live(arena') = arena'.len
      BY <1>1, <2>2, <2>6, FullArena
    <3> QED
      BY <2>4, <3>1 DEF NoGrowthBeyondPeak
  <2>7. CASE arena.free # {}
    BY <1>1, <1>2, <2>2, <2>4, <2>5, <2>7 DEF NoGrowthBeyondPeak
  <2> QED
    BY <2>6, <2>7
<1>4. ASSUME NEW keep, Retain(keep) PROVE NoGrowthBeyondPeak'
  <2>1. /\ arena' = FreeSlots(arena, Indices(arena) \ keep)
        /\ UNCHANGED peak
    BY <1>4 DEF Retain
  <2>2. arena'.len = arena.len
    BY <1>1, <2>1, FreeSlotsProperties
  <2> QED
    BY <2>1, <2>2 DEF NoGrowthBeyondPeak
<1>5. CASE Abort
  <2>1. /\ txs # <<>>
        /\ arena' = Rollback(arena, Mark(txs[Len(txs)]))
        /\ UNCHANGED peak
    BY <1>5 DEF Abort, Innermost
  <2>2. /\ DOMAIN txs = 1 .. Len(txs)
        /\ Len(txs) \in Nat \ {0}
    BY <1>1, <2>1, LeaveTx DEF Pop
  <2>3. Len(txs) \in DOMAIN txs
    BY <2>2
  <2>4. txs[Len(txs)].len <= arena.len
    BY <2>3 DEF TypeInv, Nested
  <2>5. arena'.len = txs[Len(txs)].len
    BY <1>1, <2>1, <2>3, <2>4, RollbackProperties
  <2> QED
    BY <1>1, <1>2, <2>1, <2>4, <2>5 DEF NoGrowthBeyondPeak
<1>6. CASE UNCHANGED <<arena, peak>>
  BY <1>6 DEF NoGrowthBeyondPeak
<1> QED
  BY <1>3, <1>4, <1>5, <1>6 DEF Next, Begin, Commit, vars

\* arena.rs:10: because the lowest freed slot is refilled first and a rollback
\* never lengthens the arena, the slots in use never outnumber the most values
\* that were live at once, whatever the history.
THEOREM GrowthIsBounded == Spec => []NoGrowthBeyondPeak
<1>1. Init => NoGrowthBeyondPeak
  BY DEF Init, EmptyArena, NoGrowthBeyondPeak
<1>2. TypeInv /\ NoGrowthBeyondPeak /\ [Next]_vars
        => (TypeInv /\ NoGrowthBeyondPeak)'
  BY TypeNext, GrowthNext
<1> QED
  BY <1>1, <1>2, TypeInit, PTL DEF Spec

\* The native format: at any point of any history the slots written out and
\* read back are the arena, the free set that is not written included, so
\* the ids a reloaded model mints next are those the saved one would have.
THEOREM ReloadIsExact == Spec => []NativeRoundTrip
<1>1. TypeInv => NativeRoundTrip
  BY ReadBackIsTheArena DEF TypeInv, TypeOK, NativeRoundTrip
<1> QED
  BY <1>1, TypeInit, TypeNext, PTL DEF Spec

-----------------------------------------------------------------------------
(***************************************************************************)
(* The arena implements the slotless promise.                              *)
(***************************************************************************)

\* The mapping of the refinement: what is stored under each live id, and the
\* ids each open transaction found.
Store(a) == [id \in LiveIds(a) |-> a.val[id.slot]]
Open(t) == [k \in DOMAIN t |-> LiveIds(t[k])]

LEMMA OpenIsASeq ==
    ASSUME NEW t, t \in Seq({t[k] : k \in DOMAIN t})
    PROVE  /\ Open(t) \in Seq({LiveIds(t[k]) : k \in DOMAIN t})
           /\ Len(Open(t)) = Len(t)
           /\ DOMAIN t = 1 .. Len(t)
           /\ Len(t) \in Nat
           /\ \A k \in 1 .. Len(t) : Open(t)[k] = LiveIds(t[k])
<1>1. DOMAIN t = 1 .. Len(t) /\ Len(t) \in Nat
  BY LenProperties
<1> DEFINE o == Open(t)
           S == {LiveIds(t[k]) : k \in DOMAIN t}
<1>2. /\ \A k \in 1 .. Len(t) : o[k] = LiveIds(t[k])
      /\ o = [k \in 1 .. Len(t) |-> LiveIds(t[k])]
  BY <1>1 DEF Open
<1>3. o \in [1 .. Len(t) -> S]
  BY <1>1, <1>2
<1> HIDE DEF o, S
<1>4. o \in Seq(S) /\ Len(o) = Len(t)
  BY <1>1, <1>3
<1> QED
  BY <1>1, <1>2, <1>4 DEF o, S

LEMMA OpenOfEntered ==
    ASSUME NEW t, t \in Seq({t[k] : k \in DOMAIN t}), NEW e
    PROVE  Open(Append(t, e)) = Append(Open(t), LiveIds(e))
<1> DEFINE u == Append(t, e)
           S == {LiveIds(t[k]) : k \in DOMAIN t} \cup {LiveIds(e)}
           x == Append(Open(t), LiveIds(e))
<1>1. /\ u \in Seq({u[k] : k \in DOMAIN u})
      /\ DOMAIN u = 1 .. (Len(t) + 1)
      /\ Len(t) \in Nat
      /\ \A k \in 1 .. Len(t) : u[k] = t[k]
      /\ u[Len(t) + 1] = e
  BY EnterTx
<1> HIDE DEF u
<1>2. /\ Open(u) \in Seq({LiveIds(u[k]) : k \in DOMAIN u})
      /\ Len(Open(u)) = Len(u)
      /\ DOMAIN u = 1 .. Len(u)
      /\ Len(u) \in Nat
      /\ \A k \in 1 .. Len(u) : Open(u)[k] = LiveIds(u[k])
  BY <1>1, OpenIsASeq
<1>3. Len(u) = Len(t) + 1
  BY <1>1, <1>2
<1>4. /\ Open(t) \in Seq(S)
      /\ Len(Open(t)) = Len(t)
      /\ \A k \in 1 .. Len(t) : Open(t)[k] = LiveIds(t[k])
  <2> DEFINE T == {LiveIds(t[k]) : k \in DOMAIN t}
  <2>1. /\ Open(t) \in Seq(T)
        /\ Len(Open(t)) = Len(t)
        /\ \A k \in 1 .. Len(t) : Open(t)[k] = LiveIds(t[k])
    BY OpenIsASeq
  <2>2. T \subseteq S
    OBVIOUS
  <2> QED
    BY <2>1, <2>2, SeqMonotonic
<1>5. LiveIds(e) \in S
  OBVIOUS
<1> HIDE DEF S
<1>6. /\ x \in Seq(S)
      /\ Len(x) = Len(t) + 1
      /\ \A k \in 1 .. Len(t) : x[k] = LiveIds(t[k])
      /\ x[Len(t) + 1] = LiveIds(e)
  BY <1>4, <1>5, AppendProperties
<1> HIDE DEF x
<1>7. \A k \in 1 .. (Len(t) + 1) : x[k] = Open(u)[k]
  <2> SUFFICES ASSUME NEW k \in 1 .. (Len(t) + 1) PROVE x[k] = Open(u)[k]
    OBVIOUS
  <2>1. CASE k \in 1 .. Len(t)
    BY <1>1, <1>2, <1>3, <1>6, <2>1
  <2>2. CASE k = Len(t) + 1
    BY <1>1, <1>2, <1>3, <1>6, <2>2
  <2> QED
    BY <1>1, <2>1, <2>2
<1>8. Open(u) \in Seq(S)
  <2>1. \A k \in 1 .. Len(u) : Open(u)[k] \in S
    BY <1>3, <1>5, <1>6, <1>7, ElementOfSeq
  <2> QED
    BY <1>2, <2>1
<1>9. x = Open(u)
  BY <1>2, <1>3, <1>6, <1>7, <1>8, SeqEqual
<1> QED
  BY <1>9 DEF x, u

LEMMA OpenOfLeft ==
    ASSUME NEW t, t \in Seq({t[k] : k \in DOMAIN t}), t # <<>>
    PROVE  /\ Open(t) # <<>>
           /\ Open(Pop(t)) = SubSeq(Open(t), 1, Len(Open(t)) - 1)
           /\ Open(t)[Len(Open(t))] = LiveIds(t[Len(t)])
<1> DEFINE u == Pop(t)
           n == Len(t) - 1
           S == {LiveIds(t[k]) : k \in DOMAIN t}
           x == SubSeq(Open(t), 1, n)
<1>1. /\ Len(t) \in Nat \ {0}
      /\ DOMAIN t = 1 .. Len(t)
      /\ u \in Seq({u[k] : k \in DOMAIN u})
      /\ \A k \in DOMAIN u : k \in DOMAIN t /\ k < Len(t) /\ u[k] = t[k]
  BY LeaveTx DEF Pop
<1>2. Len(u) = n
  BY <1>1, SubSeqProperties DEF Pop
<1> HIDE DEF u
<1>3. /\ Open(t) \in Seq(S)
      /\ Len(Open(t)) = Len(t)
      /\ \A k \in 1 .. Len(t) : Open(t)[k] = LiveIds(t[k])
  BY OpenIsASeq
<1>4. /\ Open(u) \in Seq({LiveIds(u[k]) : k \in DOMAIN u})
      /\ Len(Open(u)) = n
      /\ DOMAIN u = 1 .. n
      /\ \A k \in 1 .. n : Open(u)[k] = LiveIds(u[k])
  BY <1>1, <1>2, OpenIsASeq
<1>5. n \in Nat /\ n < Len(t)
  BY <1>1
<1>6. \A k \in 1 .. n : Open(t)[k] \in S
  <2> SUFFICES ASSUME NEW k \in 1 .. n PROVE Open(t)[k] \in S
    OBVIOUS
  <2>1. k \in 1 .. Len(t)
    BY <1>5
  <2> QED
    BY <1>3, <2>1, ElementOfSeq
<1> HIDE DEF S, n
<1>7. /\ x \in Seq(S)
      /\ Len(x) = n
      /\ \A k \in 1 .. n : x[k] = Open(t)[k]
  BY <1>5, <1>6, SubSeqProperties
<1> HIDE DEF x
<1>8. \A k \in 1 .. n : x[k] = Open(u)[k]
  BY <1>1, <1>3, <1>4, <1>5, <1>7
<1>9. Open(u) \in Seq(S)
  <2>1. \A k \in 1 .. n : Open(u)[k] \in S
    BY <1>6, <1>7, <1>8
  <2> QED
    BY <1>4, <2>1
<1>10. x = Open(u)
  BY <1>4, <1>7, <1>8, <1>9, SeqEqual
<1>11. Open(t) # <<>>
  BY <1>1, <1>3, EmptySeq
<1> QED
  BY <1>1, <1>3, <1>10, <1>11 DEF x, u, n

WithinBound == arena.len <= MaxLen
PromiseInv == StaleInv /\ WithinBound

LEMMA BoundNext ==
    ASSUME TypeInv, WithinBound, [Next]_vars
    PROVE  WithinBound'
<1>1. /\ IsArena(arena, Values)
      /\ \A k \in DOMAIN txs : IsArena(txs[k], Values)
      /\ txs \in Seq({txs[k] : k \in DOMAIN txs})
  BY DEF TypeInv, TypeOK
<1>2. arena.len \in Nat /\ MaxLen \in Nat /\ IsArena(arena', Values)
  <2>1. TypeInv'
    BY TypeNext
  <2> QED
    BY <1>1, <2>1, ArenaFields, ArenaAssumption DEF TypeInv, TypeOK
<1>3. ASSUME NEW v \in Values, AppendValue(v) PROVE WithinBound'
  <2>1. /\ arena' = Push(arena, v)
        /\ arena.free = {} => arena.len < MaxLen
    BY <1>3 DEF AppendValue
  <2>2. arena'.len = IF arena.free = {} THEN arena.len + 1 ELSE arena.len
    BY <1>1, <2>1, PushProperties
  <2> QED
    BY <1>2, <2>1, <2>2 DEF WithinBound
<1>4. ASSUME NEW keep, Retain(keep) PROVE WithinBound'
  <2>1. arena' = FreeSlots(arena, Indices(arena) \ keep)
    BY <1>4 DEF Retain
  <2>2. arena'.len = arena.len
    BY <1>1, <2>1, FreeSlotsProperties
  <2> QED
    BY <2>2 DEF WithinBound
<1>5. CASE Abort
  <2>1. /\ txs # <<>>
        /\ arena' = Rollback(arena, Mark(txs[Len(txs)]))
    BY <1>5 DEF Abort, Innermost
  <2>2. Len(txs) \in DOMAIN txs
    BY <1>1, <2>1, LeaveTx
  <2>3. txs[Len(txs)].len <= arena.len
    BY <2>2 DEF TypeInv, Nested
  <2>4. IsArena(txs[Len(txs)], Values)
    BY <1>1, <2>2
  <2>5. arena'.len = txs[Len(txs)].len
    BY <1>1, <1>2, <2>1, <2>2, <2>3, RollbackProperties
  <2>6. txs[Len(txs)].len \in Nat
    BY <2>4, ArenaFields
  <2> QED
    BY <1>2, <2>3, <2>5, <2>6 DEF WithinBound
<1>6. CASE UNCHANGED arena
  BY <1>6 DEF WithinBound
<1> QED
  BY <1>3, <1>4, <1>5, <1>6 DEF Next, Begin, Commit, vars

LEMMA PromiseInvInductive ==
    ASSUME ~ RetainInTx, GenLimit < GenModulus
    PROVE  Spec => []PromiseInv
<1>1. Init => PromiseInv
  <2>1. Init => arena.len = 0
    BY DEF Init, EmptyArena
  <2> QED
    BY <2>1, StaleInit, ArenaAssumption DEF PromiseInv, WithinBound
<1>2. PromiseInv /\ [Next]_vars => PromiseInv'
  BY StaleInvNext, BoundNext DEF PromiseInv, StaleInv, GrowInv
<1> QED
  BY <1>1, <1>2, PTL DEF Spec

\* Every step of the arena is a step of the promise on the mapped state, or
\* leaves it alone.
LEMMA StepIsPromised ==
    ASSUME PromiseInv, PromiseInv', ~ RetainInTx, [Next]_vars
    PROVE  [Promise!Next]_(Promise!vars)
<1>1. /\ IsArena(arena, Values)
      /\ IsArena(arena', Values)
      /\ \A k \in DOMAIN txs : IsArena(txs[k], Values)
      /\ txs \in Seq({txs[k] : k \in DOMAIN txs})
  BY DEF PromiseInv, StaleInv, GrowInv, TypeInv, TypeOK
<1>2. /\ Promise!vars = <<Store(arena), retired, Open(txs)>>
      /\ Promise!vars' = <<Store(arena'), retired', Open(txs')>>
  BY DEF Promise!vars, Store, Open
<1>3. ASSUME NEW v \in Values, AppendValue(v) PROVE Promise!Mint
  <2>1. /\ arena' = Push(arena, v)
        /\ UNCHANGED <<txs, retired>>
    BY <1>3 DEF AppendValue
  <2>2. PICK id \in LiveIds(arena') :
             /\ id \notin LiveIds(arena)
             /\ LiveIds(arena') = LiveIds(arena) \cup {id}
             /\ arena'.val[id.slot] = v
             /\ \A x \in LiveIds(arena) : arena'.val[x.slot] = arena.val[x.slot]
    BY <1>1, <2>1, LiveAfterPush
  <2>3. PICK i \in Occupied(arena') : id = IdOf(arena', i)
    BY <2>2 DEF LiveIds
  <2>4. /\ arena'.len \in Nat
        /\ arena'.gen \in [Indices(arena') -> 0 .. (GenModulus - 1)]
        /\ Occupied(arena') \subseteq Indices(arena')
    BY <1>1, ArenaFields
  <2>5. id \in [slot : 0 .. (MaxLen - 1), gen : 0 .. (GenModulus - 1)]
    <3>1. i \in 0 .. (MaxLen - 1)
      BY <2>3, <2>4, ArenaAssumption DEF Indices, PromiseInv, WithinBound
    <3> QED
      BY <2>3, <2>4, <3>1 DEF IdOf
  <2>6. id \notin retired
    <3> SUFFICES ASSUME id \in retired PROVE FALSE
      OBVIOUS
    <3>1. id.gen < arena'.gen[id.slot]
      BY <2>1 DEF PromiseInv, StaleInv, Stale
    <3>2. id.gen = arena'.gen[id.slot] /\ id.gen \in Nat
      BY <2>3, <2>4 DEF IdOf
    <3> QED
      BY <3>1, <3>2
  <2>7. DOMAIN Store(arena) = LiveIds(arena)
    BY DEF Store
  <2>8. Store(arena') = [x \in DOMAIN Store(arena) \cup {id} |->
                            IF x = id THEN v ELSE Store(arena)[x]]
    BY <2>2 DEF Store
  <2>9. Open(txs') = Open(txs)
    BY <2>1
  <2> QED
    BY <2>1, <2>2, <2>5, <2>6, <2>7, <2>8, <2>9 DEF Promise!Mint, Store, Open
<1>4. ASSUME NEW keep \in SUBSET Occupied(arena), Retain(keep)
      PROVE  Promise!Retire
  <2> DEFINE ids == {IdOf(arena, i) : i \in Occupied(arena) \ keep}
  <2>1. /\ arena' = FreeSlots(arena, Indices(arena) \ keep)
        /\ retired' = retired \cup ids
        /\ UNCHANGED txs
    BY <1>4 DEF Retain
  <2>2. /\ Occupied(arena') = Occupied(arena) \ (Indices(arena) \ keep)
        /\ \A j \in Occupied(arena') : arena'.val[j] = arena.val[j]
        /\ \A j \in Indices(arena) : arena'.gen[j] =
              IF j \in (Indices(arena) \ keep) \cap Occupied(arena)
              THEN Bump(arena.gen[j]) ELSE arena.gen[j]
    BY <1>1, <2>1, FreeSlotsProperties
  <2>3. Occupied(arena) \subseteq Indices(arena)
    BY <1>1, ArenaFields
  <2>4. Occupied(arena') = keep
    BY <2>2, <2>3
  <2>5. \A j \in keep : IdOf(arena', j) = IdOf(arena, j)
    BY <2>2, <2>3, <2>4 DEF IdOf
  <2>6. LiveIds(arena') = LiveIds(arena) \ ids
    <3>1. \A i, j : IdOf(arena, i) = IdOf(arena, j) => i = j
      BY DEF IdOf
    <3> QED
      BY <2>4, <2>5, <3>1 DEF LiveIds
  <2>7. \A id \in LiveIds(arena') : arena'.val[id.slot] = arena.val[id.slot]
    BY <2>2 DEF LiveIds, IdOf
  <2>8. /\ ids \subseteq LiveIds(arena)
        /\ DOMAIN Store(arena) = LiveIds(arena)
    BY DEF LiveIds, Store
  <2> HIDE DEF ids
  <2>9. LiveIds(arena') \subseteq LiveIds(arena)
    BY <2>6
  <2>10. Store(arena') = [id \in DOMAIN Store(arena) \cap LiveIds(arena') |->
                            Store(arena)[id]]
    BY <2>7, <2>9 DEF Store
  <2>11. LiveIds(arena') = DOMAIN Store(arena) \ ids
    BY <2>6, <2>8
  <2>12. Open(txs') = Open(txs)
    BY <2>1
  <2> QED
    BY <2>1, <2>8, <2>10, <2>11, <2>12
       DEF Promise!Retire, Promise!Restrict, Store, Open
<1>5. CASE Begin
  <2>1. /\ txs' = Append(txs, arena)
        /\ UNCHANGED <<arena, retired>>
    BY <1>5 DEF Begin
  <2>2. Open(txs') = Append(Open(txs), LiveIds(arena))
    BY <1>1, <2>1, OpenOfEntered
  <2>3. DOMAIN Store(arena) = LiveIds(arena) /\ Store(arena') = Store(arena)
    BY <2>1 DEF Store
  <2>4. Promise!Begin
    BY <2>1, <2>2, <2>3 DEF Promise!Begin, Store, Open
  <2> QED
    BY <2>4 DEF Promise!Next
<1>6. CASE Commit
  <2>1. /\ txs # <<>>
        /\ txs' = Pop(txs)
        /\ UNCHANGED <<arena, retired>>
    BY <1>6 DEF Commit
  <2>2. /\ Open(txs) # <<>>
        /\ Open(txs') = SubSeq(Open(txs), 1, Len(Open(txs)) - 1)
    BY <1>1, <2>1, OpenOfLeft
  <2>3. Store(arena') = Store(arena)
    BY <2>1
  <2>4. Promise!Commit
    BY <2>1, <2>2, <2>3 DEF Promise!Commit, Store, Open
  <2> QED
    BY <2>4 DEF Promise!Next
<1>7. CASE Abort
  <2>1. /\ txs # <<>>
        /\ txs' = Pop(txs)
        /\ arena' = Rollback(arena, Mark(txs[Len(txs)]))
        /\ UNCHANGED retired
    BY <1>7 DEF Abort, Innermost
  <2>2. /\ Open(txs) # <<>>
        /\ Open(txs') = SubSeq(Open(txs), 1, Len(Open(txs)) - 1)
        /\ Open(txs)[Len(Open(txs))] = LiveIds(txs[Len(txs)])
    BY <1>1, <2>1, OpenOfLeft
  <2>3. Len(txs) \in DOMAIN txs
    BY <1>1, <2>1, LeaveTx
  <2>4. Extends(arena, txs[Len(txs)])
    BY <2>3 DEF PromiseInv, StaleInv, GrowInv, Growing
  <2>5. arena' = txs[Len(txs)]
    BY <1>1, <2>1, <2>3, <2>4, RollbackUndoesAppends
  <2>6. Occupied(arena') \subseteq Indices(arena')
    BY <1>1, ArenaFields
  <2>7. /\ \A i \in Occupied(arena') : /\ IdOf(arena', i) = IdOf(arena, i)
                                       /\ i \in Occupied(arena)
                                       /\ arena.val[i] = arena'.val[i]
    BY <2>4, <2>5, <2>6 DEF Extends, IdOf
  <2>8. /\ LiveIds(arena') \subseteq LiveIds(arena)
        /\ \A id \in LiveIds(arena') : arena'.val[id.slot] = arena.val[id.slot]
    <3>1. \A i : IdOf(arena', i).slot = i
      BY DEF IdOf
    <3> QED
      BY <2>7, <3>1 DEF LiveIds
  <2>9. Store(arena') = [id \in DOMAIN Store(arena) \cap LiveIds(arena') |->
                            Store(arena)[id]]
    BY <2>8 DEF Store
  <2>10. Open(txs)[Len(Open(txs))] = LiveIds(arena')
    BY <2>2, <2>5
  <2>11. Promise!Abort
    BY <2>1, <2>2, <2>9, <2>10 DEF Promise!Abort, Promise!Restrict, Store, Open
  <2> QED
    BY <2>11 DEF Promise!Next
<1>8. CASE UNCHANGED vars
  BY <1>2, <1>8 DEF vars
<1> QED
  BY <1>3, <1>4, <1>5, <1>6, <1>7, <1>8 DEF Next, Promise!Next

\* The arena implements the slotless promise of the module comment of
\* arena.rs and of `Model::transaction`: seen through the ids, an append mints
\* an id never used before, `retain` retires ids for good, and an error takes
\* back exactly what its transaction minted - refilled slots, the free set and
\* the generations nowhere show.
THEOREM ArenaImplementsPromise ==
    ASSUME ~ RetainInTx, GenLimit < GenModulus
    PROVE  Spec => ImplementsPromise
<1>1. Init => Promise!Init
  <2> SUFFICES ASSUME Init PROVE Promise!Init
    OBVIOUS
  <2>1. /\ arena = EmptyArena
        /\ txs = <<>>
        /\ retired = {}
    BY DEF Init
  <2>2. LiveIds(arena) = {}
    BY <2>1 DEF LiveIds, Occupied, EmptyArena, EmptyFun
  <2>3. Store(arena) = [id \in {} |-> {}]
    BY <2>2 DEF Store
  <2>4. Open(txs) = <<>>
    BY <2>1 DEF Open
  <2> QED
    BY <2>1, <2>3, <2>4 DEF Promise!Init, Store, Open
<1>2. PromiseInv /\ PromiseInv' /\ [Next]_vars => [Promise!Next]_(Promise!vars)
  BY StepIsPromised
<1>3. Spec => []PromiseInv
  BY PromiseInvInductive
<1> QED
  BY <1>1, <1>2, <1>3, PTL DEF Spec, ImplementsPromise, Promise!Spec
=============================================================================
