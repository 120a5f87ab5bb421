------------------------------- MODULE Slots -------------------------------
(***************************************************************************)
(* Slot storage of arris-topo (crates/arris-topo/src/arena.rs) as pure     *)
(* operators on one arena value, so that the machine of one arena and the  *)
(* whole model apply the same code.                                        *)
(*                                                                         *)
(* An arena `a` is a record                                                *)
(*   len   the number of slots ever minted (`Arena::len`)                  *)
(*   gen   the generation of every slot 0 .. len-1                         *)
(*   val   the occupied slots' values: `Option::None` is absence from      *)
(*         DOMAIN val                                                      *)
(*   free  the ordered free set, maintained by the code separately         *)
(* and an id is the pair [slot, gen] that `push` returns.  The chunks that *)
(* clones share until one of them writes are left out: a slot is addressed *)
(* directly.                                                               *)
(***************************************************************************)
EXTENDS Naturals

CONSTANT GenModulus   \* 2^32 in the code: `generation: u32`, `wrapping_add`

ASSUME GenAssumption == GenModulus \in Nat \ {0}

EmptyFun == [i \in {} |-> i]
Put(f, x, y) == [z \in DOMAIN f \cup {x} |-> IF z = x THEN y ELSE f[z]]
Keep(f, S) == [z \in DOMAIN f \cap S |-> f[z]]

EmptyArena == [len |-> 0, gen |-> EmptyFun, val |-> EmptyFun, free |-> {}]

Indices(a) == 0 .. (a.len - 1)
Occupied(a) == DOMAIN a.val
IdOf(a, i) == [slot |-> i, gen |-> a.gen[i]]

\* `Arena::get`: an id resolves when the slot holds a value at its generation.
Resolves(a, id) == id.slot \in Occupied(a) /\ a.gen[id.slot] = id.gen
LiveIds(a) == {IdOf(a, i) : i \in Occupied(a)}

LowestFree(a) == CHOOSE i \in a.free : \A j \in a.free : i <= j
NextSlot(a) == IF a.free = {} THEN a.len ELSE LowestFree(a)
NextId(a) == IF a.free = {} THEN [slot |-> a.len, gen |-> 0]
                            ELSE IdOf(a, LowestFree(a))

\* Mutants of Push: no slot is ever refilled; a refill starts over at
\* generation 0.
PushNoRefill(a, v) ==
    [a EXCEPT !.len = @ + 1, !.gen = Put(@, a.len, 0), !.val = Put(@, a.len, v)]
PushFromZero(a, v) ==
    IF a.free # {}
    THEN [a EXCEPT !.free = @ \ {LowestFree(a)},
                   !.gen  = Put(@, LowestFree(a), 0),
                   !.val  = Put(@, LowestFree(a), v)]
    ELSE PushNoRefill(a, v)

\* `Arena::push`: refill the lowest free slot at its generation, else append.
Push(a, v) ==
    IF a.free # {}
    THEN [a EXCEPT !.free = @ \ {LowestFree(a)},
                   !.val  = Put(@, LowestFree(a), v)]
    ELSE [a EXCEPT !.len = @ + 1,
                   !.gen = Put(@, a.len, 0),
                   !.val = Put(@, a.len, v)]

\* `wrapping_add(1)` on the generation counter.
Bump(g) == IF g + 1 = GenModulus THEN 0 ELSE g + 1

\* Mutants of FreeSlots: the freed slots are not listed; the generation is not
\* bumped.
FreeSlotsUnlisted(a, S) ==
    [a EXCEPT !.val = Keep(@, Occupied(a) \ S),
              !.gen = [i \in Indices(a) |-> IF i \in S \cap Occupied(a)
                                            THEN a.gen[i] + 1 ELSE a.gen[i]]]
FreeSlotsSameGen(a, S) ==
    [a EXCEPT !.val  = Keep(@, Occupied(a) \ S),
              !.free = @ \cup (S \cap Occupied(a))]

\* `Arena::free_slot` over a set of slots, the loop of `retain`'s sweep: a
\* slot that holds no value is left as it is, so the order is immaterial.
FreeSlots(a, S) ==
    LET freed == S \cap Occupied(a)
    IN  [len  |-> a.len,
         gen  |-> [i \in Indices(a) |-> IF i \in freed THEN Bump(a.gen[i])
                                                       ELSE a.gen[i]],
         val  |-> Keep(a.val, Occupied(a) \ freed),
         free |-> a.free \cup freed]

\* Mutant: rollback forgets the refilled slots.
ReusedSinceNone(a, m) == {}

\* `Arena::mark`, `Arena::reused_since`, `Arena::truncate`, `Arena::rollback`.
Mark(a) == [len |-> a.len, free |-> a.free]
ReusedSince(a, m) == m.free \ a.free
Truncate(a, n) ==
    IF n >= a.len THEN a
    ELSE [len  |-> n,
          gen  |-> Keep(a.gen, 0 .. (n - 1)),
          val  |-> Keep(a.val, 0 .. (n - 1)),
          free |-> {i \in a.free : i < n}]
Rollback(a, m) ==
    LET reused == ReusedSince(a, m)
    IN  Truncate([len  |-> a.len,
                  gen  |-> a.gen,
                  val  |-> Keep(a.val, Occupied(a) \ reused),
                  free |-> a.free \cup reused],
                 m.len)

\* What every arena is: the free set is exactly the slots without a value.
IsArena(a, vals) ==
    /\ a \in [len  : Nat,
              gen  : [Indices(a) -> 0 .. (GenModulus - 1)],
              val  : [Occupied(a) -> vals],
              free : SUBSET Indices(a)]
    /\ Occupied(a) \subseteq Indices(a)
    /\ a.free = Indices(a) \ Occupied(a)

\* `Arena::slots` written out and read back by `push_slot`, slot by slot: a
\* slot is a generation and either a value or none, and the free set is not
\* stored but collected from the slots that come back empty.
SlotsOf(a) == [i \in Indices(a) |->
                 [gen  |-> a.gen[i],
                  some |-> i \in Occupied(a),
                  val  |-> IF i \in Occupied(a) THEN {a.val[i]} ELSE {}]]
ReadBackNoFree(slots, n) ==   \* mutant: the free set is not collected
    [len  |-> n,
     gen  |-> [i \in 0 .. (n - 1) |-> slots[i].gen],
     val  |-> [i \in {j \in 0 .. (n - 1) : slots[j].some} |->
                 CHOOSE v \in slots[i].val : TRUE],
     free |-> {}]
ReadBack(slots, n) ==
    [len  |-> n,
     gen  |-> [i \in 0 .. (n - 1) |-> slots[i].gen],
     val  |-> [i \in {j \in 0 .. (n - 1) : slots[j].some} |->
                 CHOOSE v \in slots[i].val : TRUE],
     free |-> {i \in 0 .. (n - 1) : ~ slots[i].some}]
=============================================================================
