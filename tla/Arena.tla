------------------------------- MODULE Arena -------------------------------
(***************************************************************************)
(* One arena of a model under its whole life: appends, frees by `retain`,  *)
(* nested transactions that commit or roll back.  The operators are those  *)
(* of Slots; this module adds who calls them and in which order.           *)
(*                                                                         *)
(* A transaction is the code's `Model::transaction`: the mark is taken on  *)
(* entry, the closure may append (and, unless RetainInTx is FALSE, call    *)
(* `retain`), and an error rolls back to the mark.  `txs` holds the whole  *)
(* arena of entry, of which the code keeps the mark and the rollback reads *)
(* nothing else; `retired` and `peak` are history, what the code does not  *)
(* keep but promises about.                                                *)
(***************************************************************************)
EXTENDS Slots, FiniteSets, Sequences

CONSTANTS
    Values,      \* what is stored; opaque to the arena
    MaxLen,      \* bound: slots ever minted at once (u32::MAX in the code)
    MaxDepth,    \* bound: nested transactions
    GenLimit,    \* bound: a slot at this generation is freed no more;
                 \* GenLimit = GenModulus lets the counter wrap
    RetainInTx   \* may the closure of a transaction call `retain`

ASSUME ArenaAssumption ==
    /\ MaxLen \in Nat
    /\ MaxDepth \in Nat
    /\ GenLimit \in 0 .. GenModulus
    /\ RetainInTx \in BOOLEAN

VARIABLES
    arena,    \* the arena
    txs,      \* the open transactions, innermost last: the arena of entry
    retired,  \* history: ids freed by `retain`
    peak      \* history: the most slots ever live at once

vars == <<arena, txs, retired, peak>>

Live(a) == Cardinality(Occupied(a))
Innermost == txs[Len(txs)]
Pop(s) == SubSeq(s, 1, Len(s) - 1)
MaxOf(m, n) == IF m < n THEN n ELSE m

Init == /\ arena = EmptyArena
        /\ txs = <<>>
        /\ retired = {}
        /\ peak = 0

\* An append: `Model::push_*` and `add_*`.
AppendValue(v) ==
    /\ arena.free = {} => arena.len < MaxLen
    /\ arena' = Push(arena, v)
    /\ peak' = MaxOf(peak, Live(arena'))
    /\ UNCHANGED <<txs, retired>>

\* `retain`: every live slot outside `keep` is freed, in a transaction too.
Retain(keep) ==
    /\ txs = <<>> \/ RetainInTx
    /\ \A i \in Occupied(arena) \ keep : arena.gen[i] < GenLimit
    /\ arena' = FreeSlots(arena, Indices(arena) \ keep)
    /\ retired' = retired \cup {IdOf(arena, i) : i \in Occupied(arena) \ keep}
    /\ UNCHANGED <<txs, peak>>

\* Entry of `Model::transaction`.
Begin == /\ Len(txs) < MaxDepth
         /\ txs' = Append(txs, arena)
         /\ UNCHANGED <<arena, retired, peak>>

\* The closure returned Ok: everything stays.
Commit == /\ txs # <<>>
          /\ txs' = Pop(txs)
          /\ UNCHANGED <<arena, retired, peak>>

\* The closure returned Err.
Abort == /\ txs # <<>>
         /\ arena' = Rollback(arena, Mark(Innermost))
         /\ txs' = Pop(txs)
         /\ UNCHANGED <<retired, peak>>

Next == \/ \E v \in Values : AppendValue(v)
        \/ \E keep \in SUBSET Occupied(arena) : Retain(keep)
        \/ Begin
        \/ Commit
        \/ Abort

Spec == Init /\ [][Next]_vars

-----------------------------------------------------------------------------
(***************************************************************************)
(* Properties.                                                             *)
(***************************************************************************)

\* The types; IsArena says that the free set, which push, free_slot, rollback
\* and truncate each keep by hand, is exactly the slots that hold no value.
TypeOK ==
    /\ IsArena(arena, Values)
    /\ peak \in Nat
    /\ retired \subseteq [slot : Nat, gen : 0 .. (GenModulus - 1)]
    /\ txs \in Seq({txs[k] : k \in DOMAIN txs})
    /\ \A k \in DOMAIN txs : IsArena(txs[k], Values)

\* arena.rs:6, "a stale id never aliases a later occupant": an id `retain`
\* took away resolves never again, whatever is freed, refilled or rolled
\* back after it.
StaleNeverResolves == \A id \in retired : ~ Resolves(arena, id)

\* arena.rs rollback, "as if the transaction had never run": an error now,
\* at any depth, gives back the arena of entry - the values, the
\* generations, the free set and so the ids minted next.
RollbackRestores ==
    \A k \in DOMAIN txs : Rollback(arena, Mark(txs[k])) = txs[k]

\* arena.rs:10, "a long-lived model does not grow without bound": the slots
\* in use never outnumber the most values that were live at once.
NoGrowthBeyondPeak == arena.len <= peak

\* `push_slot`, the native format: the slots written out and read back are
\* the same arena, its free set and next id included.
NativeRoundTrip == ReadBack(SlotsOf(arena), arena.len) = arena

\* The arena implements the slotless promise; the transactions' entry states
\* give the ids found on entry.
Promise == INSTANCE IdStore WITH
    Ids     <- [slot : 0 .. (MaxLen - 1), gen : 0 .. (GenModulus - 1)],
    store   <- [id \in LiveIds(arena) |-> arena.val[id.slot]],
    open    <- [k \in DOMAIN txs |-> LiveIds(txs[k])]
ImplementsPromise == Promise!Spec
=============================================================================
