------------------------------ MODULE IdStore ------------------------------
(***************************************************************************)
(* What an arena promises, with no slot in it: a map from ids to values in *)
(* which an id once retired is never minted again, and transactions that   *)
(* drop on failure exactly what was minted since they began.  The promise  *)
(* is the module comment of arena.rs ("a stale id never aliases a later    *)
(* occupant") and the doc of `Model::transaction`.                         *)
(***************************************************************************)
EXTENDS Naturals, Sequences

CONSTANTS Ids, Values

VARIABLES store,    \* the live ids and what each stands for
          retired,  \* the ids `retain` took away
          open      \* per open transaction, innermost last: the ids it
                    \* found on entry
vars == <<store, retired, open>>

Restrict(S) == [id \in DOMAIN store \cap S |-> store[id]]

Init == /\ store = [id \in {} |-> {}]
        /\ retired = {}
        /\ open = <<>>

Mint == \E id \in Ids \ (DOMAIN store \cup retired), v \in Values :
          /\ store' = [x \in DOMAIN store \cup {id} |->
                         IF x = id THEN v ELSE store[x]]
          /\ UNCHANGED <<retired, open>>

Retire == \E ids \in SUBSET DOMAIN store :
          /\ store' = Restrict(DOMAIN store \ ids)
          /\ retired' = retired \cup ids
          /\ UNCHANGED open

Begin == /\ open' = Append(open, DOMAIN store)
         /\ UNCHANGED <<store, retired>>

Commit == /\ open # <<>>
          /\ open' = SubSeq(open, 1, Len(open) - 1)
          /\ UNCHANGED <<store, retired>>

Abort == /\ open # <<>>
         /\ store' = Restrict(open[Len(open)])
         /\ open' = SubSeq(open, 1, Len(open) - 1)
         /\ UNCHANGED retired

Next == Mint \/ Retire \/ Begin \/ Commit \/ Abort
Spec == Init /\ [][Next]_vars
=============================================================================
