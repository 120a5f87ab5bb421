------------------------------- MODULE Import -------------------------------
(***************************************************************************)
(* `Model::import` (crates/arris-topo/src/model.rs) and the id map it      *)
(* returns (idmap.rs): the closure of a body of one model is appended to   *)
(* another inside a transaction, kind by kind from the vertices up and in  *)
(* id order, every reference translated through the map so far.  The model *)
(* imported into may be full of holes, and may be a clone of the other.    *)
(***************************************************************************)
EXTENDS ModelOps

EmptyIdMap == [kind \in Kinds |-> EmptyFun]

\* The references an entity holds, kind by kind.
References(kind, x) ==
    [k \in Kinds |->
        CASE kind = "edge"  /\ k = "vertex" -> {x.start, x.end}
          [] kind = "face"  /\ k = "edge"   -> EdgesOf(x)
          [] kind = "shell" /\ k = "face"   -> ToSet(x)
          [] kind = "body"  /\ k = "shell"  -> ToSet(x.shells)
          [] kind = "body"  /\ k = "edge"   -> ToSet(x.edges)
          [] kind = "body"  /\ k = "vertex" -> ToSet(x.verts)
          [] OTHER -> {}]

\* `IdMap::map_entity` over a sequence of ids.
Each(map, ids) == [i \in DOMAIN ids |-> map[ids[i]]]
\* Mutant of Translated: an edge's end keeps its old id.
TranslatedButEnd(map, kind, x) ==
    CASE kind = "vertex" -> x
      [] kind = "edge"   -> [x EXCEPT !.start = map["vertex"][@]]
      [] kind = "face"   -> [l \in DOMAIN x |-> Each(map["edge"], x[l])]
      [] kind = "shell"  -> Each(map["face"], x)
      [] kind = "body"   -> [shells |-> Each(map["shell"], x.shells),
                             edges  |-> Each(map["edge"], x.edges),
                             verts  |-> Each(map["vertex"], x.verts)]
Translated(map, kind, x) ==
    CASE kind = "vertex" -> x
      [] kind = "edge"   -> [start |-> map["vertex"][x.start],
                             end   |-> map["vertex"][x.end]]
      [] kind = "face"   -> [l \in DOMAIN x |-> Each(map["edge"], x[l])]
      [] kind = "shell"  -> Each(map["face"], x)
      [] kind = "body"   -> [shells |-> Each(map["shell"], x.shells),
                             edges  |-> Each(map["edge"], x.edges),
                             verts  |-> Each(map["vertex"], x.verts)]

PushOf(m, kind, x) ==
    CASE kind = "vertex" -> PushVertex(m, x)
      [] kind = "edge"   -> PushEdge(m, x)
      [] kind = "face"   -> PushFace(m, x)
      [] kind = "shell"  -> PushShell(m, x)
      [] kind = "body"   -> PushBody(m, x)

-----------------------------------------------------------------------------
\* Ids ascending, as a closure lists them: by slot, then by generation.
SlotOrder(ids) ==
    LET o == InOrder({<<id.slot, id.gen, 0>> : id \in ids})
    IN  [n \in DOMAIN o |-> [slot |-> o[n][1], gen |-> o[n][2]]]

\* One entity into the model of `st`; a reference the map does not hold is
\* NotFound, and the closure of the transaction returns at once.
CopyOne(st, other, kind, id) ==
    LET x == Get(other, kind, id)
        known == \A k \in Kinds : References(kind, x)[k] \subseteq DOMAIN st.map[k]
    IN  IF ~ st.found \/ ~ known THEN [st EXCEPT !.found = FALSE]
        ELSE [found |-> TRUE,
              m   |-> PushOf(st.m, kind, Translated(st.map, kind, x)),
              map |-> [st.map EXCEPT ![kind] = Put(@, id, NextId(st.m[kind]))]]

\* The loop over the ids of one kind.
CopyAll(st, other, kind, ids) ==
    LET after[n \in 0 .. Len(ids)] ==
          IF n = 0 THEN st ELSE CopyOne(after[n - 1], other, kind, ids[n])
    IN  after[Len(ids)]

\* The kinds in the order they are copied: references go to kinds before.
KindOrder == <<"vertex", "edge", "face", "shell", "body">>

Copied(m, other, body) ==
    LET closure == Closure(other, body)
        upto[n \in 0 .. 5] ==
          IF n = 0 THEN [m |-> m, map |-> EmptyIdMap, found |-> TRUE]
          ELSE CopyAll(upto[n - 1], other, KindOrder[n], SlotOrder(closure[KindOrder[n]]))
    IN  upto[5]

\* Mutant of ImportBody: what was copied before the error stays.
ImportHalf(m, other, body) == Copied(m, other, body)
\* The model after the call, the map, and whether the call returned Ok.
ImportBody(m, other, body) ==
    LET st == Copied(m, other, body)
    IN  IF st.found THEN st
        ELSE [m     |-> RollbackModel(st.m, MarksOf(m)),
              map   |-> EmptyIdMap,
              found |-> FALSE]
=============================================================================
