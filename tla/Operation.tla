----------------------------- MODULE Operation -----------------------------
(***************************************************************************)
(* How an operation uses the builder: it starts one from nothing or        *)
(* assembles one from a body of the model, keeping the faces it leaves     *)
(* alone, edits it with Euler operators, and finishes it into the model as *)
(* a new body that shares what was kept.                                   *)
(***************************************************************************)
EXTENDS Assembly

CONSTANTS
    MaxV, MaxE, MaxF,                 \* bounds on the builder
    MaxBodies,                        \* bound: bodies ever finished
    Seeds, Struts, Splits, Joins,     \* what the operators are called with
    Pcurves,
    Assemblies                        \* assemblies of new entities alone

ASSUME OperationAssumption == MaxBodies \in Nat

VARIABLES m,     \* the model: what was finished
          b,     \* the builder
          open   \* is there one

vars == <<m, b, open>>

Init == m = EmptyStore /\ b = EmptyBuilder /\ open = FALSE

Ops == INSTANCE Builder WITH Starts <- {EmptyBuilder}

NewBuilder == /\ ~ open
              /\ b' = EmptyBuilder
              /\ open' = TRUE /\ UNCHANGED m

AssembleWith(asm) == /\ ~ open
                     /\ Accepts(m, asm)
                     /\ b' = Assemble(m, asm)
                     /\ open' = TRUE /\ UNCHANGED m
AssembleSome == \E body \in DOMAIN m.bodies :
                  \E kept \in SUBSET FacesOfBody(m, body) :
                     AssembleWith(KeepSome(m, body, kept))
AssembleCopy == \E body \in DOMAIN m.bodies : AssembleWith(OfBody(m, body))
AssembleNew == \E asm \in Assemblies : AssembleWith(asm)

Edit == open /\ Ops!Next /\ UNCHANGED <<m, open>>

FinishBody == /\ open /\ CanFinish(b) /\ Len(m.bodies) < MaxBodies
              /\ m' = Finish(m, b)
              /\ b' = EmptyBuilder /\ open' = FALSE

Drop == /\ open
        /\ b' = EmptyBuilder /\ open' = FALSE
        /\ UNCHANGED m

Next == NewBuilder \/ AssembleSome \/ AssembleCopy \/ AssembleNew
          \/ Edit \/ FinishBody \/ Drop
Spec == Init /\ [][Next]_vars

-----------------------------------------------------------------------------
(***************************************************************************)
(* Properties.                                                             *)
(***************************************************************************)

UsesOfShell(s) ==
    UNION {UNION {ToSet(Effective(use.dir, m.faces[use.id].loops[li])) :
                    li \in DOMAIN m.faces[use.id].loops} : use \in ToSet(m.shells[s])}

\* Every id stored resolves, and the builder's slots are sound.
TypeOK ==
    /\ Ops!TypeOK
    /\ \A e \in DOMAIN m.edges : {m.edges[e].start, m.edges[e].end} \subseteq 1 .. m.vertices
    /\ \A f \in DOMAIN m.faces : \A li \in DOMAIN m.faces[f].loops :
          \A u \in ToSet(m.faces[f].loops[li]) : u.edge \in DOMAIN m.edges
    /\ \A s \in DOMAIN m.shells : \A use \in ToSet(m.shells[s]) : use.id \in DOMAIN m.faces

ArenaUses(l) == [k \in DOMAIN l.uses |-> [l.uses[k] EXCEPT !.edge = b.e.at[@].kept]]
Rotations(uses) == {RotateTo(uses, k) : k \in DOMAIN uses}

\* "A kept slot *is* the arena's entity": whatever operators ran, a slot that
\* still carries its mark says what the arena's entity says - a face kept is
\* the stored face walked from its shell's side, over kept edges.
KeptIsTheArenas ==
    /\ \A e \in LiveSlots(b.e) : LET x == b.e.at[e] IN x.kept # 0 =>
          /\ b.v.at[x.start].kept = m.edges[x.kept].start
          /\ b.v.at[x.end].kept = m.edges[x.kept].end
          /\ x.deg = m.edges[x.kept].deg
    /\ \A f \in LiveSlots(b.f) : LET x == b.f.at[f] IN x.kept # 0 =>
          /\ x.surf = m.faces[x.kept].surf
          /\ Len(x.loops) = Len(m.faces[x.kept].loops)
          /\ \A l \in ToSet(m.faces[x.kept].loops) : \E k \in ToSet(x.loops) :
                Effective(x.dir, l) \in Rotations(ArenaUses(k))
\* The checker's fast invariants of every body ever finished, whatever was
\* kept: a stored loop closes about its surface's normal (L1), and a shell
\* walks an edge once each way, a degenerate one once (S2, S4).
StoredEnds(u) == IF u.dir = FORWARD THEN <<m.edges[u.edge].start, m.edges[u.edge].end>>
                                    ELSE <<m.edges[u.edge].end, m.edges[u.edge].start>>
BodiesAreClosed ==
    ~ open =>
        /\ \A f \in DOMAIN m.faces : \A loop \in ToSet(m.faces[f].loops) :
              \A k \in DOMAIN loop :
                StoredEnds(loop[k])[2] = StoredEnds(loop[(k % Len(loop)) + 1])[1]
        /\ \A body \in DOMAIN m.bodies : \A s \in ToSet(m.bodies[body]) :
              \A e \in {u.edge : u \in UsesOfShell(s)} :
                LET uses == {u \in UsesOfShell(s) : u.edge = e}
                IN  m.edges[e].deg \/ {u.dir : u \in uses} = {FORWARD, REVERSED}

\* What is read back is what was finished: `of_body` of a finished body
\* describes the builder it was finished from, slots renumbered in order.
Unmarked(p) == [s \in LiveSlots(p) |-> [p.at[s] EXCEPT !.kept = 0]]
RankIn(p, s) == Cardinality({t \in LiveSlots(p) : t < s})
Compacted(x) ==
    LET v(s) == RankIn(x.v, s)
        e(s) == RankIn(x.e, s)
        slots(p) == Ascending(LiveSlots(p))
    IN  [v |-> [k \in 0 .. (Cardinality(LiveSlots(x.v)) - 1) |-> NewVertex],
         e |-> [k \in 0 .. (Cardinality(LiveSlots(x.e)) - 1) |->
                  LET y == x.e.at[slots(x.e)[k + 1]]
                  IN  NewEdge(v(y.start), v(y.end), y.deg)],
         f |-> [k \in 0 .. (Cardinality(LiveSlots(x.f)) - 1) |->
                  LET y == x.f.at[slots(x.f)[k + 1]]
                  IN  [y EXCEPT !.kept = 0, !.loops =
                         [li \in DOMAIN @ |->
                            Loop([i \in DOMAIN @[li].uses |->
                                    [@[li].uses[i] EXCEPT !.edge = e(@)]], 0)]]],
         genus |-> x.genus]
Alone(x) == [x EXCEPT !.v.at = Unmarked(x.v), !.e.at = Unmarked(x.e),
                      !.f.at = Unmarked(x.f)]
OneShell(x) == ShellNumbers(x) = {0} /\ Connected(x, 0)
ReadBackIsFinished ==
    (CanFinish(b) /\ OneShell(b)) =>
        LET stored == Finish(EmptyStore, Alone(b))
            again == Assemble(stored, OfBody(stored, 1))
            flat == [v |-> again.v.at, e |-> again.e.at, f |-> again.f.at,
                     genus |-> again.genus]
        IN  Accepts(stored, OfBody(stored, 1)) /\ flat = Compacted(b)

\* "assemble proves what the operators would have kept true": a connected
\* body the operators made, ready to finish, passes every test of assemble,
\* and the genus its counts imply is the one the operators kept.
OperatorsKeepWhatAssembleProves ==
    (CanFinish(b) /\ OneShell(b)) => Proven(b) /\ AssembledGenus(b) = b.genus

\* Keeping is invisible: a body `assemble` takes as a copy it takes however
\* its faces are divided into kept ones and copies over kept edges, with the
\* same genus, and the builder can be finished with no operator applied.
KeepingIsInvisible ==
    ~ open => \A body \in DOMAIN m.bodies : Accepts(m, OfBody(m, body)) =>
        \A kept \in SUBSET FacesOfBody(m, body) :
            LET asm == KeepSome(m, body, kept)
            IN  /\ Accepts(m, asm) /\ CanFinish(Assemble(m, asm))
                /\ Assemble(m, asm).genus = Assemble(m, OfBody(m, body)).genus
KeepingIsSound == TypeOK /\ KeptIsTheArenas /\ KeepingIsInvisible

-----------------------------------------------------------------------------
(* What the documentation promises and a run refutes.                      *)

\* builder.rs Assembly, "a shell shares no edge and no vertex with another".
FinishedShellsShareNothing == (open /\ CanFinish(b)) => ShellsShareNothing(b)
=============================================================================
