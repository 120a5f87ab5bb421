# Arris in TLA+

A verification development for Arris, a boundary-representation (B-Rep)
kernel in Rust.  A model owns arenas of geometry and topology; an operation is
`op(&mut Model, inputs) -> Result<(Body, Provenance), OpError>`: it appends to
the model inside one transaction and returns a handle and a record of what came
from what.  There is no session, no global and no hidden state, so the hard part
is not scheduling.  It is that half a dozen redundant representations - slots
and free sets, entities and index lists, staged slots and the entities they
keep, an operator and its inverse, a record and the composition of records -
are each maintained by hand and must agree after any sequence of legal calls,
errors included.  That is what these modules state, check and prove.

Paths below are relative to the repository's root.

## 1. Inventory

### arris-topo, the representation (modelled)

| Part | State | Operations | What is hard | What makes it correct |
|---|---|---|---|---|
| slot arena (`arena.rs`) | slots with a generation and an optional value, an ordered free set | `push`, `free_slot`, `mark`, `rollback`, `truncate`, `slots`/`push_slot` | nested marks, refill of freed slots inside a transaction that fails, reading an arena with holes back | a stale id never resolves; a failed transaction leaves nothing; no growth beyond the peak; written out and read back it is the same arena |
| model (`model.rs`, `walk.rs`) | five entity arenas, three derived index lists | `push_*`/`add_*`, `retain`, `transaction`, `rebuild_indices`, the walks | index lists maintained by appends, popped by rollback, rebuilt by `retain` and reading; references that do not resolve; an edge closed, used twice, or used by two loops | lists and entities agree; a failed transaction restores both; `retain` never cuts off what it keeps |
| import (`model.rs`, `idmap.rs`) | the id map of one call | `import` | two id spaces that overlap, a target with holes, an error half way | all or nothing; a copy isomorphic to the original; dense in a fresh model |
| builder (`builder.rs`) | a staging area: vertices, edges, faces with loops of uses, a genus, tombstones with a stack of freed slots | Mäntylä's ten Euler operators, `set_pcurve` | canonicalisation rotates and reorders loops while positions name places in them; undo depends on the order of freed slots; degenerate splits | the surface stays closed, oriented and manifold; every operator is undone by its inverse; counts stay on the Euler-Poincaré plane |
| assembly (`builder.rs`) | kept marks on staged slots | `assemble`, `finish`, `Assembly::of_body`, `FaceSpec::from_face` | a kept slot must stay what the arena holds; reversed faces; edges mentioned before the face that keeps them | bodies are closed; keeping is invisible; what is read back is what was finished |
| Euler line (`euler.rs`) | counts | `at_genus`, `closes` | what a sequence of operators may reach | the line is zero |
| provenance (`provenance.rs`) | generated, modified, deleted | `add_*`, `then`, `audit`, `mapped`, `is_kept` | composition out of the order of time; what intermediate entities leave behind | bracketing does not matter; nothing intermediate remains; split order nests; the audit survives |
| ids, handles, orientation | none | types | - | the two-element group acting on uses |

### The crates above it

| Part | What it does | Hard behaviour | What makes it correct | Standing |
|---|---|---|---|---|
| boolean: interference (`boolean/pave.rs`, `boolean/faces.rs`) | sections of two bodies, merged into vertices; edges cut into pave blocks; section edges; coincident faces | labels must not depend on discovery order; an edge in two coincident pairs | classes of the closeness relation; nothing refused that can be held | planar, exact |
| boolean: pieces (`boolean/pieces.rs`) | half-edge arrangement of a face, its cycles and regions | sort around a node, holes given to the right region | the pieces tile the face, each on one side of the other operand | planar |
| boolean: result (`boolean/result.rs`) | classification, selection, shells, pinched test, lumps | coincident faces; what is kept by id; what cannot be held | the regularised set operation on the operands | planar |
| rebuild (`rebuild.rs`) | the assembly around kept faces, and the record; a body with faces rewritten | kept, reused or new | the record accounts for every entity once | as booleans and blends use it |
| lumps, classifier (`lumps.rs`, `classify.rs`) | nests shells into lumps; point in solid by rays | innermost container, voids in voids; rays through edges | a lump is one solid region | planar |
| constrained triangulation (`arris-mesh/cdt.rs`) | polygons to triangles | slot reuse, flips, constraints that cross, walks that cycle | it ends, refuses exactly the degenerate, Delaunay but for its constraints | modelled |
| tessellation (`tessellate.rs`, `trimesh.rs`, `corners.rs`) | faces in parallel, edges sampled once | seams, poles, order of results and of errors | a closed mesh of the body's genus | modelled but for sampling |
| regions and predicates (`arris-geom/region2.rs`, `arris-math/predicates.rs`) | winding, sweep, strips, interior point | spans that touch | agree with their definitions | modelled |
| fast checker (`check.rs`, `topology.rs`) | structural and geometric rows V1..B2 of docs/DATA-MODEL.md | rows that contradict what the operations make | accepts what is finished | exact geometry |
| full checker, domains, fluxes | intersections, integrals | floats | - | not modelled |
| profiles (`arris-geom/profile.rs`) | a sketch of loops into oriented edges | which fault comes first; turning a loop | outer counter-clockwise, holes clockwise | lattice points |
| sweeps (`sweep.rs`) | extrude and revolve: specs for the assembly, with roles | sides that reach the axis, cavities, place in the domain, sense of every face | the body is the sketch swept | lattice points |
| blends (`blend.rs`, `rebuild.rs`) | fillet and chamfer of a set of edges: stripes, ends, miters, corners, rings; the faces rewritten | which edges meet where, edges cut twice, which refusal comes first | the corners taken and nothing else; the record accounts | planes at right angles and circles about a cylinder |
| primitives, transform | constructions through the builder | - | - | not modelled |
| measure, query | read only, numeric | - | - | not modelled |
| native format (`arris-io/native.rs`) | slots out and in | free set and indices are not stored | the same arena | the slots and indices (Slots, Model) |
| STEP writer (`step/mod.rs`) | a body as entities | flags of turned faces, voids, seams | the file is the body | one solid, no text |
| STEP reader (`step/reader/topology.rs`) | a body of entities another system may have written | seams and poles left out, rebuilt; edges cut; bounds turned by three flags | reads back what was written, refuses what is no solid | one solid, exact geometry |
| STEP text, units, placements; STL, OBJ | parse and write | - | - | not modelled |
| math, geometry | floats | - | - | out of reach |
| facade, debug, fuzzers, oracle | re-exports and tools | - | - | not modelled |

How they interact: every operation opens `Model::transaction`, reads the
operands through walks, hands an `Assembly` (faces kept by id and new specs) to
`Builder::assemble`, may edit it with Euler operators, and `finish` appends.
`finish` itself opens no transaction: a failure half way is undone by the
caller's.  The operation's `Provenance` is audited against inputs and output;
callers chain records with `then`.  A consumer evaluates in the background on a
clone of the model and swaps it in; clones share arena chunks until one of them
writes.  Nothing else is shared between threads.

## 2. Modules

| Module | Models | State and actions |
|---|---|---|
| `Order` | numbers up to a bound, a set of triples of numbers as a sequence in order, and that it is one | pure operators and their lemmas |
| `Slots` | `arena.rs` as operators on one arena value | `Push`, `FreeSlots`, `Mark`, `Rollback`, `ReadBack` |
| `Arena` | one arena over its life | `arena`, stack `txs` of entry states; `AppendValue`, `Retain`, `Begin`, `Commit`, `Abort` |
| `IdStore` | what an arena promises, without slots | abstract specification; `Arena` refines it |
| `ModelOps` | `model.rs`, `walk.rs` as operators on a model record | `PushVertex` .. `PushBody`, `Closure`, `RebuildIndices`, `RetainModel`, `RollbackModel` |
| `Import` | `Model::import`, `idmap.rs` | `CopyOne`, `ImportBody` |
| `Model` | a model over its life | `AddVertex` .. `AddBody`, `Retain`, `Reload`, `Begin`, `Commit`, `Abort` |
| `Staging` | tombstone slots, canonical loops, positions of the builder | `Fill`, `Vacate`, `CanonicalLoops`, `PositionAfter` |
| `EulerOps` | the ten operators: `CanXyz` (no error), `Xyz` (the builder after), the record a kill returns | |
| `Builder` | a builder under any legal sequence of operators | one action per operator and `SET_PCURVE` |
| `EulerPlane` | the counts alone, abstract; the theorem that they stay on the plane is with the builder's | ten moves; `Builder` refines it |
| `Assembly` | `assemble`, `finish`, `of_body` as operators on a store and a builder | `Accepts`, `Assemble`, `Finish`, `OfBody`, `KeepSome` |
| `Operation` | how operations use the builder over a store | `NewBuilder`, `AssembleSome`, `AssembleCopy`, `AssembleNew`, `Edit` (all of `Builder!Next`), `FinishBody`, `Drop` |
| `Provenance` | records, `then`, `audit`, chains of operations | `Generate`, `Modify`, `Delete`, `Return` |
| `Region2` | predicates, rings, winding, sweep, strips, interior point | pure operators, with reference definitions |
| `CdtMesh` | the triangulation as a value | location, `SplitTriangle`, `SplitQuad`, `FlipQuad`, `Link`, the strip a constraint crosses |
| `Cdt` | one triangulation | `Refuse`, `Prepare`, `StartPoint`, `WalkOn`, `Arrive`, `ScanAll`, `Legalize`, `StartSegment`, `Finish`, `Return` |
| `Tessellate` | one body meshed | `Sample`, `Gather`, `Dispatch`, `Work` (a worker per face, in any order), `Collect` |
| `Solids` | bodies bounded by lattice planes; classifier, nesting of shells | pure operators |
| `Pave` | interference of two such bodies | pure operators: paves, merged sections, blocks, images |
| `Pieces` | one face split | the arrangement, its cycles and regions |
| `Boolean` | a chain of booleans on one store | `Open`, `Meet`, `MergeAll`, `Section`, `Place`, `RealiseAll`, `SplitAll`, `SelectPieces`, `Group`, `Order`, `Assemble`, `Continue` |
| `Profile` | `Profile::edges` | `LoopEdges`, the faults in their order, `ProfileEdges` |
| `Sweeps`, `Revolve` | `extrude`, `revolve` and what they share | `Extrude`, `Revolve`: the specs, or the fault |
| `Checker` | the fast rows on a solid | `Violations` |
| `StepWrite` | a solid as the entities of a file | `Write` |
| `Pcurves` | `pcurve_on`: a curve on a surface in its (u, v) | `PcurveOn`, `RowsAt` |
| `Blend` | `fillet`, `chamfer`: from the edges to the rewritten body and its record | `Decide`, `RewriteOf`, `AssemblyOf`, `Rebuilt`, `Records` |
| `StepRead` | entities, walks and junctions of the reader | `Entities`, `WalkOf` |
| `StepSeams` | seams, bands, cuts, place of loops, assembly of the reader | `ReadFace`, `BuiltFrom` |
| `Part` | a part from sketch to mesh, all of the above composed | `SweepJob`, `Assembled`, `Blended`, `WriteFile`, `ReadEntities`, `ReadNext`, `Build`, `StartMesh`, `Tessellating`, `Refusing` |
| `SlotsProofs`, `ArenaProofs` | theorems on one arena | |
| `ModelProofs` | theorems on a model, its index lists and import | |
| `BuilderProofs`, `RingProofs` | theorems on the plane and on a builder: its slots and counts; its surface | |
| `ProvenanceProofs` | theorems on chains of records and their compositions | |
| `BooleanProofs` | theorems on the merging of a boolean's candidates into section vertices | |
| `MC*` | small instances for TLC | |

Conventions.  A pure operator module (`Slots`, `ModelOps`, `Staging`,
`EulerOps`, `Assembly`, `Import`) translates the code's functions; a machine
module adds who calls them in which order.  An id is `[slot, gen]` in the arenas
and a position in `Assembly`'s store, which only grows there.  A name such as
`PushFromZero` or `KeepEdgeAgain` marked *mutant* is a plausible bug of the
operator that follows it; nothing uses it.  Data the properties do not tell
apart is left out: tolerances and formatting everywhere, geometry arenas
(they hold no reference and have no index), and, in the modules of arris-topo,
points and curves: there a pcurve is an opaque token and a surface a number.  The
modules from `Region2` on are about geometry and have it exact, on a lattice:
`Boolean` on boxes, `Part` with lines, circles and surfaces of revolution whose
points are at whole quarters of a turn (angles are counted in twelfths, `Turn` =
12).  What `pcurve_on` answers for an angle of 0 is 0 or a whole turn, as its
rounding decides: each instance says which.

Refused calls are no steps: in the code they return an error and leave the
state alone, with one exception that is modelled where it matters - an
operation that fails in the middle, which is `Abort`, and an import that fails
half way, which is `ImportBody` with `found` false.  A kill that could not find
its position after changing the builder (`BuildError::Invariant`) would show in
`KillsAreUndone`: `PositionAfter` is then `NoPosition`, no junction of anything.

## 3. Runs

| Run | Instance and bounds | Question |
|---|---|---|
| `arena` | 3 slots, 2 values, 2 nested transactions, 2 frees per slot | Is the arena the id store it promises, under any nesting? |
| `model_wires` | 2 vertices, 2 edges, 1 body of a free edge or vertex, dangling ends allowed | Do the vertex lists survive everything; does rollback restore the model; is import all or nothing? |
| `model_faces` | 1 vertex, 2 closed edges, 2 faces (plain, seam, hole), 1 shell, 1 body | Do edge and face lists survive; does retain cut nothing off; is import a deep, dense copy? |
| `builder` | 2 vertices, 2 edges, 2 faces live at once, degenerate and plain splits and joins | Closed, oriented, manifold; both directions of undo; the Euler plane |
| `operation` | 1 vertex, 1 edge, 2 faces staged by operators; assembled sphere, torus, seamed cap with a pole, two refused assemblies; 2 bodies | Keeping, reading back, and what assemble proves |
| `operation_shells` | two spheres | refutes a documented promise |
| `provenance` | one input entity, one role, three operations with up to 2, 3 and 1 entries | Composition of records |
| `cdt` | quadrilaterals of a 3 x 3 lattice with and without an interior point, pairs of triangles, islands, pinwheels and dangling edges | Does triangulation end, refuse exactly the degenerate, and cover the region with Delaunay triangles? Do the region queries agree with their definitions? |
| `part` | 24 sketches pulled or turned by one to four quarters; 132 sets of up to three edges of a box and 74 others filleted or chamfered, 14 a second time; each file read as written and as three rewritings of it, 13 files given, 15 bodies given with every order of workers (tetrahedron, cylinders, spheres, torus, tube, a body two of whose faces fail) | Does what a sweep or a blend makes pass the checker and is it what was asked; does a file read back; does the mesh close the surface and enclose its volume, whatever the order? |
| `boolean` | two boxes in every relative position up to symmetry and axis order, three operations; chains with voids, lumps, holes, pinches; candidate lists of up to four | Is the result the set operation, well formed, accounted for, and refused only when it cannot be held? |
| `boolean_seam` | two flush boxes fused, cut by a flush box | refutes a comment (section 6) |
| `part_halves` | two edges of a box blended up to each other | refutes a documented refusal (section 6) |

Why the bounds are enough for what is asked.

* Arena: three slots distinguish the lowest free slot, another free slot and the
  tail; two marks give a refill that belongs to the outer transaction and one
  that belongs to the inner; two frees of one slot give an id that is stale twice
  over.  The proofs remove these bounds.
* Model: two edges at one vertex give a list whose tail is not the entry to pop;
  a closed edge, an edge with a dangling end, and a refilled slot are all
  reachable with two of each kind.  Uses are told apart by (face, loop,
  position), so one seam and one hole are what the lists of an edge can differ by.
  Index vectors may be longer than the arena (a refilled slot adds a spare empty
  list at the end); the invariants read lists of live slots only and
  `SameModel` compares up to the arena's length.
* Import: the target is the model itself (a clone), each transaction's entry
  state and a fresh model, in every reachable state: full, with holes, with holes
  in other places.
* Builder: two edges on two vertices already give every shape the code
  distinguishes - empty loop, strut, full turn, ring, degenerate edge, a loop that
  uses an edge twice, a handle.  Three edges take TLC far longer than minutes.
* Operation: the operators alone make few finishable bodies at these bounds; the
  assembled ones supply a handle, a seam, a degenerate edge and a reversed face.
  The bodies of `assemble` are taken from a list (`MCAssemblies`), with two that
  must be refused.
* Provenance: three operations are the least that tell two bracketings apart.
  Entities the same operation makes are interchangeable, hence the symmetry sets;
  no property names one of them.  The chain ends after the third operation, so
  deadlock is not checked there; it is checked in every other run.
* Triangulation: predicates are exact in the code (adaptive), so integer lattice
  points lose nothing but size.  Every quadrilateral from one corner of a 3 x 3
  lattice includes crossed, repeated, collinear and cocircular points; the named inputs
  are those where a walk cycles, a constraint passes a vertex on both sides, and
  rings nest.
* Tessellation: a pcurve is a line or a lattice polygon for a circle, so that
  uneven steps, seams a period (12) apart and poles all occur; `MaxInterior` bounds the
  interior grid as the code's own limit does, at a smaller number.  The workers take
  their faces in every order for the bodies given and in one for the parts made
  (`OneByOne`): order is no matter of geometry.
* Sketches: one of each way a side can lie to the axis - parallel, across, slanted
  towards it and touching it, an arc about it, through it and off it - on both sides of it, drawn
  both ways round, with a hole, with cavities, and each fault of `ProfileError` and
  `SweepError` a lattice can express.
* Blends: on one corner of a box every set of up to three edges, and an edge across, at
  two sizes (one too large for some); on an angle the reflex edge, the rim, both; a tray, a
  stepped shaft, a plug and sectors for circles, convex and concave; each `Reason` of
  a blend that a part can meet; blends of blends.  Arcs are sampled in quarters, so the
  dihedral is a right angle throughout.
* Files: the writer's own; without seams (what many systems write of cylinders); with
  every edge against its curve and a vertex loop for an apex; with oriented faces and
  circles that start a quarter further on.  The files given by hand have what no
  sweep makes: faces cut by a meridian, domes of one bound, and five that are no solid.
* Boolean: lattice coordinates are multiples of 4 so that an interior point of
  a piece is a lattice point; two intervals lie in 13 ways, 8 up to mirror
  image, and the axes may be sorted since the code treats them alike.
  Results are compared on the unit cells of the lattice.  Chains are hand-picked
  for what two boxes cannot give: voids, islands in voids, several lumps, holes through,
  pinches at a vertex and along an edge.  `LumpDiameter` bounds the search for a cell's
  lump in the reference definition only.

`GenModulus` is 2^32 in the code.  The runs use a small modulus and stop freeing
a slot before its counter wraps (`GenLimit < GenModulus`); this bound is part of
what is claimed, see section 6.

**Liveness.**  The library is sequential, its calls return and no actor waits for
another; the one question of progress is whether the loops of the triangulation
end.  `Cdt` steps through them one iteration at a time and `Terminates` says that
every behaviour reaches an outcome.  The fairness is that a running computation goes
on: `Running` counts the steps of the call, and `WF_tick(Running)`, with the check
that no other state deadlocks, is weak fairness of the next step.  Nothing else is
assumed; the code is one thread that is not stopped.  In `Tessellate` and `Boolean` the
workers are independent and every order of them is taken, which is what rayon's pool
may do.

Every property has a mutant: a changed definition of the code for which the same
run finds the property violated.

## 4. Properties worth knowing

* `StaleNeverResolves`, `RollbackRestores`, `NoGrowthBeyondPeak`,
  `NativeRoundTrip`, and the refinement `ImplementsPromise`: the arena mints only
  ids never retired, and drops on failure exactly the ids minted since entry.
* `VertexEdgesExact`, `IndexListsExact`: derived adjacency equals what the
  entities say.  `RollbackRestoresModel` asks in every state what would happen if
  every open transaction failed now.
* `ReferencesResolve`: after retain, whatever is live stands on live entities.
* `ImportIsAllOrNothing`, `ImportIsADeepCopy`: in every state, of every body, into the model itself,
  into what it was at each `Begin` and into a fresh model.
* `ClosedManifold`: the staged surface is closed, oriented and manifold;
  `OneUmbrella` follows the turn around a vertex from use to use.
* `UndoRestores`: in every reachable builder, for every legal argument, the
  inverse call with the returned record gives the same dump.
* `ImplementsEulerPlane`: refinement of the ten moves on the counts.
* `KeepingIsSound`, `BodiesAreClosed`, `ReadBackIsFinished`,
  `OperatorsKeepWhatAssembleProves`.
* `ChainsAgree`, `OrderNests`, `ChainsAccount`.
* `IsATriangulation`: at every step between loops the live triangles are
  counter-clockwise, their neighbours point back, and every vertex remembers a live triangle
  of its own.  `ConstrainedDelaunay`: an edge that is no constraint is locally
  Delaunay when the stack is empty.  `CoversTheRegion`: the triangles kept are those of
  nonzero winding and their area is the region's.  `RefusesExactlyTheDegenerate`.
* `MeshIsTheSurface`: every triangle edge is used once each way, the Euler number is that
  of the body, no step is longer than its faces asked, and the block of corners describes
  the same triangles.  `ErrorIsTheFirstFaces`: the error is that of the first face in order.
* `TheCheckerFindsNothing`: what a sweep or a blend hands over is proved by `assemble` and
  breaks no fast row.  `PartIsWhatWasAsked`: every entity names the corner or segment it
  stands on, and the body has the characteristic of the sketch swept; a blend is refused
  with the reason the job names and otherwise takes exactly its edges and the vertices they
  end in, adds its faces and nothing else, and its record accounts for every entity before
  and after.  `MeshEnclosesTheSweep`: the triangles, in space, enclose exactly the volume of
  the sketch swept less what the blends removed, shell by shell.
* `FileReadsBack`: a body written and read is the body - its characteristic, no pinch,
  each pcurve the file's, each face in its domain, each entity generated from the entity of the file
  it stands on - and so is every rewriting of it; and a file that is no solid is
  refused.  Two refusals of sound files are excepted by name, see section 6.
* `ResultIsTheSet`: the faces kept bound exactly the cells of the operation.
  `RefusesExactly`: `Ok` iff the cells form solids without a pinch, or are empty, each
  refusal with its own error.  `ClosedShellsInOrder`: every edge twice, lumps
  in order, each led by its outer shell.  `PiecesTile`, `RecordIsTrue`, `ComponentsAreClasses`.

`ChainsAgree` allows one difference, the order of generated outputs, which the
repository's own ignored test names (section 6).  `ChainsAccount` allows one
unaccounted input, an input that was only generated from and all of whose children are gone.

## 5. Proofs

Checked by TLAPS for every value of the constants.

| Theorem | Statement | Assumes |
|---|---|---|
| `ArenaProofs`: `TypeCorrect` | `Spec => []TypeOK`: at every depth the free set is exactly the empty slots | - |
| `RollbackIsExact` | `Spec => []RollbackRestores` | no `retain` inside a transaction |
| `StaleIdsStayDead` | `Spec => []StaleNeverResolves` | the same, and no generation wraps |
| `GrowthIsBounded` | `Spec => []NoGrowthBeyondPeak` | - |
| `ReloadIsExact` | `Spec => []NativeRoundTrip`: what is written reads back as the arena it was | - |
| `ArenaImplementsPromise` | `Spec => ImplementsPromise`: the arena refines `IdStore` | no `retain` inside a transaction, no generation wraps |
| `ModelProofs`: `ReferencesHold` | `Spec => []ReferencesResolve` | shapes refer; no `retain` inside a transaction; appends are given live ids |
| `RollbackIsExact` | `Spec => []RollbackRestoresModel` | shapes refer; no `retain` inside a transaction |
| `VertexEdgesHold` | `Spec => []VertexEdgesExact` | the same |
| `IndicesAreExact` | `Spec => []IndexListsExact` | the same |
| `ImportsAreAllOrNothing` | `Spec => []ImportIsAllOrNothing`: an import copies the whole closure or leaves nothing | the same |
| `ImportsAreDeepCopies` | `Spec => []ImportIsADeepCopy`: what it copies is the closure, apart from all there was, dense in a fresh model | the same |
| `BuilderProofs`: `LineStaysZero` | `Plane!Spec => [](Plane!Line = 0)`: whatever implements the ten abstract operators keeps the Euler-Poincaré line at zero | - |
| `ReferencesAreLive` | `Spec => []TypeOK` | a builder begins empty |
| `CountsMoveOnThePlane` | `Spec => ImplementsEulerPlane`: the builder refines `EulerPlane` | the same |
| `EveryBuilderIsOnTheLine` | `Spec => [](Plane!Line = 0)`: the line is zero of the builder itself | the same |
| `RingProofs`: `EdgesAlwaysPairUp` | `Spec => []EdgesPairUp`: each edge is used once each way and every loop closes | the same |
| `BuilderIsAClosedManifold` | `Spec => []ClosedManifold`: the same, and around each vertex there is one umbrella, or it is one loop's seed | the same |
| `ProvenanceProofs`: `BracketingsAgree` | `Spec => []ChainsAgree`: what holds of the associativity of `then` | ids are not given twice |
| `CompositionNests` | `Spec => []OrderNests` | the same |
| `CompositionsAccount` | `Spec => []ChainsAccount`: nothing twice, nothing intermediate, the audit survives | the same |
| `BooleanProofs`: `ComponentsLabelClasses` | `components` labels each candidate of any list with the least of its class | - |
| `SectionVerticesAreClasses` | `Spec => []ComponentsAreClasses` | candidates are candidates |

The assumptions.  *No generation wraps* is `GenLimit < GenModulus`: the code's
generations are 32 bits and do wrap (section 6).  *No `retain` inside a
transaction* is `~ RetainInTx`: `retain` documents that a rollback does not undo
it, no caller of the repository calls it there, and TLC refutes the properties
otherwise.  *Shapes refer* (`ShapesRefer`) says of the constants `FaceShapes`,
`ShellShapes` and `BodyShapes`, functions from the live ids to the entities there
are to append, that an entity names ids it was given: it is what makes them
shapes, and the definitions of the runs have it.  *Appends are given live ids* is
`~ Dangling`: `Dangling` lets an edge be appended with an end that was freed, and that
edge's reference does not resolve, of course.  The theorems on the lists do not
assume it.  *A builder begins empty* is `Starts = {EmptyBuilder}`, which is `Builder::new`
and what the run `builder` has; the other way to a builder, from a body or an assembly,
is in `Operation`.  *Ids are not given twice* is `ProvenanceAssumption`: what an operation
makes is no input of the chain and is made by no other.  *Candidates are candidates* is
`BooleanAssumption`: the lists a recipe gives to label are lists of points, tolerances and
vertices, of any length and at any distance.

**One arena.**  `SlotsProofs` states what `Push`, `FreeSlots` and `Rollback` do
to an arena that is well formed (`IsArena`), and the lemma the rest turns on:
`RollbackUndoesAppends` - if an arena *extends* another (longer, the same
generations, the same values where there were values), rolling back to the
mark of the other gives the other.  In `ArenaProofs` three strengthenings are
built on each other.  `TypeInv` adds `Nested`: no transaction began with a longer
arena than a later one, without which a rollback is not typed.  `GrowInv` adds
`Growing`: the arena extends every entry state and later entry states extend
earlier ones; a commit keeps it by transitivity, an abort because the state it
restores was itself in the chain, and a `retain` inside the closure would break
it.  `StaleInv` adds `Stale`: the generation of a retired id's slot is past the
id's in the arena, and the slot exists in every entry state.  `GrowthIsBounded` needs
only types: a new slot is minted when the free set is empty, when the live
values are as many as the slots.  The refinement is step by step: `Store` maps the
arena to its live ids and `Open` maps the stack; an append is a mint because its id
is neither live nor retired (`StaleInv`), and an abort is the abstract abort because
the rollback is exact (`GrowInv`).

**A model of five arenas.**  `ShapeInv` says of the model and of every entry state of
the stack that it is five well-formed arenas (`Typed`), each of which only grew since
(`Grown`); it is `GrowInv` five times over, and the appends, `retain`, a reload and the
transactions keep it by the lemmas on one arena.  `RefInv` adds that references
resolve, in the entry states as well, because an abort goes back to one of them.  A
retain keeps it since what it keeps is closed (`ClosureIsClosed`): the entity under
a kept one is kept.

**The index lists.**  They are vectors of vectors that operations append to, filter,
rebuild and pop, and never compare with the entities.  `ModelProofs` gives a list its
meaning, `Lists(l, entry, P)`: it is the entries of the places P in some order, each
place once - so a list says which entities refer and how often, and not in which order,
which a reload does change.  `IndexInv` is `ShapeInv` and

* `Indexed`: every list lists the places of the live owners that refer to its
  slot, and every slot of the arena has one;
* `NoneAhead`: a reference that does not resolve names a generation its slot has left
  behind - else an append that refills the slot would make the reference resolve, with
  nothing in the list.  It holds because every id there is was minted;
* `ListsGrown`, over the stack: every list of the model begins with the list of the
  entry state, and what it has more belongs to owners that state did not hold.  A rollback
  pops while the tail is dead; this is what says that it stops at the end of the
  list of entry and not earlier or later.

From it `RollbackRestoresModel`, `VertexEdgesExact` and `IndexListsExact` follow each by
a lemma of its own.  An empty list more at the end of a vector, of a slot filled again, is
allowed, as in the code.

**An import.**  `import` copies kind after kind, and its target may have holes anywhere, so the
ids of a copy are whatever the free slots give.  The invariant of one loop is `Copies`: the model
of the moment has grown from the target (`GrownFrom`, which is what a rollback needs, and
`Indexed`, which is what the lists need), and for every kind what is live in it is what was live
in the target and the image of the map, apart from each other; the map joins no two ids; and what
stands at the image of an id is the entity of the id, every reference translated through the
map.  `CopyOneIs` keeps it for one entity: the references of the translation are live because the map
holds them, the new id is none that was live, and a larger map translates what is already there as the
smaller one did (`TranslatedSame`).  `CopyLoop` carries it along the ids of one kind by induction on
their number (`ByCount`), with what the map then holds, and `CopiedIs` along the five kinds: the call
finds every reference exactly when the closure refers to nothing outside itself.

* Not found: what was copied is rolled back, and `RollbackSame`, the lemma of the transactions,
  gives the target back with its lists.
* Found: the closure of the original is then what is *reached* from the body
  (`WholeIsReached`), what is reached from the copy is the image of it (`ImageIsReached`), and as that is
  live it is the closure of the copy (`ReachedIsClosure`).
* Dense: into a fresh model nothing is freed, so the n-th id copied gets slot n - 1, and the ids of a
  kind are copied in order (`SlotOrderLists`, from `InOrderAscends` of `Order`).

Nothing here is about the state of a `Model` but for `Typed` and `Hale`, which `IndexInv` has of
the model, of every entry state, and `HaleEmpty` of a fresh one.

**A builder.**  The inductive invariant is `Sound`: the three pools have their free
slots once each and apart from the live ones, an edge ends at live vertices, and
of every face the loops are a sequence, not empty, of loops on live edges or at
a live vertex.  That the ten operators keep it is a lemma each (`MvfsIs` ..
`PcurveIs`), which also says what becomes of the live slots and of the number of
loops of every face.  What these need is in three layers.

* *Pools* (`FillPool`, `VacatePool`): a freed slot is used again before a new one is made,
  and is not live.
* *Sequences of uses*: that what is cut out of a loop, turned and spliced into another
  is a sequence of the same uses (`AroundIs`, `AllFromIs`, `ThreePieces`, `FivePieces`), and
  that a kill leaves no use of the killed edge anywhere: `UsedBothWays` says the edge
  has two uses in all, and `WithoutStrutIs`, `WithoutUseIs`, `BetweenIs` that these are the two
  taken out.
* *Canonical loops* (`CanonicalIs`): rotating a loop and sorting the loops of a face keeps
  their number and their uses.  `CanonicalLoops` sorts by `InOrder`, whose meaning is
  `InOrderEnumerates` in `Order`: it lists a finite set of triples, each once.

For the refinement each operator then has a lemma on the counts (`MvfsCounts` ..
`PcurveCounts`): `Shifts` says by how much every one of the six moves, and the lemma
also gives the condition the abstract operator has.  Loops are counted as pairs of a face and an
index, so a loop that `kfmrh` carries to another face is one pair less and one more
(`LoopMoves`), and `mekr` finds a loop more than faces because a face has a loop at least and this
one has two (`LoopsCoverFaces`).  The condition of `kvfs` is the one that is not seen
from its arguments: the code asks for one vertex, one face, one loop and no
edge, and that the genus is then 0 follows from the line (`OnPlane`), which is
therefore part of the induction.

`LineStaysZero` is what the plane promises of whatever implements it (`ShiftInPlane`: the
directions of the operators lie in it); `EveryBuilderIsOnTheLine` is the same of the builder.

**The surface of a builder.**  `EdgesPairUp` speaks of places - face, loop, index - and every
operator moves places: it cuts loops, splices them, and canonicalisation then rotates and
reorders them.  `RingProofs` forgets the places.  A loop is a *ring*, by its halves (an
edge and the way it is walked): which it walks, which half follows which around, and which it
walks twice.  The rings of a builder are joined into its `Content`, and the invariant
is `Paired`: the content walks exactly the two halves of every live edge, none twice, and
a half ends where the one that follows it begins.

* *Rings.*  `Ring` does not depend on where a loop begins (`TurnedRing`) and what is joined not
  on the order (`JoinCommutes`, `JoinAssociates`), so canonicalisation changes
  nothing (`WalkedCanonical`), nor does moving a loop to another face (`KfmrhWalks`,
  `MfkrhWalks`) or a new pcurve (`PcurveWalks`).
* *Four moves.*  What makes or kills an edge is one of two things, read in
  either direction: two rings bridged into one (`BridgeMade`, `BridgeKilled`: `mev` with an
  empty second ring, `mekr`, and `kev`, `kemr`), or one ring split in two (`SplitMade`,
  `SplitKilled`: `mef`, `kef`).  Each is proved once, on sequences of any length, the
  empty pieces included - there the vertices of the new edge must be the same.
* *The code's sequences.*  That what an operator writes into its loops is such a
  ring: `StruttedRing`, `JoinedRing`, `StrutRing`, `BetweenRing`, `SplitRing`, `SplicedRing`.

`PairedIsPairedUp` goes back from halves to places: a half is at one place and at no other.

`VerticesAreManifold` asks more: a turn around a vertex, from a use to the one that follows
its edge's other use, reaches all the uses that leave the vertex.  `Paired` does not give it - two
umbrellas that meet in a point are paired - and to say it of the halves alone the invariant
gets two more parts, `Fanned`:

* `Turned`: a set of halves that no turn leaves (`Closed`) has all the halves that leave a
  vertex or none (`Fills`).  Quantifying over *all* sets is what makes it inductive: no cycle
  is followed, no order of turning is ever named, and a move is shown by the set that
  it makes of a closed one.  The four moves again: `BridgeTurned`, `SplitTurned` put
  the two new halves into the turn at the ends of the edge, `BridgeUnturned` and `SplitUnturned`
  take them out - there a set closed without the edge is made one closed with it by adding
  to it each half of the edge whose vertex it has the other halves of (`Told`).
* `Spotted`: an empty loop draws a *spot*, its seed, instead of a ring; no vertex is
  the spot of two loops, and the spots are exactly the vertices on no edge (`Bare`).  The
  moves need it: a bridge between two rings, or from a ring to an empty loop, turns at both of its
  ends only if each end is on no edge exactly when its ring is empty.  That a ring and
  a spot are counted by the same lemmas (`Content` takes which of the two) is why this costs little.

Each operator then has one lemma that it keeps all three (`MvfsKeeps` .. `KefKeeps`; `KfmrhWalks`,
`MfkrhWalks` and `PcurveWalks` for those that walk what was walked before), and `FannedIsManifold` goes
back to uses: `TurnIs` and `LinksAreNext` say that a turn of the code is a turn of the halves,
`OneSeed` that a spot is one loop's seed.

**Chains of records.**  `then` is two recursions along lists of any length: `Through` puts
the images of the elements of a list one after the other, `Once` keeps the first of each.
Both are recursive functions, and what they compute is proved by induction, which here has
to be first-order: `EverySequence` says that a set which holds the empty sequence and,
with a sequence, each longer by one, holds all (by the least length that would not be in it,
`LeastOfNats` of `Order`), and each use names its set.  `OnceIs` and `ThroughIs` say that a function
that satisfies the recursion is the one it defines (`Determined`).  On these stands an algebra:

* `OnceKeeps`: `Once` has the same elements, each once; `OnceJoined`: of two lists joined it
  begins with what it makes of the first, and what follows is of the second alone.
* `ThroughJoined`, `ThroughOnce`: `Through` distributes over joining, and nothing is lost
  when repetitions are dropped before it and not after; `ThroughTwice`: going
  through twice is going through the composed images.

The invariant of a chain is `ChainInv`: each record done, and the one being written,
`Fits` - it lists no output twice (`Clean`), names only what was present when it ran and
makes only what is its own - and `here` is what is present.  It holds for chains of any length.  Two records of one chain are therefore
`Chained`: the later names nothing the earlier consumed, and what it makes is named by neither.

* `BracketingsAgree`: of chained records, `Consumed` and the images of a composition are
  those of its parts composed (`ThenNames`, `ThenLists`), so both bracketings go through
  the same images.  The lists of pieces agree, in order; of the generated, the sets only: the
  code lists what was generated before what is generated from pieces, and the brackets
  decide which is which.
* `CompositionNests`: cut the list of pieces before the j-th.  What the first part stands for comes
  out of `Once` before the rest, with what is in both (`OnceNests`).
* `CompositionsAccount`: an entity made is `Accounted` by a composition only if it was there before
  (`ThenNames`).  What is listed is listed by a part that made it and consumed by none
  (`Leaves`).  For the audit, `Sound` says of a record, the body before and the body after what
  the four rows ask, but for a set of exceptions; a composition is sound with the exceptions
  of its parts (`SoundThen`).

The first attempt at `OrderNests` was refuted by TLC: an output that stands for two pieces is
listed once, with the first, so the documented sentence "come before those of piece
`i + 1`" (provenance.rs:475) is of the outputs that stand for piece `i + 1` and for no earlier one.

**Section vertices.**  `components` (pave.rs) is the pass all of a boolean's topology stands on:
two points that are the same and get two labels are a hole in the result, two that are not and
get one are a collapsed edge.  It keeps a forest of parents, and what a node is joined to depends
on what was joined before.  `Rooted` gives a forest its roots as a function: parents never come
after their node, so the loop of `root` ends, and `RootsStand`.  `JoinRootsJoins`: putting the roots
of a set of nodes under the least of them sends exactly the nodes of those roots there.  The
invariant of the loop is `Passed`, two halves of one equality: a node that is the same as one
passed has its root (nothing is left apart), and a set closed under sameness has all or none of the
nodes of a root (nothing is joined that need not be).  At the end the nodes of a root are closed
themselves, by the symmetry of sameness (`SameEitherWay`), hence are the least closed set: the
class.  As the class is defined with no order of the nodes, the partition does not depend on it,
which is what the comment at pave.rs:131 says.

Only model-checked, and why:

* `KeepingIsSound` and the other properties of `Operation`: what `Assembly` computes is a dozen folds
  over sequences.  The library's induction theorems are no use here (they take an operator as a parameter); an induction in the manner of
  `EverySequence` is a proof of its own for every recursion, and was done for the two of `then` and the
  loop of `import`.
* The properties of `Cdt`, `Tessellate` and `Part`: the flood of `CdtMesh` is a RECURSIVE
  operator, and a module that reaches one cannot be proved about.  `Terminates` is
  liveness under fairness.
* The other properties of `Boolean`: each compares what folds over cells, cycles and blocks
  computed with a definition by sets: the same, of two dozen recursions.
* `UndoRestores`: see the plan.

Assumptions on the constants are in the modules that declare them and are
evaluated by the runs.

## 6. Where the code and what is said of it part

Kept as runs, each with one refuted property:

* `operation_shells` - `kfmrh` does not ask whether the faces are of one shell;
  finish then stores two shells with an edge in common (builder.rs:1953 against
  docs/DATA-MODEL.md:1275).
* `boolean_seam` - an edge between two coplanar faces that both coincide with one
  face of the other operand is imaged on it twice; the arrangement then refuses a
  plain solid as a tangent contact (pave.rs:2462 against :2542).

* `part_halves` - an edge cut at both its ends, by blends whose trims meet in its middle,
  is kept with nothing between its ends: each end asks whether its own trim leaves some
  of it, and `Interval::new` refuses less than nothing alone (blend.rs:2462 against
  docs/ARCHITECTURE.md:685).  The run `part` leaves these sets out (`Halved`).

Met while modelling, not kept as runs:

* `retain` inside a transaction rebuilds lists in slot order; a failure then pops tails
  that are not the entries of what is dropped, and dead ids stay listed (model.rs:358
  against :317): `VertexEdgesExact` fails with `RetainInTx` TRUE, which the runs leave
  FALSE as the proofs do.
* `kvfs` forgets the stacks of freed slots, so `mvfs` does not restore the builder
  "byte for byte" (builder.rs:1564 against :13); the undo property starts there from
  an empty builder.
* `assemble` accepts a surface pinched at a vertex, which no operators build
  (builder.rs:2590 against :2295).
* Rollback keeps what was appended into a slot freed inside the same
  transaction, since such a slot was occupied at entry (model.rs:291 against
  :269).  `retain` documents that it is not undone; the proofs assume it is not
  called there.
* A generation wraps after 2^32 frees of one slot and an old id resolves again
  (arena.rs:138 against :6).  `StaleIdsStayDead` assumes it does not.
* After retain, a refill and a reload, an index list is in slot order and no
  longer in creation order (model.rs:47 against :788).
* `mef` and `mekr` may make degenerate edges, which `counts` leaves out: the line
  of `counts` is then the number of them and not zero (builder.rs:415 against :12).
  `ImplementsEulerPlane` counts every edge.
* The kept mark of a face an operator touched is not restored by the inverse
  (builder.rs:1495 against :13); the undo properties are checked for builders that
  keep nothing.
* `mfkrh` lifts any ring while the genus is positive, one of no handle too; the
  shell is then disconnected and `finish` does not ask (builder.rs:1996 against
  docs/DATA-MODEL.md:1628).
* `then` is documented as associative; the order of generated outputs is not
  (provenance.rs:474; docs/DATA-MODEL.md:1812 and an ignored test of
  arris-topo/tests/provenance.rs know it).
* `then` says the outputs of piece `i` come before those of piece `i + 1`; an output of
  both is listed once, with piece `i` (provenance.rs:475 against :332).  `OrderNests` and its
  proof say which.
* A composition may leave unaccounted an input that was only generated from and
  whose children are all gone (provenance.rs:533 against docs/DATA-MODEL.md:1729).
* A band of a torus whose two circles are half a turn or more apart: both arcs from one
  to the other cross nothing, and the reader takes the shorter one as the seam
  (step/reader/topology.rs:1959, "whichever of its two arcs crosses neither loop").  The
  face is then the other side of the circles, and the check after the assembly refuses
  the file as `Refusal::Invalid`, of which topology.rs:78 says "a violation is the
  file's".  `LongWayRound` excepts it from `FileReadsBack`.
* A circle between two bands that each ask for a cut of it is refused ("a band whose
  seam would split an edge a second time", topology.rs:730): documented, and excepted as
  `CutTwice`.
* The header of step/reader/topology.rs (line 40) has a vertex loop at a singular point as "a
  loop of one degenerate coedge"; the code joins it to the face's other bound by a seam.
* `mapped` leaves an origin the map does not hold as it is, so that a foreign id
  may equal an id of the new model (provenance.rs:559).

## 7. Not modelled, and why

* Floating-point geometry beyond exact predicates: curve and surface intersection,
  projection, integration.  TLC and TLAPS have no account of them, and an
  abstraction that replaces a predicate by a free choice says nothing about the code
  that relies on its exactness.  The boolean is modelled where intersections are
  exact: axis-aligned planes.  What depends on curvature or tolerance there is left
  out: tangent contacts, periodic and singular faces, raised tolerances, ties.
* Chunk sharing between clones: `Arc::make_mut` before every write is enforced by
  the borrow checker; a clone is a value here.
* A blend along a ruling of a cylinder, and blends between planes at other than a right
  angle: their contacts are at points no lattice has.
* Sheet and wire bodies in the assembly; tolerances; provenance maps that
  `assemble` returns.
* The text of files (Part 21, STL, OBJ, the encodings of the native format), units and
  placements of STEP.
* Gaps, fits and tolerances of the STEP reader: a pcurve is exact here or there is
  none, so what is refused as too far off, or stretched to meet, is not seen.

## 8. Plan

Done, in this order: Slots, Arena, IdStore and their proofs; ModelOps, Model and theirs;
Staging, EulerOps, Builder, EulerPlane and its proof; Assembly, Operation;
Import; Provenance; Region2, CdtMesh, Cdt; Tessellate; Solids, Pave, Pieces, Boolean;
Profile, Sweeps, Revolve, Checker, Part; StepWrite, StepRead, StepSeams; Pcurves, Blend.

Next, most important first.

1. **Primitives, transform** as further ways to a part.
2. **STEP placements**: the graph of assemblies, its paths and cycles.
3. **Provenance**: `mapped` and `is_kept`, roles told apart.

Proofs, in order of worth: that a make is undone by its kill, which asks of canonicalisation
that it has one result for one set of rings; that `Effective` is an involution.
