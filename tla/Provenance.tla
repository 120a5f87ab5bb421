----------------------------- MODULE Provenance -----------------------------
(***************************************************************************)
(* The record an operation returns beside its body (arris-topo,            *)
(* provenance.rs), and a chain of operations that each write one: which    *)
(* output came from which input, composed by `then` so that the chain      *)
(* reports against its first inputs.                                       *)
(*                                                                         *)
(* A record is [generated, modified, deleted]: to every origin - an input  *)
(* entity or a role - the sequence of its outputs, in split order, and     *)
(* the set of deleted inputs.  An origin without an entry in the code's    *)
(* ordered map is one with the empty sequence here.                        *)
(***************************************************************************)
EXTENDS Naturals, SequencesExt

CONSTANTS
    Entities,     \* every entity the chain may name
    Roles,        \* origins that are no entity
    First,        \* the entities of the first operation's input body
    New,          \* for each operation, the entities it may make: a sequence
    MaxEntries    \* bound: the entries of the k-th record, a sequence

Origins == Entities \cup Roles
\* What an operation makes was not there: ids are not given twice.
ASSUME ProvenanceAssumption ==
    /\ Entities \cap Roles = {} /\ First \subseteq Entities
    /\ MaxEntries \in Seq(Nat)
    /\ New \in Seq(SUBSET (Entities \ First)) /\ Len(MaxEntries) <= Len(New)
    /\ \A j, k \in DOMAIN New : j # k => New[j] \cap New[k] = {}

Empty == [generated |-> [o \in Origins |-> <<>>],
          modified  |-> [o \in Origins |-> <<>>],
          deleted   |-> {}]

PushFront(list, s) == IF s \in ToSet(list) THEN list ELSE <<s>> \o list       \* mutant of PushOnce
PushOnce(list, s) == IF s \in ToSet(list) THEN list ELSE Append(list, s)
AddGenerated(r, o, y) == [r EXCEPT !.generated[o] = PushOnce(@, y)]
AddModified(r, o, y) == [r EXCEPT !.modified[o] = PushOnce(@, y)]
AddDeleted(r, s) == [r EXCEPT !.deleted = @ \cup {s}]

\* `outputs`, `origins`, and what `origins_recorded` says of one origin.
Outputs(r) == UNION {ToSet(r.generated[o]) \cup ToSet(r.modified[o]) : o \in Origins}
OriginsOf(r, y) == {o \in Origins : y \in ToSet(r.generated[o]) \cup ToSet(r.modified[o])}
Recorded(r, o) == r.generated[o] # <<>> \/ r.modified[o] # <<>>
Accounted(r, s) == Recorded(r, s) \/ s \in r.deleted

-----------------------------------------------------------------------------
(* `then`.                                                                 *)

Once(list) ==
    LET once[n \in 0 .. Len(list)] ==
          IF n = 0 THEN <<>> ELSE PushOnce(once[n - 1], list[n])
    IN  once[Len(list)]
Through(list, images) ==
    LET through[n \in 0 .. Len(list)] ==
          IF n = 0 THEN <<>> ELSE through[n - 1] \o images[list[n]]
    IN  through[Len(list)]

\* Only a piece or a deletion replaces x: what generated children stays.
ConsumedByAny(r, x) == x \in r.deleted \/ Recorded(r, x)     \* mutant
Consumed(r, x) == x \in r.deleted \/ r.modified[x] # <<>>
Stays(r, x) == IF Consumed(r, x) THEN <<>> ELSE <<x>>

\* What `next` deletes is reported unless it is an output of before.
CarriedDeletedAll(mine, next) == next.deleted                \* mutant
CarriedDeleted(mine, next) == next.deleted \ mine

\* What stands for x after `next`: its pieces, or itself.
Pieces(next) == [x \in Entities |-> next.modified[x] \o Stays(next, x)]
\* For what was generated, what is generated from it besides.
Family(next) == [x \in Entities |-> next.generated[x] \o Pieces(next)[x]]
Carried(mine, o, list) == IF o \in mine THEN <<>> ELSE list

Then(p, next) ==
    LET mine == Outputs(p)
        pieces == Pieces(next)
        family == Family(next)
        generated == [o \in Origins |-> Once(
            Through(p.generated[o], family) \o Through(p.modified[o], next.generated)
              \o Carried(mine, o, next.generated[o]))]
        modified == [o \in Origins |-> Once(
            Through(p.modified[o], pieces) \o Carried(mine, o, next.modified[o]))]
        lost == {s \in Entities : p.modified[s] # <<>> /\ modified[s] = <<>>}
    IN  [generated |-> generated, modified |-> modified,
         deleted   |-> p.deleted \cup CarriedDeleted(mine, next) \cup lost]

-----------------------------------------------------------------------------
(* `audit`, over the entities of the input bodies and of the output.       *)

NoOrigin(ins, out, r) ==
    {e \in out : ~ (e \in ins /\ ~ Accounted(r, e)) /\ OriginsOf(r, e) = {}}
Unaccounted(ins, out, r) == {e \in ins : e \notin out /\ ~ Accounted(r, e)}
DeletedAndModified(ins, r) == {e \in ins : e \in r.deleted /\ r.modified[e] # <<>>}
NotAnInput(ins, r) == r.deleted \ ins
Audit(ins, out, r) ==
    /\ NoOrigin(ins, out, r) = {}
    /\ Unaccounted(ins, out, r) = {}
    /\ DeletedAndModified(ins, r) = {}
    /\ NotAnInput(ins, r) = {}

-----------------------------------------------------------------------------
(***************************************************************************)
(* A chain of operations: each writes its record entry by entry, names     *)
(* what is there when it runs - roles, and entities no record consumed -   *)
(* and makes new entities only.                                            *)
(***************************************************************************)
VARIABLES rec,    \* the record of the operation that runs
          here,   \* the entities there are that no record consumed
          hist    \* the operations done: each its record, inputs and output
vars == <<rec, here, hist>>

Step == Len(hist) + 1
Running == Step <= Len(MaxEntries)
Entries(r) == Cardinality(r.deleted) +
              MapThenSumSet(LAMBDA o : Len(r.generated[o]) + Len(r.modified[o]), Origins)
Room == Running /\ Entries(rec) < MaxEntries[Step]
LastOut == IF hist = <<>> THEN First ELSE Last(hist).out

Init == rec = Empty /\ here = First /\ hist = <<>>

Generate == /\ Room
            /\ \E o \in here \cup Roles, y \in New[Step] : rec' = AddGenerated(rec, o, y)
            /\ UNCHANGED <<here, hist>>
\* A piece is an image: what has one is not deleted.
Modify == /\ Room
          /\ \E o \in (here \ rec.deleted) \cup Roles, y \in New[Step] :
                rec' = AddModified(rec, o, y)
          /\ UNCHANGED <<here, hist>>
Delete == /\ Room
          /\ \E s \in here : rec.modified[s] = <<>> /\ rec' = AddDeleted(rec, s)
          /\ UNCHANGED <<here, hist>>
\* The output body: what was made, and of the input what nothing is said of.
Return == /\ Running
          /\ LET out == Outputs(rec) \cup {e \in LastOut : ~ Accounted(rec, e)}
             IN  hist' = Append(hist, [rec |-> rec, ins |-> LastOut, out |-> out])
          /\ here' = {e \in here \cup Outputs(rec) : ~ Consumed(rec, e)}
          /\ rec' = Empty

Next == Generate \/ Modify \/ Delete \/ Return
Spec == Init /\ [][Next]_vars

-----------------------------------------------------------------------------
(***************************************************************************)
(* Properties.                                                             *)
(***************************************************************************)

Rec(k) == hist[k].rec
\* Every bracketing of the records done so far, up to three, when no
\* operation is half way.
Chains == CASE rec # Empty -> {}
            [] rec = Empty /\ Len(hist) = 1 -> {Rec(1)}
            [] rec = Empty /\ Len(hist) = 2 -> {Then(Rec(1), Rec(2))}
            [] rec = Empty /\ Len(hist) = 3 -> {Then(Then(Rec(1), Rec(2)), Rec(3)),
                                                Then(Rec(1), Then(Rec(2), Rec(3)))}
            [] OTHER -> {}

\* No origin lists an output twice, in any record or composition.
TypeOK == \A r \in Chains \cup {rec} : \A o \in Origins :
            /\ IsInjective(r.generated[o]) /\ IsInjective(r.modified[o])
            /\ ToSet(r.generated[o]) \cup ToSet(r.modified[o]) \subseteq Entities

\* provenance.rs then, "Associative over well-formed chains": with the one
\* exception the tests name, the order of what is generated.
ChainsAgree ==
    \A r, q \in Chains :
        /\ r.modified = q.modified /\ r.deleted = q.deleted
        /\ \A o \in Origins : ToSet(r.generated[o]) = ToSet(q.generated[o])

\* "Intermediate entities - outputs of `self` that `next` consumed - are
\* nobody's input and appear nowhere": a composition names as an origin, or
\* deletes, only what the chain began with, and lists as outputs only what
\* is there at its end.
Made == UNION {Outputs(Rec(k)) : k \in DOMAIN hist}
NothingIntermediate ==
    \A r \in Chains :
        /\ \A e \in Made : ~ Accounted(r, e)
        /\ Outputs(r) \subseteq here

\* ADR-0009, "the order nests": the outputs that stand for one piece of an
\* origin come before those of the next piece - but what stands for both is
\* listed once, with the first of the pieces it stands for.
Precede(list, S, T) == \A i, j \in DOMAIN list : list[i] \in S /\ list[j] \in T => i < j
Nests(list, pieces, images) ==
    \A i, j \in DOMAIN pieces : i < j =>
        Precede(list, ToSet(images[pieces[i]]),
                ToSet(images[pieces[j]])
                  \ UNION {ToSet(images[pieces[k]]) : k \in 1 .. (j - 1)})
OrderNests ==
    rec = Empty /\ Len(hist) >= 2 =>
        LET p == Rec(Len(hist) - 1)
            q == Rec(Len(hist))
            r == Then(p, q)
        IN  \A o \in Origins :
              /\ Nests(r.modified[o], p.modified[o], Pieces(q))
              /\ Nests(r.generated[o], p.generated[o], Family(q))
              /\ p.generated[o] = <<>> => Nests(r.generated[o], p.modified[o], q.generated)

\* DATA-MODEL.md, "every entity of every input body is accounted for", along
\* a chain in which every operation takes the body the last one returned and
\* its record passes `audit`: the composition passes the audit of the first
\* input against the last output, but for inputs only generated from whose
\* every child is gone.
InLine == \A k \in DOMAIN hist :
    /\ \A e \in Entities : Accounted(Rec(k), e) => e \in hist[k].ins
    /\ Audit(hist[k].ins, hist[k].out, Rec(k))
GeneratedOnly(r, e) == r.generated[e] # <<>> /\ r.modified[e] = <<>> /\ e \notin r.deleted
AuditSurvivesThen ==
    hist # <<>> /\ InLine => \A r \in Chains :
        /\ NoOrigin(First, Last(hist).out, r) = {}
        /\ DeletedAndModified(First, r) = {}
        /\ NotAnInput(First, r) = {}
        /\ \A e \in Unaccounted(First, Last(hist).out, r) :
              \E k \in DOMAIN hist : GeneratedOnly(Rec(k), e)
ChainsAccount == TypeOK /\ NothingIntermediate /\ AuditSurvivesThen
=============================================================================
