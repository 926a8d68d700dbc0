----------------------------- MODULE Cat89Struct ---------------------------
(***************************************************************************)
(* The structures a client composes over one small category: functors,     *)
(* natural transformations, isomorphisms and split pairs.  None of their   *)
(* constructors tests a law; the laws of what they compose are the         *)
(* client's contract, and the question is whether a composite keeps them.  *)
(* Paths of the free category are composed the same way.                   *)
(***************************************************************************)
EXTENDS Cat89Wrap

CONSTANTS Builders,    \* what the client fills its builders with
          Edges,       \* the edges <<source, target, label>> of the client's graph
          MaxPath      \* the longest path the client composes

ASSUME BuildersTyped == \A b \in Builders : BuilderTyped(b)

VARIABLES inputs, structure

structVars == <<inputs, structure>>

\* The validated categories the client works in.
Categories == {Store(b) : b \in {b \in Builders : BuilderValid(b)}}

\* The lawful inputs: endofunctors and the transformations between them.
Functors(C) ==
    {F \in {[src |-> C, tgt |-> C, obj |-> ob, mor |-> mo] :
               ob \in [C.objs -> C.objs], mo \in [C.mors -> C.mors]} : Typed(F) /\ CheckFunctor(F)}

TypedNat(alpha) ==
    \A x \in alpha.src.src.objs :
        alpha.at[x] \in Hom(alpha.src.tgt, alpha.src.obj[x], alpha.tgt.obj[x])

Nats(C) ==
    {n \in {[src |-> F, tgt |-> G, at |-> c] :
               F \in Functors(C), G \in Functors(C), c \in [C.objs -> C.mors]} :
        TypedNat(n) /\ CheckNaturality(n)}

StructInit ==
    /\ inputs \in {[cat |-> C, functors |-> Functors(C), nats |-> Nats(C)] : C \in Categories}
    /\ \/ structure \in {[kind |-> "functor", it |-> F] : F \in inputs.functors}
       \/ structure \in {[kind |-> "nat", it |-> n] : n \in inputs.nats}
       \/ structure \in {[kind |-> "nat", it |-> IdentityNat(F)] : F \in inputs.functors}
       \/ structure \in {[kind |-> "iso", it |-> i] : i \in IsoPairs(inputs.cat)}
       \/ structure \in {[kind |-> "mono", it |-> s] : s \in SplitMonos(inputs.cat)}
       \/ structure \in {[kind |-> "epi", it |-> s] : s \in SplitEpis(inputs.cat)}
       \/ structure \in {[kind |-> "path", it |-> FreeEdge(e)] : e \in Edges}

Become(kind, it) ==
    /\ structure.kind = kind
    /\ structure' = [kind |-> kind, it |-> it]
    /\ UNCHANGED inputs

ComposeFunctors == \E G \in inputs.functors : Become("functor", FunctorCompose(G, structure.it))

ComposeVertical ==
    \E beta \in inputs.nats : beta.src = structure.it.tgt /\ Become("nat", Vertical(beta, structure.it))
DoWhiskerLeft == \E H \in inputs.functors : Become("nat", WhiskerLeft(H, structure.it))
DoWhiskerRight == \E K \in inputs.functors : Become("nat", WhiskerRight(structure.it, K))

\* The kernel refuses two pairs that do not meet, and nothing is built.
ComposePairs(kind, pairs) ==
    \E g \in pairs :
        LET both == PairCompose(inputs.cat, g, structure.it)
        IN /\ both[1].st = "ok" /\ both[2].st = "ok"
           /\ Become(kind, <<both[1].mor, both[2].mor>>)

ComposeIsos == ComposePairs("iso", IsoPairs(inputs.cat))
InvertIso == Become("iso", IsoInvert(structure.it))
IsoAsSplitMono == structure.kind = "iso" /\ structure' = [kind |-> "mono", it |-> structure.it] /\ UNCHANGED inputs
IsoAsSplitEpi == structure.kind = "iso" /\ structure' = [kind |-> "epi", it |-> structure.it] /\ UNCHANGED inputs
ComposeMonos == ComposePairs("mono", SplitMonos(inputs.cat))
ComposeEpis == ComposePairs("epi", SplitEpis(inputs.cat))

ComposePaths ==
    /\ structure.kind = "path"
    /\ \/ \E e \in Edges : /\ e[1] = structure.it[2] /\ Len(structure.it[3]) < MaxPath
                           /\ Become("path", FreeCompose(FreeEdge(e), structure.it))
       \/ \E e \in Edges : /\ e[2] = structure.it[1] /\ Len(structure.it[3]) < MaxPath
                           /\ Become("path", FreeCompose(structure.it, FreeEdge(e)))

StructNext ==
    \/ structure.kind = "functor" /\ ComposeFunctors
    \/ structure.kind = "nat" /\ (ComposeVertical \/ DoWhiskerLeft \/ DoWhiskerRight)
    \/ structure.kind = "iso" /\ (ComposeIsos \/ InvertIso \/ IsoAsSplitMono \/ IsoAsSplitEpi)
    \/ structure.kind = "mono" /\ ComposeMonos
    \/ structure.kind = "epi" /\ ComposeEpis
    \/ ComposePaths

StructSpec == StructInit /\ [][StructNext]_structVars

---------------------------------------------------------------------------
(* Properties *)

\* What is composed from lawful functors is a functor, from natural
\* transformations a typed natural transformation, from isomorphisms and split
\* pairs again one, and from edges a path of the graph.
CompositesLawful ==
    /\ structure.kind = "functor" => Typed(structure.it) /\ CheckFunctor(structure.it)
    /\ structure.kind = "nat" => TypedNat(structure.it) /\ CheckNaturality(structure.it)
    /\ structure.kind = "iso" => CheckIso(inputs.cat, structure.it)
    /\ structure.kind = "mono" => CheckSplitMono(inputs.cat, structure.it)
    /\ structure.kind = "epi" => CheckSplitEpi(inputs.cat, structure.it)
    /\ structure.kind = "path" =>
         LET p == structure.it[3]
         IN /\ \A i \in 1 .. Len(p) - 1 : p[i][2] = p[i + 1][1]
            /\ p[1][1] = structure.it[1] /\ p[Len(p)][2] = structure.it[2]

\* The interchange law: whiskering on one side and then the other gives the
\* same transformation in either order.
Interchange ==
    structure.kind = "nat" =>
        \A beta \in inputs.nats :
            LET alpha == structure.it
            IN Vertical(WhiskerRight(beta, alpha.tgt), WhiskerLeft(beta.src, alpha)) =
               Vertical(WhiskerLeft(beta.tgt, alpha), WhiskerRight(beta, alpha.src))

\* What libcat89 composes from lawful structures is lawful again, and whiskering
\* and vertical composition interchange (functor.c, nat.c, iso.c, split.c, free.c).
StructuresLawful == CompositesLawful /\ Interchange
============================================================================
