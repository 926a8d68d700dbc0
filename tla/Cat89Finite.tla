---------------------------- MODULE Cat89Finite ----------------------------
(***************************************************************************)
(* libcat89's finite backend: the builder a client fills with objects,     *)
(* morphisms, identities and composition rows, the validation it passes    *)
(* before a category is built from it, the immutable store behind the      *)
(* category, and the law checks that run through the category's public     *)
(* operations.  Objects and morphisms are numbered from 1; 0 is the        *)
(* sentinel of an identity that was never set.                             *)
(*                                                                         *)
(* Then the universal-construction finders: terminal and initial objects,  *)
(* binary products and coproducts, equalizers and coequalizers, pullbacks  *)
(* and pushouts.  Each finder takes a census of the category and tries     *)
(* every apex with every choice of legs.  It does not look for the unique  *)
(* mediator of every cone: it counts a hom-set, compares the count with    *)
(* the number of cones, and asks for SOME mediator of each.  The reference *)
(* definitions at the end ask for exactly one.  The colimit finders are    *)
(* separate code, not the limit finders on the opposite category.          *)
(***************************************************************************)
EXTENDS Naturals, Sequences, FiniteSets, FiniteSetsExt

Sentinel == 0

---------------------------------------------------------------------------
(* The builder *)

EmptyBuilder == [ident |-> << >>, mors |-> << >>, comps |-> << >>]

Objects(b) == DOMAIN b.ident
Morphisms(b) == DOMAIN b.mors

AddObject(b) == [b EXCEPT !.ident = Append(@, Sentinel)]
AddMorphism(b, d, c) == [b EXCEPT !.mors = Append(@, [dom |-> d, cod |-> c])]
SetIdentity(b, o, m) == [b EXCEPT !.ident[o] = m]
SetComposition(b, g, f, r) == [b EXCEPT !.comps = Append(@, [g |-> g, f |-> f, r |-> r])]

\* What these functions let into a builder: every reference is to an object or a
\* morphism it has, but for the identity that was never set.
BuilderTyped(b) ==
    /\ b = [ident |-> b.ident, mors |-> b.mors, comps |-> b.comps]
    /\ b.ident \in Seq({Sentinel} \cup Morphisms(b))
    /\ b.mors \in Seq([dom : Objects(b), cod : Objects(b)])
    /\ b.comps \in Seq([g : Morphisms(b), f : Morphisms(b), r : Morphisms(b)])

Composable(b, g, f) == b.mors[f].cod = b.mors[g].dom

RowsOf(b, g, f) == {i \in DOMAIN b.comps : b.comps[i].g = g /\ b.comps[i].f = f}

\* The builder's own look-up keeps the result of the last row that matches.
CompLookup(b, g, f) ==
    IF RowsOf(b, g, f) = {} THEN 0 ELSE b.comps[Max(RowsOf(b, g, f))].r

IdentRefsOk(b) == \A o \in Objects(b) : b.ident[o] \in Morphisms(b)

IdentTypingOk(b) == \A o \in Objects(b) : b.mors[b.ident[o]] = [dom |-> o, cod |-> o]

CompRowsOk(b) ==
    \A i \in DOMAIN b.comps :
        LET row == b.comps[i]
        IN /\ Composable(b, row.g, row.f)
           /\ b.mors[row.r] = [dom |-> b.mors[row.f].dom, cod |-> b.mors[row.g].cod]

\* Mutant: a pair with several rows counts as complete.
CompleteAtLeast(b) ==
    \A g, f \in Morphisms(b) : Composable(b, g, f) => RowsOf(b, g, f) # {}

Complete(b) ==
    \A g, f \in Morphisms(b) : Composable(b, g, f) => Cardinality(RowsOf(b, g, f)) = 1

\* Mutant: only the triples whose outer morphism is an endomorphism are tried.
AssociativeEndo(b) ==
    \A f, g, h \in Morphisms(b) :
        Composable(b, g, f) /\ Composable(b, h, g) /\ h = g =>
            CompLookup(b, CompLookup(b, h, g), f) = CompLookup(b, h, CompLookup(b, g, f))

Associative(b) ==
    \A f, g, h \in Morphisms(b) :
        Composable(b, g, f) /\ Composable(b, h, g) =>
            CompLookup(b, CompLookup(b, h, g), f) = CompLookup(b, h, CompLookup(b, g, f))

IdentitiesOk(b) ==
    \A f \in Morphisms(b) :
        LET left == b.ident[b.mors[f].cod]
            right == b.ident[b.mors[f].dom]
        IN /\ Cardinality(RowsOf(b, left, f)) = 1 /\ CompLookup(b, left, f) = f
           /\ Cardinality(RowsOf(b, f, right)) = 1 /\ CompLookup(b, f, right) = f

BuilderValid(b) ==
    /\ IdentRefsOk(b)
    /\ IdentTypingOk(b)
    /\ CompRowsOk(b)
    /\ Complete(b)
    /\ Associative(b)
    /\ IdentitiesOk(b)

---------------------------------------------------------------------------
(* The diagram shapes of shape.c, built through the same builder *)

ShapeObjects == [pair |-> 2, parallel |-> 2, span |-> 3, cospan |-> 3]

\* <<source node, target node>> of each arrow.
ShapeArrows == [pair |-> << >>, parallel |-> <<<<1, 2>>, <<1, 2>>>>,
                span |-> <<<<1, 3>>, <<2, 3>>>>, cospan |-> <<<<1, 2>>, <<1, 3>>>>]

\* Mutant: the composite is the first operand even when it is an identity.
ShapeResultFirst(ident, mors, g, f) == f

\* One operand of every composable pair is an identity.
ShapeResult(ident, mors, g, f) == IF f = ident[mors[f].dom] THEN g ELSE f

ShapeBuilder(kind) ==
    LET n == ShapeObjects[kind]
        arrows == ShapeArrows[kind]
        ident == [i \in 1 .. n |-> i]
        mors == [i \in 1 .. n |-> [dom |-> i, cod |-> i]]
                    \o [i \in DOMAIN arrows |-> [dom |-> arrows[i][1], cod |-> arrows[i][2]]]
        k == Len(mors)
        pairs == [i \in 1 .. k * k |-> <<((i - 1) \div k) + 1, ((i - 1) % k) + 1>>]
        composable == SelectSeq(pairs, LAMBDA p : mors[p[2]].cod = mors[p[1]].dom)
    IN [ident |-> ident, mors |-> mors,
        comps |-> [i \in DOMAIN composable |->
                      [g |-> composable[i][1], f |-> composable[i][2],
                       r |-> ShapeResult(ident, mors, composable[i][1], composable[i][2])]]]

---------------------------------------------------------------------------
(* The store, and the category's operations over it *)

\* The store's look-up, unlike the builder's, stops at the first row.
StoreComp(b) ==
    [p \in {<<b.comps[i].g, b.comps[i].f>> : i \in DOMAIN b.comps} |->
        b.comps[Min(RowsOf(b, p[1], p[2]))].r]

Store(b) ==
    [objs |-> Objects(b), mors |-> Morphisms(b),
     dom |-> [m \in Morphisms(b) |-> b.mors[m].dom],
     cod |-> [m \in Morphisms(b) |-> b.mors[m].cod],
     id |-> b.ident, comp |-> StoreComp(b)]

\* cat89_compose: the kernel refuses what is not composable, the backend what
\* it has no row for.
Compose(C, g, f) ==
    CASE C.cod[f] # C.dom[g] -> [st |-> "domain", mor |-> 0]
      [] C.cod[f] = C.dom[g] /\ <<g, f>> \notin DOMAIN C.comp -> [st |-> "invalid", mor |-> 0]
      [] OTHER -> [st |-> "ok", mor |-> C.comp[<<g, f>>]]

\* A composition whose operand is itself the outcome of one.
ComposeLeft(C, g, f) == IF g.st = "ok" THEN Compose(C, g.mor, f) ELSE g
ComposeRight(C, g, f) == IF f.st = "ok" THEN Compose(C, g, f.mor) ELSE f

Triples(C) ==
    {t \in C.mors \X C.mors \X C.mors :
        C.cod[t[3]] = C.dom[t[2]] /\ C.cod[t[2]] = C.dom[t[1]]}

\* The outcomes cat89_check_category_exhaustive compares: each law of each
\* morphism or triple as the pair of sides.
IdentityCases(C) ==
    {<<Compose(C, C.id[C.cod[f]], f), [st |-> "ok", mor |-> f]>> : f \in C.mors}
        \cup {<<Compose(C, f, C.id[C.dom[f]]), [st |-> "ok", mor |-> f]>> : f \in C.mors}

AssociativityCases(C) ==
    {<<ComposeLeft(C, Compose(C, t[1], t[2]), t[3]),
       ComposeRight(C, t[1], Compose(C, t[2], t[3]))>> : t \in Triples(C)}

CheckExhaustive(C) ==
    LET cases == IdentityCases(C) \cup AssociativityCases(C)
    IN [st |-> IF \A p \in cases : p[1].st = "ok" /\ p[2].st = "ok" THEN "ok" ELSE "error",
        clean |-> \A p \in cases : p[1] = p[2]]

---------------------------------------------------------------------------
(* The textbook: what a category is, whatever backend it comes from *)

Lawful(C) ==
    /\ \A o \in C.objs : C.id[o] \in C.mors /\ C.dom[C.id[o]] = o /\ C.cod[C.id[o]] = o
    /\ \A f, g \in C.mors :
         C.cod[f] = C.dom[g] =>
            LET gf == C.comp[<<g, f>>]
            IN gf \in C.mors /\ C.dom[gf] = C.dom[f] /\ C.cod[gf] = C.cod[g]
    /\ \A f \in C.mors :
         C.comp[<<C.id[C.cod[f]], f>>] = f /\ C.comp[<<f, C.id[C.dom[f]]>>] = f
    /\ \A t \in Triples(C) :
         C.comp[<<C.comp[<<t[1], t[2]>>], t[3]>>] = C.comp[<<t[1], C.comp[<<t[2], t[3]>>]>>]

---------------------------------------------------------------------------
(* Hom-sets and the order of a search *)

Hom(C, x, y) == {m \in C.mors : C.dom[m] = x /\ C.cod[m] = y}

o(C, g, f) == C.comp[<<g, f>>]

\* The loops run over apexes and legs by number and stop at the first success.
LexLess(s, t) == \E i \in DOMAIN s : s[i] < t[i] /\ \A j \in 1 .. i - 1 : s[j] = t[j]

First(S) == CHOOSE s \in S : \A t \in S \ {s} : LexLess(s, t)

NotFound == [st |-> "notfound", apex |-> 0, legs |-> << >>]

---------------------------------------------------------------------------
(* Terminal and initial objects *)

UniqueMor(C, x, y) == Cardinality(Hom(C, x, y)) = 1

FindTerminal(C) ==
    LET hits == {<<t>> : t \in {t \in C.objs : \A x \in C.objs : UniqueMor(C, x, t)}}
    IN IF hits = {} THEN NotFound ELSE [st |-> "ok", apex |-> First(hits)[1], legs |-> << >>]

FindInitial(C) ==
    LET hits == {<<t>> : t \in {t \in C.objs : \A x \in C.objs : UniqueMor(C, t, x)}}
    IN IF hits = {} THEN NotFound ELSE [st |-> "ok", apex |-> First(hits)[1], legs |-> << >>]

\* The unique element of a set of mediators, or not found.
Single(S) ==
    IF Cardinality(S) = 1 THEN [st |-> "ok", mor |-> CHOOSE m \in S : TRUE]
    ELSE [st |-> "notfound", mor |-> 0]

TerminalArrow(C, terminal, x) == Single(Hom(C, x, terminal))

InitialArrow(C, initial, x) == Single(Hom(C, initial, x))

---------------------------------------------------------------------------
(* Binary products and pullbacks: mediators into the apex *)

Mediators(C, y, p, pa, pb, xa, xb) ==
    {m \in Hom(C, y, p) : o(C, pa, m) = xa /\ o(C, pb, m) = xb}

\* Mutant: the cardinalities are not compared.
ProductCovers(C, y, p, a, b, pa, pb) ==
    \A xa \in Hom(C, y, a), xb \in Hom(C, y, b) : Mediators(C, y, p, pa, pb, xa, xb) # {}

ObjCheck(C, y, p, a, b, pa, pb) ==
    /\ Cardinality(Hom(C, y, p)) = Cardinality(Hom(C, y, a)) * Cardinality(Hom(C, y, b))
    /\ \A xa \in Hom(C, y, a), xb \in Hom(C, y, b) : Mediators(C, y, p, pa, pb, xa, xb) # {}

IsProduct(C, p, a, b, pa, pb) == \A y \in C.objs : ObjCheck(C, y, p, a, b, pa, pb)

FindProduct(C, a, b) ==
    LET hits == {s \in UNION {{p} \X Hom(C, p, a) \X Hom(C, p, b) : p \in C.objs} :
                    IsProduct(C, s[1], a, b, s[2], s[3])}
    IN IF hits = {} THEN NotFound
       ELSE LET s == First(hits) IN [st |-> "ok", apex |-> s[1], legs |-> <<s[2], s[3]>>]

FactorProduct(C, lim, y, legs) ==
    Single(Mediators(C, y, lim.apex, lim.legs[1], lim.legs[2], legs[1], legs[2]))

PullbackCommutes(C, f, g, wx, wy) == o(C, f, wx) = o(C, g, wy)

CommutingPairs(C, w, x, y, f, g) ==
    {s \in Hom(C, w, x) \X Hom(C, w, y) : PullbackCommutes(C, f, g, s[1], s[2])}

PbObjCheck(C, w, x, y, apex, f, g, px, py) ==
    LET pairs == CommutingPairs(C, w, x, y, f, g)
    IN /\ \A s \in pairs : Mediators(C, w, apex, px, py, s[1], s[2]) # {}
       /\ Cardinality(pairs) = Cardinality(Hom(C, w, apex))

IsPullback(C, apex, f, g, px, py) ==
    /\ PullbackCommutes(C, f, g, px, py)
    /\ \A w \in C.objs : PbObjCheck(C, w, C.dom[f], C.dom[g], apex, f, g, px, py)

FindPullback(C, f, g) ==
    LET hits == {s \in UNION {{p} \X Hom(C, p, C.dom[f]) \X Hom(C, p, C.dom[g]) : p \in C.objs} :
                    IsPullback(C, s[1], f, g, s[2], s[3])}
    IN IF hits = {} THEN NotFound
       ELSE LET s == First(hits)
            IN [st |-> "ok", apex |-> s[1], legs |-> <<s[2], s[3], o(C, f, s[2])>>]

FactorPullback(C, lim, w, legs) ==
    Single(Mediators(C, w, lim.apex, lim.legs[1], lim.legs[2], legs[1], legs[2]))

---------------------------------------------------------------------------
(* Equalizers *)

Equalizes(C, f, g, e) == o(C, f, e) = o(C, g, e)

Equalizing(C, w, x, f, g) == {h \in Hom(C, w, x) : Equalizes(C, f, g, h)}

EqzMediators(C, w, apex, e, tar) == {u \in Hom(C, w, apex) : o(C, e, u) = tar}

EqzObjOk(C, w, x, apex, e, f, g) ==
    /\ Cardinality(Hom(C, w, apex)) = Cardinality(Equalizing(C, w, x, f, g))
    /\ \A t \in Equalizing(C, w, x, f, g) : EqzMediators(C, w, apex, e, t) # {}

IsEqualizer(C, apex, f, g, e) ==
    /\ Equalizes(C, f, g, e)
    /\ \A w \in C.objs : EqzObjOk(C, w, C.dom[f], apex, e, f, g)

FindEqualizer(C, f, g) ==
    LET hits == {s \in UNION {{p} \X Hom(C, p, C.dom[f]) : p \in C.objs} :
                    IsEqualizer(C, s[1], f, g, s[2])}
    IN IF hits = {} THEN NotFound
       ELSE LET s == First(hits)
            IN [st |-> "ok", apex |-> s[1], legs |-> <<s[2], o(C, f, s[2])>>]

FactorEqualizer(C, lim, w, legs) == Single(EqzMediators(C, w, lim.apex, lim.legs[1], legs[1]))

---------------------------------------------------------------------------
(* Binary coproducts and pushouts: mediators out of the apex *)

ColMediators(C, s, y, ia, ib, xa, xb) ==
    {u \in Hom(C, s, y) : o(C, u, ia) = xa /\ o(C, u, ib) = xb}

ObjCheckCol(C, y, s, a, b, ia, ib) ==
    /\ Cardinality(Hom(C, s, y)) = Cardinality(Hom(C, a, y)) * Cardinality(Hom(C, b, y))
    /\ \A xa \in Hom(C, a, y), xb \in Hom(C, b, y) : ColMediators(C, s, y, ia, ib, xa, xb) # {}

IsCoproduct(C, s, a, b, ia, ib) == \A y \in C.objs : ObjCheckCol(C, y, s, a, b, ia, ib)

FindCoproduct(C, a, b) ==
    LET hits == {s \in UNION {{p} \X Hom(C, a, p) \X Hom(C, b, p) : p \in C.objs} :
                    IsCoproduct(C, s[1], a, b, s[2], s[3])}
    IN IF hits = {} THEN NotFound
       ELSE LET s == First(hits) IN [st |-> "ok", apex |-> s[1], legs |-> <<s[2], s[3]>>]

FactorCoproduct(C, lim, y, legs) ==
    Single(ColMediators(C, lim.apex, y, lim.legs[1], lim.legs[2], legs[1], legs[2]))

PushoutCommutes(C, f, g, ay, az) == o(C, ay, f) = o(C, az, g)

CommutingCopairs(C, w, y, z, f, g) ==
    {s \in Hom(C, y, w) \X Hom(C, z, w) : PushoutCommutes(C, f, g, s[1], s[2])}

PoObjCheck(C, w, y, z, apex, f, g, iy, iz) ==
    LET pairs == CommutingCopairs(C, w, y, z, f, g)
    IN /\ \A s \in pairs : ColMediators(C, apex, w, iy, iz, s[1], s[2]) # {}
       /\ Cardinality(pairs) = Cardinality(Hom(C, apex, w))

\* Mutant: the legs of the candidate are not asked to commute.
PushoutCounts(C, apex, f, g, iy, iz) ==
    \A w \in C.objs : \A s \in CommutingCopairs(C, w, C.cod[f], C.cod[g], f, g) :
        ColMediators(C, apex, w, iy, iz, s[1], s[2]) # {}

IsPushout(C, apex, f, g, iy, iz) ==
    /\ PushoutCommutes(C, f, g, iy, iz)
    /\ \A w \in C.objs : PoObjCheck(C, w, C.cod[f], C.cod[g], apex, f, g, iy, iz)

FindPushout(C, f, g) ==
    LET hits == {s \in UNION {{p} \X Hom(C, C.cod[f], p) \X Hom(C, C.cod[g], p) : p \in C.objs} :
                    IsPushout(C, s[1], f, g, s[2], s[3])}
    IN IF hits = {} THEN NotFound
       ELSE LET s == First(hits)
            IN [st |-> "ok", apex |-> s[1], legs |-> <<o(C, s[2], f), s[2], s[3]>>]

\* Mutant: the mediator is looked for among the legs of the shared domain.
FactorPushoutShifted(C, lim, w, legs) ==
    Single(ColMediators(C, lim.apex, w, lim.legs[2], lim.legs[3], legs[2], legs[2]))

FactorPushout(C, lim, w, legs) ==
    Single(ColMediators(C, lim.apex, w, lim.legs[2], lim.legs[3], legs[2], legs[3]))

---------------------------------------------------------------------------
(* Coequalizers *)

Coequalizes(C, f, g, c) == o(C, c, f) = o(C, c, g)

Coequalizing(C, y, w, f, g) == {h \in Hom(C, y, w) : Coequalizes(C, f, g, h)}

CoeqMediators(C, q, w, c, a1) == {u \in Hom(C, q, w) : o(C, u, c) = a1}

CoeqObjOk(C, w, y, q, c, f, g) ==
    /\ Cardinality(Hom(C, q, w)) = Cardinality(Coequalizing(C, y, w, f, g))
    /\ \A t \in Coequalizing(C, y, w, f, g) : CoeqMediators(C, q, w, c, t) # {}

IsCoequalizer(C, q, f, g, c) ==
    /\ Coequalizes(C, f, g, c)
    /\ \A w \in C.objs : CoeqObjOk(C, w, C.cod[f], q, c, f, g)

FindCoequalizer(C, f, g) ==
    LET hits == {s \in UNION {{p} \X Hom(C, C.cod[f], p) : p \in C.objs} :
                    IsCoequalizer(C, s[1], f, g, s[2])}
    IN IF hits = {} THEN NotFound
       ELSE LET s == First(hits)
            IN [st |-> "ok", apex |-> s[1], legs |-> <<o(C, s[2], f), s[2]>>]

FactorCoequalizer(C, lim, w, legs) == Single(CoeqMediators(C, lim.apex, w, lim.legs[2], legs[2]))

---------------------------------------------------------------------------
(* Reference definitions: every cone factors through the apex exactly once *)

ProductCones(C, a, b) == UNION {{y} \X Hom(C, y, a) \X Hom(C, y, b) : y \in C.objs}

UniversalProduct(C, a, b, p, pa, pb) ==
    \A s \in ProductCones(C, a, b) :
        \E u \in Hom(C, s[1], p) :
            \A m \in Hom(C, s[1], p) : (o(C, pa, m) = s[2] /\ o(C, pb, m) = s[3]) <=> m = u

PullbackCones(C, f, g) ==
    {s \in ProductCones(C, C.dom[f], C.dom[g]) : o(C, f, s[2]) = o(C, g, s[3])}

UniversalPullback(C, f, g, p, px, py) ==
    /\ o(C, f, px) = o(C, g, py)
    /\ \A s \in PullbackCones(C, f, g) :
          \E u \in Hom(C, s[1], p) :
              \A m \in Hom(C, s[1], p) : (o(C, px, m) = s[2] /\ o(C, py, m) = s[3]) <=> m = u

UniversalEqualizer(C, f, g, p, e) ==
    /\ o(C, f, e) = o(C, g, e)
    /\ \A w \in C.objs : \A t \in {t \in Hom(C, w, C.dom[f]) : o(C, f, t) = o(C, g, t)} :
          \E u \in Hom(C, w, p) : \A m \in Hom(C, w, p) : o(C, e, m) = t <=> m = u
============================================================================
