----------------------------- MODULE Cat89Wrap -----------------------------
(***************************************************************************)
(* The categories libcat89 derives from others, and the structures it      *)
(* packages over them: opposite, product, slice, coslice, comma and arrow  *)
(* categories, the thin category of a preorder and the free category of a  *)
(* graph; functors, natural transformations, isomorphisms and split pairs, *)
(* and the law checks of check.c.  A derived category is given the form of *)
(* a store with every object and morphism its constructors accept, so that *)
(* Lawful applies to it: the constructors test a square, compose does not. *)
(***************************************************************************)
EXTENDS Cat89Finite

Pairs(mors, dom, cod) == {p \in mors \X mors : cod[p[2]] = dom[p[1]]}

\* The category with these morphisms, each <<its domain, its codomain, ...>>.
Category(objs, mors, id(_), comp(_, _)) ==
    LET dom == [m \in mors |-> m[1]]
        cod == [m \in mors |-> m[2]]
    IN [objs |-> objs, mors |-> mors, dom |-> dom, cod |-> cod,
        id |-> [x \in objs |-> id(x)],
        comp |-> [p \in Pairs(mors, dom, cod) |-> comp(p[1], p[2])]]

---------------------------------------------------------------------------
(* Derived categories *)

\* Mutant: the operands of a composition are not exchanged.
OppositeKeepsOrder(C) ==
    [C EXCEPT !.dom = C.cod, !.cod = C.dom,
              !.comp = [p \in Pairs(C.mors, C.cod, C.dom) |->
                           IF p \in DOMAIN C.comp THEN C.comp[p] ELSE C.comp[<<p[2], p[1]>>]]]

Opposite(C) ==
    [C EXCEPT !.dom = C.cod, !.cod = C.dom,
              !.comp = [p \in Pairs(C.mors, C.cod, C.dom) |-> C.comp[<<p[2], p[1]>>]]]

PmorMake(L, R, lm, rm) == <<<<L.dom[lm], R.dom[rm]>>, <<L.cod[lm], R.cod[rm]>>, lm, rm>>

ProductCat(L, R) ==
    Category(L.objs \X R.objs, {PmorMake(L, R, lm, rm) : lm \in L.mors, rm \in R.mors},
             LAMBDA x : PmorMake(L, R, L.id[x[1]], R.id[x[2]]),
             LAMBDA g, f : PmorMake(L, R, o(L, g[3], f[3]), o(R, g[4], f[4])))

\* cat89_slice_obj_new and cat89_slice_mor_new, with the status they answer.
SliceObj(C, apex, f) == IF C.cod[f] = apex THEN "ok" ELSE "domain"

SliceSquareOk(C, d, c, h) == o(C, c, h) = d

SliceMor(C, d, c, h) ==
    CASE C.cod[h] # C.dom[c] -> "domain"
      [] C.cod[h] = C.dom[c] /\ ~SliceSquareOk(C, d, c, h) -> "invalid"
      [] OTHER -> "ok"

\* Mutant: the identity of a node is that of the apex.
SliceApexIdentity(C, apex) ==
    LET objs == {f \in C.mors : SliceObj(C, apex, f) = "ok"}
    IN Category(objs, {m \in objs \X objs \X C.mors : SliceMor(C, m[1], m[2], m[3]) = "ok"},
                LAMBDA f : <<f, f, C.id[C.cod[f]]>>,
                LAMBDA g, f : <<f[1], g[2], o(C, g[3], f[3])>>)

Slice(C, apex) ==
    LET objs == {f \in C.mors : SliceObj(C, apex, f) = "ok"}
    IN Category(objs, {m \in objs \X objs \X C.mors : SliceMor(C, m[1], m[2], m[3]) = "ok"},
                LAMBDA f : <<f, f, C.id[C.dom[f]]>>,
                LAMBDA g, f : <<f[1], g[2], o(C, g[3], f[3])>>)

CosliceObj(C, source, f) == IF C.dom[f] = source THEN "ok" ELSE "domain"

CosliceSquareOk(C, d, c, k) == o(C, k, d) = c

CosliceMor(C, d, c, k) ==
    CASE C.cod[d] # C.dom[k] -> "domain"
      [] C.cod[d] = C.dom[k] /\ ~CosliceSquareOk(C, d, c, k) -> "invalid"
      [] OTHER -> "ok"

Coslice(C, source) ==
    LET objs == {f \in C.mors : CosliceObj(C, source, f) = "ok"}
    IN Category(objs, {m \in objs \X objs \X C.mors : CosliceMor(C, m[1], m[2], m[3]) = "ok"},
                LAMBDA f : <<f, f, C.id[C.cod[f]]>>,
                LAMBDA g, f : <<f[1], g[2], o(C, g[3], f[3])>>)

\* A preorder: the client's relation, whose reflexivity and transitivity the
\* library takes on trust.
Thin(points, leq) ==
    Category(points, leq, LAMBDA x : <<x, x>>, LAMBDA g, f : <<f[1], g[2]>>)

\* The free category: a morphism is <<source, target, edges>>.
FreeIdentity(v) == <<v, v, << >>>>
FreeEdge(e) == <<e[1], e[2], <<e>>>>
FreeCompose(g, f) ==
    CASE f[3] = << >> -> <<f[1], g[2], g[3]>>
      [] f[3] # << >> /\ g[3] = << >> -> <<f[1], g[2], f[3]>>
      [] OTHER -> <<f[1], g[2], f[3] \o g[3]>>

---------------------------------------------------------------------------
(* Functors and natural transformations *)

IdentityFunctor(C) ==
    [src |-> C, tgt |-> C, obj |-> [x \in C.objs |-> x], mor |-> [m \in C.mors |-> m]]

FunctorCompose(G, F) ==
    [src |-> F.src, tgt |-> G.tgt, obj |-> [x \in F.src.objs |-> G.obj[F.obj[x]]],
     mor |-> [m \in F.src.mors |-> G.mor[F.mor[m]]]]

Typed(F) ==
    \A m \in F.src.mors : /\ F.tgt.dom[F.mor[m]] = F.obj[F.src.dom[m]]
                          /\ F.tgt.cod[F.mor[m]] = F.obj[F.src.cod[m]]

FunctorIdentityCases(F) == {<<F.mor[F.src.id[x]], F.tgt.id[F.obj[x]]>> : x \in F.src.objs}

FunctorCompositionCases(F) ==
    {<<[st |-> "ok", mor |-> F.mor[F.src.comp[p]]], Compose(F.tgt, F.mor[p[1]], F.mor[p[2]])>> :
        p \in DOMAIN F.src.comp}

\* cat89_check_functor_exhaustive finds no failing case and no error.
CheckFunctor(F) ==
    /\ \A p \in FunctorIdentityCases(F) : p[1] = p[2]
    /\ \A p \in FunctorCompositionCases(F) : p[1] = p[2]

\* comma_obj_new, comma_mor_new: the span of two functors into one category.
CommaObj(F, G, c, f, d) ==
    IF F.tgt.dom[f] = F.obj[c] /\ F.tgt.cod[f] = G.obj[d] THEN "ok" ELSE "domain"

CommaEndpointsOk(F, G, d, c, u, v) ==
    /\ F.src.dom[u] = d[1] /\ F.src.cod[u] = c[1]
    /\ G.src.dom[v] = d[3] /\ G.src.cod[v] = c[3]

CommaSquareOk(F, G, d, c, u, v) == o(F.tgt, G.mor[v], d[2]) = o(F.tgt, c[2], F.mor[u])

CommaMor(F, G, d, c, u, v) ==
    CASE ~CommaEndpointsOk(F, G, d, c, u, v) -> "domain"
      [] CommaEndpointsOk(F, G, d, c, u, v) /\ ~CommaSquareOk(F, G, d, c, u, v) -> "invalid"
      [] OTHER -> "ok"

Comma(F, G) ==
    LET objs == {n \in F.src.objs \X F.tgt.mors \X G.src.objs :
                    CommaObj(F, G, n[1], n[2], n[3]) = "ok"}
    IN Category(objs, {m \in objs \X objs \X F.src.mors \X G.src.mors :
                          CommaMor(F, G, m[1], m[2], m[3], m[4]) = "ok"},
                LAMBDA n : <<n, n, F.src.id[n[1]], G.src.id[n[3]]>>,
                LAMBDA g, f : <<f[1], g[2], o(F.src, g[3], f[3]), o(G.src, g[4], f[4])>>)

ArrowCat(C) == Comma(IdentityFunctor(C), IdentityFunctor(C))

IdentityNat(F) == [src |-> F, tgt |-> F, at |-> [x \in F.src.objs |-> F.tgt.id[F.obj[x]]]]

Vertical(beta, alpha) ==
    [src |-> alpha.src, tgt |-> beta.tgt,
     at |-> [x \in alpha.src.src.objs |-> o(alpha.src.tgt, beta.at[x], alpha.at[x])]]

\* Mutant: the target is composed from the source functor of alpha.
WhiskerLeftSource(H, alpha) ==
    [src |-> FunctorCompose(H, alpha.src), tgt |-> FunctorCompose(H, alpha.src),
     at |-> [x \in alpha.src.src.objs |-> H.mor[alpha.at[x]]]]

WhiskerLeft(H, alpha) ==
    [src |-> FunctorCompose(H, alpha.src), tgt |-> FunctorCompose(H, alpha.tgt),
     at |-> [x \in alpha.src.src.objs |-> H.mor[alpha.at[x]]]]

WhiskerRight(alpha, K) ==
    [src |-> FunctorCompose(alpha.src, K), tgt |-> FunctorCompose(alpha.tgt, K),
     at |-> [x \in K.src.objs |-> alpha.at[K.obj[x]]]]

NaturalityCases(alpha) ==
    LET F == alpha.src
        G == alpha.tgt
    IN {<<Compose(F.tgt, G.mor[m], alpha.at[F.src.dom[m]]),
          Compose(F.tgt, alpha.at[F.src.cod[m]], F.mor[m])>> : m \in F.src.mors}

CheckNaturality(alpha) ==
    \A p \in NaturalityCases(alpha) : p[1].st = "ok" /\ p[1] = p[2]

---------------------------------------------------------------------------
(* Isomorphisms and split pairs *)

\* law_identity: b o a is the identity of obj.
LawIdentity(C, b, a, obj) == Compose(C, b, a) = [st |-> "ok", mor |-> C.id[obj]]

CheckIso(C, i) ==
    LawIdentity(C, i[2], i[1], C.dom[i[1]]) /\ LawIdentity(C, i[1], i[2], C.cod[i[1]])

CheckSplitMono(C, s) == LawIdentity(C, s[2], s[1], C.dom[s[1]])

CheckSplitEpi(C, s) == LawIdentity(C, s[1], s[2], C.cod[s[1]])

\* The census pairs the exhaustive sweeps count.
Opposed(C, i, j) == C.dom[j] = C.cod[i] /\ C.cod[j] = C.dom[i]
IsoPairs(C) == {p \in C.mors \X C.mors : Opposed(C, p[1], p[2]) /\ CheckIso(C, p)}
SplitMonos(C) == {p \in C.mors \X C.mors : Opposed(C, p[1], p[2]) /\ CheckSplitMono(C, p)}
SplitEpis(C) == {p \in C.mors \X C.mors : Opposed(C, p[1], p[2]) /\ CheckSplitEpi(C, p)}

\* Mutant: the inverses are composed in the order of the forward morphisms.
PairComposeForward(C, g, f) == <<Compose(C, g[1], f[1]), Compose(C, g[2], f[2])>>

\* <<forward, inverse>> of an isomorphism, <<section, retraction>> of a split.
PairCompose(C, g, f) == <<Compose(C, g[1], f[1]), Compose(C, f[2], g[2])>>

PairIdentity(C, x) == <<C.id[x], C.id[x]>>
IsoInvert(i) == <<i[2], i[1]>>

---------------------------------------------------------------------------
(* Cones *)

\* cone_mor_check over every arrow: D(m) o leg(j) = leg(k).
CheckCone(C, shape, arrows, legs) ==
    \A i \in DOMAIN ShapeArrows[shape] :
        LET m == ShapeArrows[shape][i]
        IN Compose(C, arrows[i], legs[m[1]]) = [st |-> "ok", mor |-> legs[m[2]]]

\* cocone_mor_check: leg(k) o D(m) = leg(j).
CheckCocone(C, shape, arrows, legs) ==
    \A i \in DOMAIN ShapeArrows[shape] :
        LET m == ShapeArrows[shape][i]
        IN Compose(C, legs[m[2]], arrows[i]) = [st |-> "ok", mor |-> legs[m[1]]]
============================================================================
