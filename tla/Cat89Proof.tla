----------------------------- MODULE Cat89Proof ----------------------------
(***************************************************************************)
(* What the clients of libcat89 are promised, whatever they do and however *)
(* long they go on.  Of the finite backend: validation is exact, what a    *)
(* finder returns is universal and factors every cone, and what is derived *)
(* from a validated category is a category.  Of the structures composed    *)
(* over a category: functors, natural transformations, isomorphisms, split *)
(* pairs and paths are lawful; the library tests no law of a composite,    *)
(* and the proofs show that it need not.                                   *)
(***************************************************************************)
EXTENDS Cat89, Cat89Struct, Cat89Wrap, FiniteSetTheorems, TLAPS

---------------------------------------------------------------------------
(* Categories.                                                             *)

\* The form of a store: tables over finite sets of objects and morphisms.
Form(C) ==
    /\ C = [objs |-> C.objs, mors |-> C.mors, dom |-> C.dom, cod |-> C.cod,
            id |-> C.id, comp |-> C.comp]
    /\ IsFiniteSet(C.objs)
    /\ IsFiniteSet(C.mors)

\* A category, as the public operations of libcat89 see one.
IsCategory(C) ==
    /\ Form(C)
    /\ C.dom \in [C.mors -> C.objs]
    /\ C.cod \in [C.mors -> C.objs]
    /\ C.id \in [C.objs -> C.mors]
    /\ C.comp \in [Pairs(C.mors, C.dom, C.cod) -> C.mors]
    /\ Lawful(C)

\* Objects and morphisms are numbers, as they are in a store.
Numbered(C) == C.objs \subseteq Nat /\ C.mors \subseteq Nat

\* f may be followed by g.
Meet(C, g, f) == g \in C.mors /\ f \in C.mors /\ C.cod[f] = C.dom[g]

\* A composition.
LEMMA Composes ==
    ASSUME NEW C, IsCategory(C), NEW g, NEW f, Meet(C, g, f)
    PROVE  /\ o(C, g, f) \in C.mors
           /\ C.dom[o(C, g, f)] = C.dom[f]
           /\ C.cod[o(C, g, f)] = C.cod[g]
BY DEF IsCategory, Lawful, Meet, o

\* The kernel composes what meets.
LEMMA ComposeOk ==
    ASSUME NEW C, IsCategory(C), NEW g, NEW f, Meet(C, g, f)
    PROVE  Compose(C, g, f) = [st |-> "ok", mor |-> o(C, g, f)]
<1>1. <<g, f>> \in Pairs(C.mors, C.dom, C.cod)
  BY DEF Pairs, Meet
<1>2. <<g, f>> \in DOMAIN C.comp
  BY <1>1 DEF IsCategory
<1> QED BY <1>2 DEF Meet, o, Compose

\* The category laws.
LEMMA Associates ==
    ASSUME NEW C, IsCategory(C), NEW h, NEW g, NEW f,
           Meet(C, h, g), Meet(C, g, f)
    PROVE  /\ o(C, o(C, h, g), f) = o(C, h, o(C, g, f))
           /\ Meet(C, o(C, h, g), f) /\ Meet(C, h, o(C, g, f))
<1>1. <<h, g, f>> \in Triples(C)
  BY DEF Triples, Meet
<1>2. o(C, o(C, h, g), f) = o(C, h, o(C, g, f))
  BY <1>1 DEF IsCategory, Lawful, o
<1>3. /\ o(C, h, g) \in C.mors /\ C.dom[o(C, h, g)] = C.dom[g]
      /\ o(C, g, f) \in C.mors /\ C.cod[o(C, g, f)] = C.cod[g]
  BY Composes
<1> QED BY <1>2, <1>3 DEF Meet

\* Identities and their unit laws.
LEMMA Units ==
    ASSUME NEW C, IsCategory(C)
    PROVE  /\ \A x \in C.objs : /\ C.id[x] \in C.mors
                                /\ C.dom[C.id[x]] = x
                                /\ C.cod[C.id[x]] = x
           /\ \A f \in C.mors : /\ C.dom[f] \in C.objs
                                /\ C.cod[f] \in C.objs
                                /\ o(C, C.id[C.cod[f]], f) = f
                                /\ o(C, f, C.id[C.dom[f]]) = f
BY DEF IsCategory, Lawful, o

\* Morphisms by their ends.
LEMMA HomMeets ==
    ASSUME NEW C, IsCategory(C), NEW x, NEW y, NEW z,
           NEW g \in Hom(C, y, z), NEW f \in Hom(C, x, y)
    PROVE  Meet(C, g, f) /\ o(C, g, f) \in Hom(C, x, z)
<1>1. Meet(C, g, f)
  BY DEF Hom, Meet
<1>2. /\ o(C, g, f) \in C.mors
      /\ C.dom[o(C, g, f)] = C.dom[f]
      /\ C.cod[o(C, g, f)] = C.cod[g]
  BY <1>1, Composes
<1> QED BY <1>1, <1>2 DEF Hom

\* A hom-set is finite.
LEMMA HomFinite ==
    ASSUME NEW C, IsCategory(C), NEW x, NEW y
    PROVE  IsFiniteSet(Hom(C, x, y))
<1>1. Hom(C, x, y) \in SUBSET C.mors
  BY DEF Hom
<1> QED BY <1>1, FS_Subset DEF IsCategory, Form

---------------------------------------------------------------------------
(* Counting.                                                               *)

\* f hits every element of T exactly once.
HitsOnce(f, S, T) ==
    \A t \in T : \E u \in S : \A s \in S : f[s] = t <=> s = u

\* Two finite sets of the same size and some preimage of every element: this
\* is what the finders look for, and it means that there is just one.
LEMMA CountedOnce ==
    ASSUME NEW S, NEW T, IsFiniteSet(S), IsFiniteSet(T), NEW f \in [S -> T]
    PROVE  HitsOnce(f, S, T) <=>
              /\ Cardinality(S) = Cardinality(T)
              /\ \A t \in T : \E s \in S : f[s] = t
<1>1. ASSUME HitsOnce(f, S, T)
      PROVE  /\ Cardinality(S) = Cardinality(T)
             /\ \A t \in T : \E s \in S : f[s] = t
  <2>1. \A t \in T : \E s \in S : f[s] = t
    BY <1>1 DEF HitsOnce
  <2>2. \A s, u \in S : f[s] = f[u] => s = u
    BY <1>1 DEF HitsOnce
  <2>3. f \in Surjection(S, T) /\ f \in Injection(S, T)
    BY <2>1, <2>2 DEF Surjection, Injection, IsInjective
  <2> QED BY <2>1, <2>3, FS_Surjection
<1>2. ASSUME Cardinality(S) = Cardinality(T),
             \A t \in T : \E s \in S : f[s] = t
      PROVE  HitsOnce(f, S, T)
  <2>1. f \in Surjection(S, T)
    BY <1>2 DEF Surjection
  <2>2. f \in Injection(S, T)
    BY <1>2, <2>1, FS_Surjection
  <2>3. \A s, u \in S : f[s] = f[u] => s = u
    BY <2>2 DEF Injection, IsInjective
  <2> QED BY <1>2, <2>3 DEF HitsOnce
<1> QED BY <1>1, <1>2

\* Every set of natural numbers has a least element.
LEMMA LeastNat ==
    ASSUME NEW S, S \subseteq Nat, S # {}
    PROVE  \E m \in S : \A n \in S : m <= n
<1> DEFINE below == {0..n : n \in S}
<1>1. below \subseteq FiniteSubsetsOf(Nat) /\ below # {}
  <2>1. ASSUME NEW n \in S
        PROVE  0..n \in SUBSET Nat /\ IsFiniteSet(0..n)
    <3>1. n \in Int /\ 0..n \in SUBSET Nat
      OBVIOUS
    <3> QED BY <3>1, FS_Interval
  <2> QED BY <2>1 DEF FiniteSubsetsOf
<1>2. PICK m \in S :
         \A n \in S : <<0..n, 0..m>> \notin StrictSubsetOrdering(Nat)
  <2>1. PICK s \in below :
           \A t \in below : ~(<<t, s>> \in StrictSubsetOrdering(Nat))
    <3> HIDE DEF below
    <3> QED BY <1>1, WFMin, FS_StrictSubsetOrderingWellFounded
  <2> QED BY <2>1
<1>3. ASSUME NEW n \in S, n < m
      PROVE  FALSE
  <2>1. /\ 0..n \in SUBSET Nat /\ 0..m \in SUBSET Nat
        /\ 0..n \subseteq 0..m /\ 0..n # 0..m
    <3>1. n \in Nat /\ m \in Nat
      OBVIOUS
    <3>2. m \in 0..m /\ m \notin 0..n
      BY <1>3, <3>1
    <3> QED BY <1>3, <3>1, <3>2
  <2>2. <<0..n, 0..m>> \in StrictSubsetOrdering(Nat)
    BY <2>1 DEF StrictSubsetOrdering
  <2> QED BY <1>2, <2>2
<1> QED BY <1>3

\* The components of a pair and of a triple of numbers.
LEMMA PairOf ==
    ASSUME NEW T, T \subseteq Nat, NEW t \in T \X T
    PROVE  t[1] \in Nat /\ t[2] \in Nat /\ t = <<t[1], t[2]>>
<1>1. t[1] \in T /\ t[2] \in T /\ t = <<t[1], t[2]>>
  OBVIOUS
<1> QED BY <1>1

\* A triple over a set of naturals and its components.
LEMMA TripleOf ==
    ASSUME NEW T, T \subseteq Nat, NEW t \in T \X T \X T
    PROVE  /\ t[1] \in Nat /\ t[2] \in Nat /\ t[3] \in Nat
           /\ t = <<t[1], t[2], t[3]>>
<1>1. t[1] \in T /\ t[2] \in T /\ t[3] \in T /\ t = <<t[1], t[2], t[3]>>
  OBVIOUS
<1> QED BY <1>1

\* The loops of a finder do find a first candidate if there is one.
LEMMA FirstOne ==
    ASSUME NEW S, NEW T, T \subseteq Nat, S = {<<t>> : t \in T}, T # {}
    PROVE  First(S) \in S
<1>1. PICK m \in T : \A n \in T : m <= n
  BY LeastNat
<1>2. <<m>> \in S
  OBVIOUS
<1>3. ASSUME NEW t \in S \ {<<m>>}
      PROVE  LexLess(<<m>>, t)
  <2>1. PICK n \in T : t = <<n>>
    OBVIOUS
  <2>2. m < n
    BY <1>1, <1>3, <2>1
  <2>3. DOMAIN <<m>> = 1..1 /\ <<m>>[1] = m /\ t[1] = n
    BY <2>1
  <2> QED BY <2>2, <2>3 DEF LexLess
<1> QED BY <1>2, <1>3 DEF First

\* The first of a nonempty set of pairs is in it.
LEMMA FirstPair ==
    ASSUME NEW S, NEW T, T \subseteq Nat, S \subseteq T \X T, S # {}
    PROVE  First(S) \in S
<1> DEFINE X == {s[1] : s \in S}
<1>1. PICK x \in X : \A n \in X : x <= n
  <2>1. X \subseteq Nat /\ X # {}
    OBVIOUS
  <2> HIDE DEF X
  <2> QED BY <2>1, LeastNat
<1> DEFINE Y == {s[2] : s \in {s \in S : s[1] = x}}
<1>2. PICK y \in Y : \A n \in Y : y <= n
  <2>1. Y \subseteq Nat /\ Y # {}
    OBVIOUS
  <2> HIDE DEF Y
  <2> QED BY <2>1, LeastNat
<1>3. <<x, y>> \in S
  OBVIOUS
<1>4. ASSUME NEW t \in S \ {<<x, y>>}
      PROVE  LexLess(<<x, y>>, t)
  <2>1. t[1] \in Nat /\ t[2] \in Nat /\ t = <<t[1], t[2]>>
    <3>1. t \in T \X T
      OBVIOUS
    <3> QED BY <3>1, PairOf
  <2>2. x <= t[1] /\ (t[1] = x => y <= t[2]) /\ x \in Nat /\ y \in Nat
    BY <1>1, <1>2
  <2>3. x < t[1] \/ (t[1] = x /\ y < t[2])
    BY <2>1, <2>2
  <2>4. DOMAIN <<x, y>> = 1..2 /\ <<x, y>>[1] = x /\ <<x, y>>[2] = y
    OBVIOUS
  <2> QED BY <2>3, <2>4 DEF LexLess
<1> QED BY <1>3, <1>4 DEF First

\* The first of a nonempty set of triples is in it.
LEMMA FirstTriple ==
    ASSUME NEW S, NEW T, T \subseteq Nat, S \subseteq T \X T \X T, S # {}
    PROVE  First(S) \in S
<1> DEFINE X == {s[1] : s \in S}
<1>1. PICK x \in X : \A n \in X : x <= n
  <2>1. X \subseteq Nat /\ X # {}
    OBVIOUS
  <2> HIDE DEF X
  <2> QED BY <2>1, LeastNat
<1> DEFINE Y == {s[2] : s \in {s \in S : s[1] = x}}
<1>2. PICK y \in Y : \A n \in Y : y <= n
  <2>1. Y \subseteq Nat /\ Y # {}
    OBVIOUS
  <2> HIDE DEF Y
  <2> QED BY <2>1, LeastNat
<1> DEFINE Z == {s[3] : s \in {s \in S : s[1] = x /\ s[2] = y}}
<1>3. PICK z \in Z : \A n \in Z : z <= n
  <2>1. Z \subseteq Nat /\ Z # {}
    OBVIOUS
  <2> HIDE DEF Z
  <2> QED BY <2>1, LeastNat
<1>4. <<x, y, z>> \in S
  OBVIOUS
<1>5. ASSUME NEW t \in S \ {<<x, y, z>>}
      PROVE  LexLess(<<x, y, z>>, t)
  <2>1. /\ t[1] \in Nat /\ t[2] \in Nat /\ t[3] \in Nat
        /\ t = <<t[1], t[2], t[3]>>
    <3>1. t \in T \X T \X T
      OBVIOUS
    <3> QED BY <3>1, TripleOf
  <2>2. /\ x <= t[1] /\ x \in Nat
        /\ t[1] = x => y <= t[2]
        /\ t[1] = x /\ t[2] = y => z <= t[3]
        /\ y \in Nat /\ z \in Nat
    BY <1>1, <1>2, <1>3
  <2>3. \/ x < t[1]
        \/ t[1] = x /\ y < t[2]
        \/ t[1] = x /\ t[2] = y /\ z < t[3]
    BY <2>1, <2>2
  <2>4. /\ DOMAIN <<x, y, z>> = 1..3
        /\ <<x, y, z>>[1] = x /\ <<x, y, z>>[2] = y /\ <<x, y, z>>[3] = z
    OBVIOUS
  <2> QED BY <2>3, <2>4 DEF LexLess
<1> QED BY <1>4, <1>5 DEF First

---------------------------------------------------------------------------
(* The opposite category.                                                  *)

\* Its tables.
LEMMA OppositeFields ==
    ASSUME NEW C, IsCategory(C)
    PROVE  /\ Opposite(C).objs = C.objs /\ Opposite(C).mors = C.mors
           /\ Opposite(C).dom = C.cod /\ Opposite(C).cod = C.dom
           /\ Opposite(C).id = C.id
           /\ Opposite(C).comp = [p \in Pairs(C.mors, C.cod, C.dom) |-> C.comp[<<p[2], p[1]>>]]
           /\ Form(Opposite(C))
<1> DEFINE compt == [p \in Pairs(C.mors, C.cod, C.dom) |-> C.comp[<<p[2], p[1]>>]]
<1>1. Form(C)
  BY DEF IsCategory
<1>2. Opposite(C) = [C EXCEPT !.dom = C.cod, !.cod = C.dom, !.comp = compt]
  BY DEF Opposite
<1> HIDE DEF compt
<1>3. Opposite(C) = [objs |-> C.objs, mors |-> C.mors, dom |-> C.cod, cod |-> C.dom,
                     id |-> C.id, comp |-> compt]
  BY <1>1, <1>2 DEF Form
<1>4. /\ Opposite(C).objs = C.objs /\ Opposite(C).mors = C.mors
      /\ Opposite(C).dom = C.cod /\ Opposite(C).cod = C.dom
      /\ Opposite(C).id = C.id /\ Opposite(C).comp = compt
  BY <1>3
<1>5. Form(Opposite(C))
  BY <1>1, <1>3, <1>4 DEF Form
<1> QED BY <1>4, <1>5 DEF compt

\* Composition in the opposite category is composition the other way round.
LEMMA OppositeMeet ==
    ASSUME NEW C, IsCategory(C), NEW g, NEW f
    PROVE  /\ Meet(Opposite(C), g, f) <=> Meet(C, f, g)
           /\ Meet(C, f, g) => o(Opposite(C), g, f) = o(C, f, g)
<1>1. Meet(Opposite(C), g, f) <=> Meet(C, f, g)
  BY OppositeFields DEF Meet
<1>2. ASSUME Meet(C, f, g)
      PROVE  o(Opposite(C), g, f) = o(C, f, g)
  <2>1. <<g, f>> \in Pairs(C.mors, C.cod, C.dom)
    BY <1>2 DEF Meet, Pairs
  <2>2. Opposite(C).comp[<<g, f>>] = C.comp[<<f, g>>]
    <3>1. Opposite(C).comp = [p \in Pairs(C.mors, C.cod, C.dom) |-> C.comp[<<p[2], p[1]>>]]
      BY OppositeFields
    <3> QED BY <2>1, <3>1
  <2> QED BY <2>2 DEF o
<1> QED BY <1>1, <1>2

\* Hom-sets of the opposite category are the hom-sets reversed.
LEMMA OppositeHom ==
    ASSUME NEW C, IsCategory(C), NEW x, NEW y
    PROVE  Hom(Opposite(C), x, y) = Hom(C, y, x)
BY OppositeFields DEF Hom

\* The opposite of a category is a category.
LEMMA OppositeCategory ==
    ASSUME NEW C, IsCategory(C)
    PROVE  IsCategory(Opposite(C))
<1> DEFINE D == Opposite(C)
<1>1. /\ D.objs = C.objs /\ D.mors = C.mors /\ D.dom = C.cod /\ D.cod = C.dom
      /\ D.id = C.id /\ Form(D)
      /\ D.comp = [p \in Pairs(C.mors, C.cod, C.dom) |-> C.comp[<<p[2], p[1]>>]]
  BY OppositeFields
<1>2. /\ C.dom \in [C.mors -> C.objs] /\ C.cod \in [C.mors -> C.objs]
      /\ C.id \in [C.objs -> C.mors]
      /\ C.comp \in [Pairs(C.mors, C.dom, C.cod) -> C.mors]
  BY DEF IsCategory
<1> HIDE DEF D
<1>3. \A g, f : Meet(C, f, g) => o(D, g, f) = o(C, f, g)
  BY OppositeMeet DEF D
<1>4. ASSUME NEW p \in Pairs(C.mors, C.cod, C.dom)
      PROVE  C.comp[<<p[2], p[1]>>] \in C.mors
  <2>1. <<p[2], p[1]>> \in Pairs(C.mors, C.dom, C.cod)
    BY DEF Pairs
  <2> QED BY <1>2, <2>1
<1>5. D.comp \in [Pairs(D.mors, D.dom, D.cod) -> D.mors]
  BY <1>1, <1>4
<1>6. \A x \in D.objs : D.id[x] \in D.mors /\ D.dom[D.id[x]] = x /\ D.cod[D.id[x]] = x
  BY <1>1, Units
<1>7. \A f, g \in D.mors :
         D.cod[f] = D.dom[g] =>
            /\ D.comp[<<g, f>>] \in D.mors
            /\ D.dom[D.comp[<<g, f>>]] = D.dom[f]
            /\ D.cod[D.comp[<<g, f>>]] = D.cod[g]
  <2> SUFFICES ASSUME NEW f \in D.mors, NEW g \in D.mors, D.cod[f] = D.dom[g]
               PROVE  /\ o(D, g, f) \in D.mors
                      /\ D.dom[o(D, g, f)] = D.dom[f]
                      /\ D.cod[o(D, g, f)] = D.cod[g]
    BY DEF o
  <2>1. Meet(C, f, g)
    BY <1>1 DEF Meet
  <2> QED BY <1>1, <1>3, <2>1, Composes
<1>8. ASSUME NEW f \in D.mors
      PROVE  D.comp[<<D.id[D.cod[f]], f>>] = f /\ D.comp[<<f, D.id[D.dom[f]]>>] = f
  <2>1. /\ Meet(C, f, C.id[C.dom[f]]) /\ o(C, f, C.id[C.dom[f]]) = f
        /\ Meet(C, C.id[C.cod[f]], f) /\ o(C, C.id[C.cod[f]], f) = f
    BY <1>1, Units DEF Meet
  <2>2. /\ o(D, C.id[C.dom[f]], f) = f /\ o(D, f, C.id[C.cod[f]]) = f
    BY <1>3, <2>1
  <2> QED BY <1>1, <2>2 DEF o
<1>9. ASSUME NEW t \in Triples(D)
      PROVE  D.comp[<<D.comp[<<t[1], t[2]>>], t[3]>>] = D.comp[<<t[1], D.comp[<<t[2], t[3]>>]>>]
  <2> DEFINE h == t[1] g == t[2] f == t[3]
  <2>1. Meet(C, g, h) /\ Meet(C, f, g)
    BY <1>1 DEF Triples, Meet
  <2> HIDE DEF h, g, f
  <2>2. /\ o(C, o(C, f, g), h) = o(C, f, o(C, g, h))
        /\ Meet(C, o(C, f, g), h) /\ Meet(C, f, o(C, g, h))
    BY <2>1, Associates
  <2>3. o(D, h, g) = o(C, g, h) /\ o(D, g, f) = o(C, f, g)
    BY <1>3, <2>1
  <2>4. o(D, o(C, g, h), f) = o(C, f, o(C, g, h)) /\ o(D, h, o(C, f, g)) = o(C, o(C, f, g), h)
    BY <1>3, <2>2
  <2>5. o(D, o(D, h, g), f) = o(D, h, o(D, g, f))
    BY <2>2, <2>3, <2>4
  <2> QED BY <2>5 DEF o, h, g, f
<1>10. Lawful(D)
  BY <1>6, <1>7, <1>8, <1>9 DEF Lawful
<1> QED BY <1>1, <1>2, <1>5, <1>10 DEF IsCategory, D

---------------------------------------------------------------------------
(* What the finders test is universality.                                  *)

\* A cone has a mediator, and just one.
OnlyMediator(C, y, p, pa, pb, xa, xb) ==
    \E u \in Hom(C, y, p) :
        \A m \in Hom(C, y, p) : (o(C, pa, m) = xa /\ o(C, pb, m) = xb) <=> m = u

\* The test of a finder: as many morphisms into the apex as pairs of legs, and
\* some mediator of each pair.
CountsPairs(C, y, p, pa, pb, T) ==
    /\ Cardinality(Hom(C, y, p)) = Cardinality(T)
    /\ \A s \in T : Mediators(C, y, p, pa, pb, s[1], s[2]) # {}

\* Comparing the number of morphisms into the apex with the number of cones,
\* and asking for some mediator of each, is asking for exactly one.
LEMMA PairsCounted ==
    ASSUME NEW C, IsCategory(C), NEW y, NEW p, NEW x, NEW z,
           NEW pa \in Hom(C, p, x), NEW pb \in Hom(C, p, z),
           NEW T \in SUBSET (Hom(C, y, x) \X Hom(C, y, z)),
           \A m \in Hom(C, y, p) : <<o(C, pa, m), o(C, pb, m)>> \in T
    PROVE  CountsPairs(C, y, p, pa, pb, T) <=>
           \A s \in T : OnlyMediator(C, y, p, pa, pb, s[1], s[2])
<1> DEFINE S == Hom(C, y, p)
           f == [m \in S |-> <<o(C, pa, m), o(C, pb, m)>>]
<1>1. IsFiniteSet(S) /\ IsFiniteSet(T)
  <2>1. IsFiniteSet(Hom(C, y, x) \X Hom(C, y, z))
    BY HomFinite, FS_Product
  <2> QED BY <2>1, HomFinite, FS_Subset
<1>2. f \in [S -> T]
  OBVIOUS
<1>3. ASSUME NEW s \in T, NEW m \in S
      PROVE  f[m] = s <=> o(C, pa, m) = s[1] /\ o(C, pb, m) = s[2]
  <2>1. s = <<s[1], s[2]>>
    OBVIOUS
  <2>2. f[m] = <<o(C, pa, m), o(C, pb, m)>>
    OBVIOUS
  <2> HIDE DEF f
  <2> QED BY <2>1, <2>2
<1>4. \A s \in T : Mediators(C, y, p, pa, pb, s[1], s[2]) # {} <=> \E m \in S : f[m] = s
  <2> HIDE DEF f
  <2> QED BY <1>3 DEF Mediators
<1>5. HitsOnce(f, S, T) <=> \A s \in T : OnlyMediator(C, y, p, pa, pb, s[1], s[2])
  <2> HIDE DEF f
  <2> QED BY <1>3 DEF HitsOnce, OnlyMediator
<1> HIDE DEF S, f
<1>6. HitsOnce(f, S, T) <=>
         Cardinality(S) = Cardinality(T) /\ \A t \in T : \E s \in S : f[s] = t
  BY <1>1, <1>2, CountedOnce
<1> QED BY <1>4, <1>5, <1>6 DEF S, CountsPairs

\* The cones over two objects.
LEMMA ConeParts ==
    ASSUME NEW C, NEW a, NEW b, NEW s
    PROVE  s \in ProductCones(C, a, b) <=>
             /\ s = <<s[1], s[2], s[3]>> /\ s[1] \in C.objs
             /\ s[2] \in Hom(C, s[1], a) /\ s[3] \in Hom(C, s[1], b)
<1>1. s \in ProductCones(C, a, b) <=>
        \E y \in C.objs : s \in {y} \X Hom(C, y, a) \X Hom(C, y, b)
  BY DEF ProductCones
<1>2. ASSUME NEW y \in C.objs, s \in {y} \X Hom(C, y, a) \X Hom(C, y, b)
      PROVE  /\ s = <<s[1], s[2], s[3]>> /\ s[1] \in C.objs
             /\ s[2] \in Hom(C, s[1], a) /\ s[3] \in Hom(C, s[1], b)
  <2>1. s[1] = y /\ s[2] \in Hom(C, y, a) /\ s[3] \in Hom(C, y, b) /\ s = <<s[1], s[2], s[3]>>
    BY <1>2
  <2> QED BY <2>1
<1>3. ASSUME s = <<s[1], s[2], s[3]>>, s[1] \in C.objs,
             s[2] \in Hom(C, s[1], a), s[3] \in Hom(C, s[1], b)
      PROVE  \E y \in C.objs : s \in {y} \X Hom(C, y, a) \X Hom(C, y, b)
  <2>1. s \in {s[1]} \X Hom(C, s[1], a) \X Hom(C, s[1], b)
    BY <1>3
  <2> QED BY <1>3, <2>1
<1> QED BY <1>1, <1>2, <1>3

\* Two legs from one apex are a product cone.
LEMMA ConeOf ==
    ASSUME NEW C, NEW a, NEW b, NEW y \in C.objs,
           NEW g \in Hom(C, y, a), NEW h \in Hom(C, y, b)
    PROVE  <<y, g, h>> \in ProductCones(C, a, b)
<1>1. <<y, g, h>>[1] = y /\ <<y, g, h>>[2] = g /\ <<y, g, h>>[3] = h
  OBVIOUS
<1> QED BY <1>1, ConeParts

\* The product check accepts exactly the universal cones.
LEMMA ProductExact ==
    ASSUME NEW C, IsCategory(C), NEW a, NEW b, NEW p,
           NEW pa \in Hom(C, p, a), NEW pb \in Hom(C, p, b)
    PROVE  IsProduct(C, p, a, b, pa, pb) <=> UniversalProduct(C, a, b, p, pa, pb)
<1>1. ASSUME NEW y \in C.objs
      PROVE  ObjCheck(C, y, p, a, b, pa, pb) <=>
               \A g \in Hom(C, y, a), h \in Hom(C, y, b) : OnlyMediator(C, y, p, pa, pb, g, h)
  <2> DEFINE T == Hom(C, y, a) \X Hom(C, y, b)
  <2>1. \A m \in Hom(C, y, p) : <<o(C, pa, m), o(C, pb, m)>> \in T
    BY HomMeets
  <2>2. CountsPairs(C, y, p, pa, pb, T) <=>
        \A s \in T : OnlyMediator(C, y, p, pa, pb, s[1], s[2])
    <3> HIDE DEF T
    <3>1. T \in SUBSET (Hom(C, y, a) \X Hom(C, y, b))
      BY DEF T
    <3> QED BY <2>1, <3>1, PairsCounted
  <2>3. Cardinality(T) = Cardinality(Hom(C, y, a)) * Cardinality(Hom(C, y, b))
    BY HomFinite, FS_Product
  <2>4. ASSUME NEW g \in Hom(C, y, a), NEW h \in Hom(C, y, b)
        PROVE  <<g, h>> \in T /\ <<g, h>>[1] = g /\ <<g, h>>[2] = h
    OBVIOUS
  <2>5. ASSUME NEW s \in T
        PROVE  s[1] \in Hom(C, y, a) /\ s[2] \in Hom(C, y, b)
    OBVIOUS
  <2> HIDE DEF T
  <2>6. (\A s \in T : Mediators(C, y, p, pa, pb, s[1], s[2]) # {}) <=>
        \A g \in Hom(C, y, a), h \in Hom(C, y, b) : Mediators(C, y, p, pa, pb, g, h) # {}
    <3>1. ASSUME \A s \in T : Mediators(C, y, p, pa, pb, s[1], s[2]) # {},
                 NEW g \in Hom(C, y, a), NEW h \in Hom(C, y, b)
          PROVE  Mediators(C, y, p, pa, pb, g, h) # {}
      <4>1. Mediators(C, y, p, pa, pb, <<g, h>>[1], <<g, h>>[2]) # {}
        BY <2>4, <3>1
      <4> QED BY <2>4, <4>1
    <3> QED BY <2>5, <3>1
  <2>7. (\A s \in T : OnlyMediator(C, y, p, pa, pb, s[1], s[2])) <=>
        \A g \in Hom(C, y, a), h \in Hom(C, y, b) : OnlyMediator(C, y, p, pa, pb, g, h)
    <3>1. ASSUME \A s \in T : OnlyMediator(C, y, p, pa, pb, s[1], s[2]),
                 NEW g \in Hom(C, y, a), NEW h \in Hom(C, y, b)
          PROVE  OnlyMediator(C, y, p, pa, pb, g, h)
      <4>1. OnlyMediator(C, y, p, pa, pb, <<g, h>>[1], <<g, h>>[2])
        BY <2>4, <3>1
      <4> QED BY <2>4, <4>1
    <3> QED BY <2>5, <3>1
  <2> QED BY <2>2, <2>3, <2>6, <2>7 DEF ObjCheck, CountsPairs
<1>2. UniversalProduct(C, a, b, p, pa, pb) <=>
        \A y \in C.objs : \A g \in Hom(C, y, a), h \in Hom(C, y, b) :
           OnlyMediator(C, y, p, pa, pb, g, h)
  <2>1. UniversalProduct(C, a, b, p, pa, pb) <=>
          \A s \in ProductCones(C, a, b) : OnlyMediator(C, s[1], p, pa, pb, s[2], s[3])
    BY DEF UniversalProduct, OnlyMediator
  <2>2. ASSUME NEW y \in C.objs, NEW g \in Hom(C, y, a), NEW h \in Hom(C, y, b),
               \A s \in ProductCones(C, a, b) : OnlyMediator(C, s[1], p, pa, pb, s[2], s[3])
        PROVE  OnlyMediator(C, y, p, pa, pb, g, h)
    <3>1. <<y, g, h>> \in ProductCones(C, a, b)
      BY ConeOf
    <3>2. OnlyMediator(C, <<y, g, h>>[1], p, pa, pb, <<y, g, h>>[2], <<y, g, h>>[3])
      BY <2>2, <3>1
    <3>3. <<y, g, h>>[1] = y /\ <<y, g, h>>[2] = g /\ <<y, g, h>>[3] = h
      OBVIOUS
    <3> QED BY <3>2, <3>3
  <2>3. ASSUME NEW s \in ProductCones(C, a, b)
        PROVE  s[1] \in C.objs /\ s[2] \in Hom(C, s[1], a) /\ s[3] \in Hom(C, s[1], b)
    BY ConeParts
  <2> QED BY <2>1, <2>2, <2>3
<1> QED BY <1>1, <1>2 DEF IsProduct

\* The pullback check accepts exactly the universal squares.
LEMMA PullbackExact ==
    ASSUME NEW C, IsCategory(C), NEW f \in C.mors, NEW g \in C.mors, C.cod[f] = C.cod[g],
           NEW p, NEW px \in Hom(C, p, C.dom[f]), NEW py \in Hom(C, p, C.dom[g])
    PROVE  IsPullback(C, p, f, g, px, py) <=> UniversalPullback(C, f, g, p, px, py)
<1>1. ASSUME NEW w \in C.objs, o(C, f, px) = o(C, g, py)
      PROVE  PbObjCheck(C, w, C.dom[f], C.dom[g], p, f, g, px, py) <=>
               \A s \in CommutingPairs(C, w, C.dom[f], C.dom[g], f, g) :
                  OnlyMediator(C, w, p, px, py, s[1], s[2])
  <2> DEFINE T == CommutingPairs(C, w, C.dom[f], C.dom[g], f, g)
  <2>1. ASSUME NEW m \in Hom(C, w, p)
        PROVE  <<o(C, px, m), o(C, py, m)>> \in T
    <3>1. o(C, px, m) \in Hom(C, w, C.dom[f]) /\ o(C, py, m) \in Hom(C, w, C.dom[g])
      BY HomMeets
    <3>2. /\ Meet(C, f, px) /\ Meet(C, px, m) /\ Meet(C, g, py) /\ Meet(C, py, m)
      BY HomMeets DEF Meet, Hom
    <3>3. o(C, o(C, f, px), m) = o(C, f, o(C, px, m))
      BY <3>2, Associates
    <3>4. o(C, o(C, g, py), m) = o(C, g, o(C, py, m))
      BY <3>2, Associates
    <3>5. o(C, f, o(C, px, m)) = o(C, g, o(C, py, m))
      BY <1>1, <3>3, <3>4
    <3> QED BY <3>1, <3>5 DEF CommutingPairs, PullbackCommutes
  <2>2. T \in SUBSET (Hom(C, w, C.dom[f]) \X Hom(C, w, C.dom[g]))
    BY DEF CommutingPairs
  <2> HIDE DEF T
  <2>3. CountsPairs(C, w, p, px, py, T) <=>
        \A s \in T : OnlyMediator(C, w, p, px, py, s[1], s[2])
    <3> DEFINE x == C.dom[f] z == C.dom[g]
    <3>1. /\ T \in SUBSET (Hom(C, w, x) \X Hom(C, w, z))
          /\ px \in Hom(C, p, x) /\ py \in Hom(C, p, z)
          /\ \A m \in Hom(C, w, p) : <<o(C, px, m), o(C, py, m)>> \in T
      BY <2>1, <2>2
    <3> HIDE DEF x, z
    <3> QED BY <3>1, PairsCounted
  <2> QED BY <2>3 DEF PbObjCheck, CountsPairs, T
<1>2. UniversalPullback(C, f, g, p, px, py) <=>
        /\ o(C, f, px) = o(C, g, py)
        /\ \A w \in C.objs : \A s \in CommutingPairs(C, w, C.dom[f], C.dom[g], f, g) :
              OnlyMediator(C, w, p, px, py, s[1], s[2])
  <2>1. UniversalPullback(C, f, g, p, px, py) <=>
          /\ o(C, f, px) = o(C, g, py)
          /\ \A s \in PullbackCones(C, f, g) : OnlyMediator(C, s[1], p, px, py, s[2], s[3])
    BY DEF UniversalPullback, OnlyMediator
  <2>2. ASSUME NEW s \in PullbackCones(C, f, g)
        PROVE  /\ s[1] \in C.objs
               /\ <<s[2], s[3]>> \in CommutingPairs(C, s[1], C.dom[f], C.dom[g], f, g)
               /\ <<s[2], s[3]>>[1] = s[2] /\ <<s[2], s[3]>>[2] = s[3]
    BY ConeParts DEF PullbackCones, CommutingPairs, PullbackCommutes
  <2>3. ASSUME NEW w \in C.objs, NEW t \in CommutingPairs(C, w, C.dom[f], C.dom[g], f, g),
               \A s \in PullbackCones(C, f, g) : OnlyMediator(C, s[1], p, px, py, s[2], s[3])
        PROVE  OnlyMediator(C, w, p, px, py, t[1], t[2])
    <3>1. t[1] \in Hom(C, w, C.dom[f]) /\ t[2] \in Hom(C, w, C.dom[g])
      BY DEF CommutingPairs
    <3>2. <<w, t[1], t[2]>> \in ProductCones(C, C.dom[f], C.dom[g])
      BY <3>1, ConeOf
    <3>3. /\ <<w, t[1], t[2]>>[1] = w /\ <<w, t[1], t[2]>>[2] = t[1]
          /\ <<w, t[1], t[2]>>[3] = t[2]
      OBVIOUS
    <3>4. <<w, t[1], t[2]>> \in PullbackCones(C, f, g)
      BY <3>2, <3>3 DEF PullbackCones, CommutingPairs, PullbackCommutes
    <3>5. OnlyMediator(C, <<w, t[1], t[2]>>[1], p, px, py,
                       <<w, t[1], t[2]>>[2], <<w, t[1], t[2]>>[3])
      BY <2>3, <3>4
    <3> QED BY <3>3, <3>5
  <2>4. ASSUME NEW s \in PullbackCones(C, f, g),
               \A w \in C.objs : \A t \in CommutingPairs(C, w, C.dom[f], C.dom[g], f, g) :
                  OnlyMediator(C, w, p, px, py, t[1], t[2])
        PROVE  OnlyMediator(C, s[1], p, px, py, s[2], s[3])
    <3>1. OnlyMediator(C, s[1], p, px, py, <<s[2], s[3]>>[1], <<s[2], s[3]>>[2])
      BY <2>2, <2>4
    <3> QED BY <2>2, <3>1
  <2> QED BY <2>1, <2>3, <2>4
<1> QED BY <1>1, <1>2 DEF IsPullback, PullbackCommutes

\* The equalizer check accepts exactly the universal forks.
LEMMA EqualizerExact ==
    ASSUME NEW C, IsCategory(C), NEW f \in C.mors, NEW g \in C.mors,
           C.dom[f] = C.dom[g], C.cod[f] = C.cod[g],
           NEW p, NEW e \in Hom(C, p, C.dom[f])
    PROVE  IsEqualizer(C, p, f, g, e) <=> UniversalEqualizer(C, f, g, p, e)
<1>1. ASSUME NEW w \in C.objs, o(C, f, e) = o(C, g, e)
      PROVE  EqzObjOk(C, w, C.dom[f], p, e, f, g) <=>
               \A t \in Equalizing(C, w, C.dom[f], f, g) :
                  \E u \in Hom(C, w, p) : \A m \in Hom(C, w, p) : o(C, e, m) = t <=> m = u
  <2> DEFINE S == Hom(C, w, p)
             T == Equalizing(C, w, C.dom[f], f, g)
             h == [m \in S |-> o(C, e, m)]
  <2>1. ASSUME NEW m \in S
        PROVE  o(C, e, m) \in T
    <3>1. o(C, e, m) \in Hom(C, w, C.dom[f])
      BY HomMeets
    <3>2. /\ Meet(C, f, e) /\ Meet(C, g, e) /\ Meet(C, e, m)
      BY HomMeets DEF Meet, Hom
    <3>3. o(C, o(C, f, e), m) = o(C, f, o(C, e, m))
      BY <3>2, Associates
    <3>4. o(C, o(C, g, e), m) = o(C, g, o(C, e, m))
      BY <3>2, Associates
    <3> QED BY <1>1, <3>1, <3>3, <3>4 DEF Equalizing, Equalizes
  <2>2. IsFiniteSet(S) /\ IsFiniteSet(T)
    <3>1. T \in SUBSET Hom(C, w, C.dom[f])
      BY DEF Equalizing
    <3> QED BY <3>1, HomFinite, FS_Subset
  <2>3. h \in [S -> T]
    BY <2>1
  <2>4. \A m \in S : h[m] = o(C, e, m)
    OBVIOUS
  <2> HIDE DEF S, T, h
  <2>5. HitsOnce(h, S, T) <=>
          Cardinality(S) = Cardinality(T) /\ \A t \in T : \E s \in S : h[s] = t
    BY <2>2, <2>3, CountedOnce
  <2>6. \A t \in T : EqzMediators(C, w, p, e, t) # {} <=> \E s \in S : h[s] = t
    BY <2>4 DEF EqzMediators, S
  <2>7. HitsOnce(h, S, T) <=> \A t \in T : \E u \in S : \A m \in S : o(C, e, m) = t <=> m = u
    BY <2>4 DEF HitsOnce
  <2> QED BY <2>5, <2>6, <2>7 DEF EqzObjOk, S, T
<1> QED BY <1>1 DEF IsEqualizer, UniversalEqualizer, Equalizes, Equalizing

---------------------------------------------------------------------------
(* The finders.                                                            *)

\* The universal cones of a diagram, <<apex, the legs a finder chooses>>.
Products(C, a, b) ==
    {s \in ProductCones(C, a, b) : UniversalProduct(C, a, b, s[1], s[2], s[3])}

\* The universal pullback cones of f and g.
Pullbacks(C, f, g) ==
    {s \in PullbackCones(C, f, g) : UniversalPullback(C, f, g, s[1], s[2], s[3])}

\* An apex with an arrow to x.
Forks(C, x) == UNION {{p} \X Hom(C, p, x) : p \in C.objs}

\* The universal equalizers of f and g.
Equalizers(C, f, g) ==
    {s \in Forks(C, C.dom[f]) : UniversalEqualizer(C, f, g, s[1], s[2])}

\* The terminal objects, as one-element choices.
Terminals(C) == {<<t>> : t \in {t \in C.objs : \A x \in C.objs : UniqueMor(C, x, t)}}

\* A set of choices and the first of them, if it has one.
Chosen(S) == S # {} => First(S) \in S

\* The parts of a fork.
LEMMA ForkParts ==
    ASSUME NEW C, NEW x, NEW s
    PROVE  s \in Forks(C, x) <=>
             s = <<s[1], s[2]>> /\ s[1] \in C.objs /\ s[2] \in Hom(C, s[1], x)
<1>1. s \in Forks(C, x) <=> \E y \in C.objs : s \in {y} \X Hom(C, y, x)
  BY DEF Forks
<1>2. ASSUME NEW y \in C.objs, s \in {y} \X Hom(C, y, x)
      PROVE  s = <<s[1], s[2]>> /\ s[1] \in C.objs /\ s[2] \in Hom(C, s[1], x)
  <2>1. s[1] = y /\ s[2] \in Hom(C, y, x) /\ s = <<s[1], s[2]>>
    BY <1>2
  <2> QED BY <2>1
<1>3. ASSUME s = <<s[1], s[2]>>, s[1] \in C.objs, s[2] \in Hom(C, s[1], x)
      PROVE  \E y \in C.objs : s \in {y} \X Hom(C, y, x)
  <2>1. s \in {s[1]} \X Hom(C, s[1], x)
    BY <1>3
  <2> QED BY <1>3, <2>1
<1> QED BY <1>1, <1>2, <1>3

\* The loops reach the first candidate that passes.
LEMMA ChosenCones ==
    ASSUME NEW C, IsCategory(C), Numbered(C), NEW a, NEW b,
           NEW S \in SUBSET ProductCones(C, a, b)
    PROVE  Chosen(S)
<1>1. S \subseteq Nat \X Nat \X Nat
  <2>1. ASSUME NEW s \in S
        PROVE  s \in Nat \X Nat \X Nat
    <3>1. s = <<s[1], s[2], s[3]>> /\ s[1] \in Nat /\ s[2] \in Nat /\ s[3] \in Nat
      <4>1. s \in ProductCones(C, a, b)
        OBVIOUS
      <4>2. /\ s = <<s[1], s[2], s[3]>> /\ s[1] \in C.objs
            /\ s[2] \in Hom(C, s[1], a) /\ s[3] \in Hom(C, s[1], b)
        BY <4>1, ConeParts
      <4> QED BY <4>2 DEF Hom, Numbered
    <3> QED BY <3>1
  <2> QED BY <2>1
<1>2. S # {} => First(S) \in S
  BY <1>1, FirstTriple
<1> QED BY <1>2 DEF Chosen

\* Every set of forks has a first element to choose.
LEMMA ChosenForks ==
    ASSUME NEW C, IsCategory(C), Numbered(C), NEW x, NEW S \in SUBSET Forks(C, x)
    PROVE  Chosen(S)
<1>1. S \subseteq Nat \X Nat
  <2>1. ASSUME NEW s \in S
        PROVE  s \in Nat \X Nat
    <3>1. s = <<s[1], s[2]>> /\ s[1] \in Nat /\ s[2] \in Nat
      <4>1. s \in Forks(C, x)
        OBVIOUS
      <4>2. s = <<s[1], s[2]>> /\ s[1] \in C.objs /\ s[2] \in Hom(C, s[1], x)
        BY <4>1, ForkParts
      <4> QED BY <4>2 DEF Hom, Numbered
    <3> QED BY <3>1
  <2> QED BY <2>1
<1>2. S # {} => First(S) \in S
  BY <1>1, FirstPair
<1> QED BY <1>2 DEF Chosen

\* The terminal objects have a first one to choose.
LEMMA ChosenTerminals ==
    ASSUME NEW C, Numbered(C)
    PROVE  Chosen(Terminals(C))
<1> DEFINE T == {t \in C.objs : \A x \in C.objs : UniqueMor(C, x, t)}
<1>1. T \subseteq Nat /\ Terminals(C) = {<<t>> : t \in T}
  BY DEF Numbered, Terminals
<1> HIDE DEF T
<1>2. Terminals(C) # {} => T # {}
  BY <1>1
<1> QED BY <1>1, <1>2, FirstOne DEF Chosen

\* What a finder returns: a universal cone, or not found and there is none.
LEMMA FindTerminalExact ==
    ASSUME NEW C, Numbered(C)
    PROVE  /\ FindTerminal(C) = IF Terminals(C) = {} THEN NotFound
                                ELSE [st |-> "ok", apex |-> First(Terminals(C))[1], legs |-> << >>]
           /\ Chosen(Terminals(C))
BY ChosenTerminals DEF FindTerminal, Terminals

\* find_product returns the first universal product, or that there is none.
LEMMA FindProductExact ==
    ASSUME NEW C, IsCategory(C), Numbered(C), NEW a, NEW b
    PROVE  /\ FindProduct(C, a, b) =
                IF Products(C, a, b) = {} THEN NotFound
                ELSE LET s == First(Products(C, a, b))
                     IN [st |-> "ok", apex |-> s[1], legs |-> <<s[2], s[3]>>]
           /\ Chosen(Products(C, a, b))
<1>1. \A s \in ProductCones(C, a, b) :
         IsProduct(C, s[1], a, b, s[2], s[3]) <=> UniversalProduct(C, a, b, s[1], s[2], s[3])
  BY ConeParts, ProductExact
<1>2. {s \in ProductCones(C, a, b) : IsProduct(C, s[1], a, b, s[2], s[3])} = Products(C, a, b)
  BY <1>1 DEF Products
<1>3. Products(C, a, b) \in SUBSET ProductCones(C, a, b)
  BY DEF Products
<1>4. Chosen(Products(C, a, b))
  BY <1>3, ChosenCones
<1> QED BY <1>2, <1>4 DEF FindProduct, ProductCones

\* find_pullback returns the first universal pullback, or that there is none.
LEMMA FindPullbackExact ==
    ASSUME NEW C, IsCategory(C), Numbered(C),
           NEW f \in C.mors, NEW g \in C.mors, C.cod[f] = C.cod[g]
    PROVE  /\ FindPullback(C, f, g) =
                IF Pullbacks(C, f, g) = {} THEN NotFound
                ELSE LET s == First(Pullbacks(C, f, g))
                     IN [st |-> "ok", apex |-> s[1], legs |-> <<s[2], s[3], o(C, f, s[2])>>]
           /\ Chosen(Pullbacks(C, f, g))
<1> DEFINE K == ProductCones(C, C.dom[f], C.dom[g])
<1>1. \A s \in K :
         IsPullback(C, s[1], f, g, s[2], s[3]) <=> UniversalPullback(C, f, g, s[1], s[2], s[3])
  BY ConeParts, PullbackExact
<1>2. {s \in K : IsPullback(C, s[1], f, g, s[2], s[3])} = Pullbacks(C, f, g)
  BY <1>1 DEF Pullbacks, PullbackCones, UniversalPullback
<1>3. Pullbacks(C, f, g) \in SUBSET K
  BY DEF Pullbacks, PullbackCones
<1>4. Chosen(Pullbacks(C, f, g))
  BY <1>3, ChosenCones
<1> QED BY <1>2, <1>4 DEF FindPullback, ProductCones

\* find_equalizer returns the first universal equalizer, or that there is none.
LEMMA FindEqualizerExact ==
    ASSUME NEW C, IsCategory(C), Numbered(C), NEW f \in C.mors, NEW g \in C.mors,
           C.dom[f] = C.dom[g], C.cod[f] = C.cod[g]
    PROVE  /\ FindEqualizer(C, f, g) =
                IF Equalizers(C, f, g) = {} THEN NotFound
                ELSE LET s == First(Equalizers(C, f, g))
                     IN [st |-> "ok", apex |-> s[1], legs |-> <<s[2], o(C, f, s[2])>>]
           /\ Chosen(Equalizers(C, f, g))
<1>1. \A s \in Forks(C, C.dom[f]) :
         IsEqualizer(C, s[1], f, g, s[2]) <=> UniversalEqualizer(C, f, g, s[1], s[2])
  BY ForkParts, EqualizerExact
<1>2. {s \in Forks(C, C.dom[f]) : IsEqualizer(C, s[1], f, g, s[2])} = Equalizers(C, f, g)
  BY <1>1 DEF Equalizers
<1>3. Equalizers(C, f, g) \in SUBSET Forks(C, C.dom[f])
  BY DEF Equalizers
<1>4. Chosen(Equalizers(C, f, g))
  BY <1>3, ChosenForks
<1> QED BY <1>2, <1>4 DEF FindEqualizer, Forks

---------------------------------------------------------------------------
(* The colimit finders are the limit finders on the opposite category.     *)

\* Mediators out of a coproduct are mediators into a product of the opposite.
LEMMA DualMediators ==
    ASSUME NEW C, IsCategory(C), NEW a, NEW b, NEW p, NEW y, NEW xa, NEW xb,
           NEW ia \in Hom(C, a, p), NEW ib \in Hom(C, b, p)
    PROVE  ColMediators(C, p, y, ia, ib, xa, xb) =
           Mediators(Opposite(C), y, p, ia, ib, xa, xb)
<1>1. ASSUME NEW u \in Hom(C, p, y)
      PROVE  o(Opposite(C), ia, u) = o(C, u, ia) /\ o(Opposite(C), ib, u) = o(C, u, ib)
  <2>1. Meet(C, u, ia) /\ Meet(C, u, ib)
    BY HomMeets
  <2> QED BY <2>1, OppositeMeet
<1>2. Hom(Opposite(C), y, p) = Hom(C, p, y)
  BY OppositeHom
<1> QED BY <1>1, <1>2 DEF ColMediators, Mediators

\* Coforks are forks of the opposite.
LEMMA DualForks ==
    ASSUME NEW C, IsCategory(C), NEW x
    PROVE  UNION {{p} \X Hom(C, x, p) : p \in C.objs} = Forks(Opposite(C), x)
<1>1. \A p : Hom(Opposite(C), p, x) = Hom(C, x, p)
  BY OppositeHom
<1> QED BY <1>1, OppositeFields DEF Forks

\* Coproduct cocones are product cones of the opposite.
LEMMA DualCones ==
    ASSUME NEW C, IsCategory(C), NEW a, NEW b
    PROVE  UNION {{p} \X Hom(C, a, p) \X Hom(C, b, p) : p \in C.objs} =
           ProductCones(Opposite(C), a, b)
<1>1. \A p : Hom(Opposite(C), p, a) = Hom(C, a, p) /\ Hom(Opposite(C), p, b) = Hom(C, b, p)
  BY OppositeHom
<1> QED BY <1>1, OppositeFields DEF ProductCones

\* The opposite keeps the numbering.
LEMMA OppositeNumbered ==
    ASSUME NEW C, IsCategory(C), Numbered(C)
    PROVE  Numbered(Opposite(C))
BY OppositeFields DEF Numbered

\* find_initial returns the first initial object, or that there is none.
LEMMA FindInitialExact ==
    ASSUME NEW C, IsCategory(C), Numbered(C)
    PROVE  /\ FindInitial(C) = IF Terminals(Opposite(C)) = {} THEN NotFound
                               ELSE [st |-> "ok", apex |-> First(Terminals(Opposite(C)))[1],
                                     legs |-> << >>]
           /\ Chosen(Terminals(Opposite(C)))
<1>1. \A x, y : UniqueMor(C, x, y) <=> UniqueMor(Opposite(C), y, x)
  BY OppositeHom DEF UniqueMor
<1>2. {t \in C.objs : \A x \in C.objs : UniqueMor(C, t, x)} =
      {t \in Opposite(C).objs : \A x \in Opposite(C).objs : UniqueMor(Opposite(C), x, t)}
  BY <1>1, OppositeFields
<1>3. Chosen(Terminals(Opposite(C)))
  BY ChosenTerminals, OppositeNumbered
<1> QED BY <1>2, <1>3 DEF FindInitial, Terminals

\* find_coproduct returns the first universal coproduct, or that there is none.
LEMMA FindCoproductExact ==
    ASSUME NEW C, IsCategory(C), Numbered(C), NEW a, NEW b
    PROVE  /\ FindCoproduct(C, a, b) =
                IF Products(Opposite(C), a, b) = {} THEN NotFound
                ELSE LET s == First(Products(Opposite(C), a, b))
                     IN [st |-> "ok", apex |-> s[1], legs |-> <<s[2], s[3]>>]
           /\ Chosen(Products(Opposite(C), a, b))
<1> DEFINE D == Opposite(C)
           K == UNION {{p} \X Hom(C, a, p) \X Hom(C, b, p) : p \in C.objs}
<1>1. IsCategory(D) /\ Numbered(D) /\ D.objs = C.objs
  BY OppositeCategory, OppositeNumbered, OppositeFields
<1>2. K = ProductCones(D, a, b)
  BY DualCones
<1>3. ASSUME NEW p, NEW ia \in Hom(C, a, p), NEW ib \in Hom(C, b, p)
      PROVE  IsCoproduct(C, p, a, b, ia, ib) <=> UniversalProduct(D, a, b, p, ia, ib)
  <2>1. \A x, y : Hom(D, x, y) = Hom(C, y, x)
    BY OppositeHom
  <2>2. \A y, xa, xb : ColMediators(C, p, y, ia, ib, xa, xb) = Mediators(D, y, p, ia, ib, xa, xb)
    BY DualMediators
  <2> HIDE DEF D
  <2>3. \A y : ObjCheckCol(C, y, p, a, b, ia, ib) <=> ObjCheck(D, y, p, a, b, ia, ib)
    BY <2>1, <2>2 DEF ObjCheckCol, ObjCheck
  <2>4. IsCoproduct(C, p, a, b, ia, ib) <=> IsProduct(D, p, a, b, ia, ib)
    BY <1>1, <2>3 DEF IsCoproduct, IsProduct
  <2> QED BY <1>1, <2>1, <2>4, ProductExact
<1>4. \A s \in K : s[2] \in Hom(C, a, s[1]) /\ s[3] \in Hom(C, b, s[1])
  BY <1>2, ConeParts, OppositeHom
<1>5. {s \in K : IsCoproduct(C, s[1], a, b, s[2], s[3])} = Products(D, a, b)
  <2> HIDE DEF D, K
  <2> QED BY <1>2, <1>3, <1>4 DEF Products
<1>6. Products(D, a, b) \in SUBSET ProductCones(D, a, b)
  BY DEF Products
<1>7. Chosen(Products(D, a, b))
  <2> HIDE DEF D, K
  <2> QED BY <1>1, <1>6, ChosenCones
<1> QED BY <1>5, <1>7 DEF FindCoproduct

\* find_pushout returns the first universal pushout, or that there is none.
LEMMA FindPushoutExact ==
    ASSUME NEW C, IsCategory(C), Numbered(C),
           NEW f \in C.mors, NEW g \in C.mors, C.dom[f] = C.dom[g]
    PROVE  /\ FindPushout(C, f, g) =
                IF Pullbacks(Opposite(C), f, g) = {} THEN NotFound
                ELSE LET s == First(Pullbacks(Opposite(C), f, g))
                     IN [st |-> "ok", apex |-> s[1], legs |-> <<o(C, s[2], f), s[2], s[3]>>]
           /\ Chosen(Pullbacks(Opposite(C), f, g))
<1> DEFINE D == Opposite(C)
           K == UNION {{p} \X Hom(C, C.cod[f], p) \X Hom(C, C.cod[g], p) : p \in C.objs}
<1>1. /\ IsCategory(D) /\ Numbered(D) /\ D.objs = C.objs /\ D.mors = C.mors
      /\ D.dom = C.cod /\ D.cod = C.dom
  BY OppositeCategory, OppositeNumbered, OppositeFields
<1>2. K = ProductCones(D, C.cod[f], C.cod[g])
  BY DualCones
<1>h. \A x, y : Hom(D, x, y) = Hom(C, y, x)
  BY OppositeHom
<1>m. \A u, v : Meet(C, v, u) => o(D, u, v) = o(C, v, u)
  BY OppositeMeet
<1>3. ASSUME NEW p, NEW iy \in Hom(C, C.cod[f], p), NEW iz \in Hom(C, C.cod[g], p)
      PROVE  IsPushout(C, p, f, g, iy, iz) <=> UniversalPullback(D, f, g, p, iy, iz)
  <2>2. \A w, xa, xb : ColMediators(C, p, w, iy, iz, xa, xb) = Mediators(D, w, p, iy, iz, xa, xb)
    BY DualMediators
  <2> HIDE DEF D
  <2>3. ASSUME NEW w, NEW u \in Hom(C, C.cod[f], w), NEW v \in Hom(C, C.cod[g], w)
        PROVE  PushoutCommutes(C, f, g, u, v) <=> PullbackCommutes(D, f, g, u, v)
    <3>1. Meet(C, u, f) /\ Meet(C, v, g)
      BY DEF Meet, Hom
    <3> QED BY <1>m, <3>1 DEF PushoutCommutes, PullbackCommutes
  <2>4. \A w : CommutingCopairs(C, w, C.cod[f], C.cod[g], f, g) =
               CommutingPairs(D, w, C.cod[f], C.cod[g], f, g)
    <3> SUFFICES ASSUME NEW w, NEW s \in Hom(C, C.cod[f], w) \X Hom(C, C.cod[g], w)
                 PROVE  PushoutCommutes(C, f, g, s[1], s[2]) <=>
                        PullbackCommutes(D, f, g, s[1], s[2])
      BY <1>h DEF CommutingCopairs, CommutingPairs
    <3>1. s[1] \in Hom(C, C.cod[f], w) /\ s[2] \in Hom(C, C.cod[g], w)
      OBVIOUS
    <3> QED BY <2>3, <3>1
  <2>5. \A w : PoObjCheck(C, w, C.cod[f], C.cod[g], p, f, g, iy, iz) <=>
               PbObjCheck(D, w, C.cod[f], C.cod[g], p, f, g, iy, iz)
    BY <1>h, <2>2, <2>4 DEF PoObjCheck, PbObjCheck
  <2>6. IsPushout(C, p, f, g, iy, iz) <=> IsPullback(D, p, f, g, iy, iz)
    BY <1>1, <2>3, <2>5 DEF IsPushout, IsPullback
  <2> QED BY <1>1, <1>h, <2>6, PullbackExact
<1>4. \A s \in K : s[2] \in Hom(C, C.cod[f], s[1]) /\ s[3] \in Hom(C, C.cod[g], s[1])
  BY <1>2, ConeParts, OppositeHom
<1>5. {s \in K : IsPushout(C, s[1], f, g, s[2], s[3])} = Pullbacks(D, f, g)
  <2> HIDE DEF D, K
  <2>1. \A s \in K : UniversalPullback(D, f, g, s[1], s[2], s[3]) => o(D, f, s[2]) = o(D, g, s[3])
    BY DEF UniversalPullback
  <2> QED BY <1>1, <1>2, <1>3, <1>4, <2>1 DEF Pullbacks, PullbackCones
<1>6. Pullbacks(D, f, g) \in SUBSET ProductCones(D, D.dom[f], D.dom[g])
  BY DEF Pullbacks, PullbackCones
<1>7. Chosen(Pullbacks(D, f, g))
  <2> HIDE DEF D, K
  <2> QED BY <1>1, <1>6, ChosenCones
<1> QED BY <1>5, <1>7 DEF FindPushout

\* find_coequalizer returns the first universal coequalizer, or that there is none.
LEMMA FindCoequalizerExact ==
    ASSUME NEW C, IsCategory(C), Numbered(C), NEW f \in C.mors, NEW g \in C.mors,
           C.dom[f] = C.dom[g], C.cod[f] = C.cod[g]
    PROVE  /\ FindCoequalizer(C, f, g) =
                IF Equalizers(Opposite(C), f, g) = {} THEN NotFound
                ELSE LET s == First(Equalizers(Opposite(C), f, g))
                     IN [st |-> "ok", apex |-> s[1], legs |-> <<o(C, s[2], f), s[2]>>]
           /\ Chosen(Equalizers(Opposite(C), f, g))
<1> DEFINE D == Opposite(C)
           K == UNION {{p} \X Hom(C, C.cod[f], p) : p \in C.objs}
<1>1. /\ IsCategory(D) /\ Numbered(D) /\ D.objs = C.objs /\ D.mors = C.mors
      /\ D.dom = C.cod /\ D.cod = C.dom
  BY OppositeCategory, OppositeNumbered, OppositeFields
<1>2. K = Forks(D, C.cod[f])
  BY DualForks
<1>h. \A x, y : Hom(D, x, y) = Hom(C, y, x)
  BY OppositeHom
<1>m. \A u, v : Meet(C, v, u) => o(D, u, v) = o(C, v, u)
  BY OppositeMeet
<1>3. ASSUME NEW q, NEW c \in Hom(C, C.cod[f], q)
      PROVE  IsCoequalizer(C, q, f, g, c) <=> UniversalEqualizer(D, f, g, q, c)
  <2> HIDE DEF D
  <2>1. ASSUME NEW w, NEW u \in Hom(C, C.cod[f], w)
        PROVE  Coequalizes(C, f, g, u) <=> Equalizes(D, f, g, u)
    <3>1. Meet(C, u, f) /\ Meet(C, u, g)
      BY DEF Meet, Hom
    <3> QED BY <1>m, <3>1 DEF Coequalizes, Equalizes
  <2>2. \A w : Coequalizing(C, C.cod[f], w, f, g) = Equalizing(D, w, C.cod[f], f, g)
    BY <1>h, <2>1 DEF Coequalizing, Equalizing
  <2>3. \A w, t : CoeqMediators(C, q, w, c, t) = EqzMediators(D, w, q, c, t)
    <3>1. ASSUME NEW w, NEW u \in Hom(C, q, w)
          PROVE  o(D, c, u) = o(C, u, c)
      BY <1>m, HomMeets
    <3> QED BY <1>h, <3>1 DEF CoeqMediators, EqzMediators
  <2>4. \A w : CoeqObjOk(C, w, C.cod[f], q, c, f, g) <=> EqzObjOk(D, w, C.cod[f], q, c, f, g)
    BY <1>h, <2>2, <2>3 DEF CoeqObjOk, EqzObjOk
  <2>5. IsCoequalizer(C, q, f, g, c) <=> IsEqualizer(D, q, f, g, c)
    BY <1>1, <2>1, <2>4 DEF IsCoequalizer, IsEqualizer
  <2> QED BY <1>1, <1>h, <2>5, EqualizerExact
<1>4. \A s \in K : s[2] \in Hom(C, C.cod[f], s[1])
  BY <1>2, ForkParts, OppositeHom
<1>5. {s \in K : IsCoequalizer(C, s[1], f, g, s[2])} = Equalizers(D, f, g)
  <2> HIDE DEF D, K
  <2> QED BY <1>1, <1>2, <1>3, <1>4 DEF Equalizers
<1>6. Equalizers(D, f, g) \in SUBSET Forks(D, D.dom[f])
  BY DEF Equalizers
<1>7. Chosen(Equalizers(D, f, g))
  <2> HIDE DEF D, K
  <2> QED BY <1>1, <1>6, ChosenForks
<1> QED BY <1>5, <1>7 DEF FindCoequalizer

---------------------------------------------------------------------------
(* Derived categories.                                                     *)

\* The morphisms of a derived category are tuples <<domain, codomain, ...>>.
Tables(D, objs, mors, idt, compt) ==
    /\ D = [objs |-> objs, mors |-> mors, dom |-> [m \in mors |-> m[1]],
            cod |-> [m \in mors |-> m[2]], id |-> idt, comp |-> compt]
    /\ \A x \in objs : idt[x] \in mors /\ idt[x][1] = x /\ idt[x][2] = x
    /\ \A g, f \in mors :
         f[2] = g[1] => /\ compt[<<g, f>>] \in mors
                        /\ compt[<<g, f>>][1] = f[1] /\ compt[<<g, f>>][2] = g[2]
    /\ \A f \in mors : compt[<<idt[f[2]], f>>] = f /\ compt[<<f, idt[f[1]]>>] = f
    /\ \A h, g, f \in mors :
         f[2] = g[1] /\ g[2] = h[1] =>
            compt[<<compt[<<h, g>>], f>>] = compt[<<h, compt[<<g, f>>]>>]

\* Derived tables that satisfy the laws make a lawful category.
LEMMA TablesLawful ==
    ASSUME NEW D, NEW objs, NEW mors, NEW idt, NEW compt, Tables(D, objs, mors, idt, compt)
    PROVE  Lawful(D)
<1> DEFINE d == [m \in mors |-> m[1]] c == [m \in mors |-> m[2]]
<1>1. D = [objs |-> objs, mors |-> mors, dom |-> d, cod |-> c, id |-> idt, comp |-> compt]
  BY DEF Tables
<1>2. \A m \in mors : d[m] = m[1] /\ c[m] = m[2]
  OBVIOUS
<1> HIDE DEF d, c
<1>3. /\ D.objs = objs /\ D.mors = mors /\ D.dom = d /\ D.cod = c
      /\ D.id = idt /\ D.comp = compt
  BY <1>1
<1>4. \A x \in D.objs : D.id[x] \in D.mors /\ D.dom[D.id[x]] = x /\ D.cod[D.id[x]] = x
  BY <1>2, <1>3 DEF Tables
<1>5. \A f, g \in D.mors :
         D.cod[f] = D.dom[g] =>
            /\ D.comp[<<g, f>>] \in D.mors
            /\ D.dom[D.comp[<<g, f>>]] = D.dom[f]
            /\ D.cod[D.comp[<<g, f>>]] = D.cod[g]
  BY <1>2, <1>3 DEF Tables
<1>6. \A f \in D.mors :
         D.comp[<<D.id[D.cod[f]], f>>] = f /\ D.comp[<<f, D.id[D.dom[f]]>>] = f
  BY <1>2, <1>3 DEF Tables
<1>7. ASSUME NEW t \in Triples(D)
      PROVE  D.comp[<<D.comp[<<t[1], t[2]>>], t[3]>>] = D.comp[<<t[1], D.comp[<<t[2], t[3]>>]>>]
  <2> DEFINE h == t[1] g == t[2] f == t[3]
  <2>1. h \in mors /\ g \in mors /\ f \in mors /\ f[2] = g[1] /\ g[2] = h[1]
    BY <1>2, <1>3 DEF Triples
  <2> HIDE DEF h, g, f
  <2>2. compt[<<compt[<<h, g>>], f>>] = compt[<<h, compt[<<g, f>>]>>]
    BY <2>1 DEF Tables
  <2> QED BY <1>3, <2>2 DEF h, g, f
<1> QED BY <1>4, <1>5, <1>6, <1>7 DEF Lawful

\* The composition table of a derived category.
LEMMA PairsMeet ==
    ASSUME NEW mors, NEW g \in mors, NEW f \in mors, f[2] = g[1]
    PROVE  <<g, f>> \in Pairs(mors, [m \in mors |-> m[1]], [m \in mors |-> m[2]])
BY DEF Pairs

\* A preorder.
LEMMA ThinLawful ==
    ASSUME NEW points, NEW leq \in SUBSET (points \X points),
           \A x \in points : <<x, x>> \in leq,
           \A p, q \in leq : p[2] = q[1] => <<p[1], q[2]>> \in leq
    PROVE  Lawful(Thin(points, leq))
<1> DEFINE D == Thin(points, leq)
           idt == [x \in points |-> <<x, x>>]
           P == Pairs(leq, [m \in leq |-> m[1]], [m \in leq |-> m[2]])
           compt == [p \in P |-> <<p[2][1], p[1][2]>>]
<1>1. D = [objs |-> points, mors |-> leq, dom |-> [m \in leq |-> m[1]],
           cod |-> [m \in leq |-> m[2]], id |-> idt, comp |-> compt]
  BY DEF Thin, Category
<1>2. \A g, f \in leq : f[2] = g[1] => compt[<<g, f>>] = <<f[1], g[2]>>
  <2> SUFFICES ASSUME NEW g \in leq, NEW f \in leq, f[2] = g[1]
               PROVE  compt[<<g, f>>] = <<f[1], g[2]>>
    OBVIOUS
  <2>1. <<g, f>> \in P
    BY PairsMeet
  <2> HIDE DEF P
  <2> QED BY <2>1
<1>3. \A x \in points : idt[x] = <<x, x>>
  OBVIOUS
<1>4. \A f \in leq : f = <<f[1], f[2]>> /\ f[1] \in points /\ f[2] \in points
  OBVIOUS
<1> HIDE DEF D, idt, P, compt
<1>5. ASSUME NEW x \in points
      PROVE  idt[x] \in leq /\ idt[x][1] = x /\ idt[x][2] = x
  <2>1. idt[x] = <<x, x>> /\ <<x, x>> \in leq
    BY <1>3
  <2> QED BY <2>1
<1>6. ASSUME NEW g \in leq, NEW f \in leq, f[2] = g[1]
      PROVE  /\ compt[<<g, f>>] \in leq
             /\ compt[<<g, f>>][1] = f[1] /\ compt[<<g, f>>][2] = g[2]
  <2>1. compt[<<g, f>>] = <<f[1], g[2]>> /\ <<f[1], g[2]>> \in leq
    BY <1>2, <1>6
  <2> QED BY <2>1
<1>7. \A f \in leq : compt[<<idt[f[2]], f>>] = f /\ compt[<<f, idt[f[1]]>>] = f
  BY <1>2, <1>4, <1>5
<1>8. \A h, g, f \in leq :
         f[2] = g[1] /\ g[2] = h[1] =>
            compt[<<compt[<<h, g>>], f>>] = compt[<<h, compt[<<g, f>>]>>]
  BY <1>2, <1>6
<1>9. Tables(D, points, leq, idt, compt)
  BY <1>1, <1>5, <1>6, <1>7, <1>8 DEF Tables
<1> QED BY <1>9, TablesLawful DEF D

\* Objects over an apex: the triangles of the constructors compose.
LEMMA SliceLawful ==
    ASSUME NEW C, IsCategory(C), NEW apex
    PROVE  Lawful(Slice(C, apex))
<1> DEFINE D == Slice(C, apex)
           objs == {f \in C.mors : SliceObj(C, apex, f) = "ok"}
           mors == {m \in objs \X objs \X C.mors : SliceMor(C, m[1], m[2], m[3]) = "ok"}
           idt == [f \in objs |-> <<f, f, C.id[C.dom[f]]>>]
           P == Pairs(mors, [m \in mors |-> m[1]], [m \in mors |-> m[2]])
           compt == [p \in P |-> <<p[2][1], p[1][2], o(C, p[1][3], p[2][3])>>]
<1>1. D = [objs |-> objs, mors |-> mors, dom |-> [m \in mors |-> m[1]],
           cod |-> [m \in mors |-> m[2]], id |-> idt, comp |-> compt]
  BY DEF Slice, Category
<1>2. \A f : f \in objs <=> f \in C.mors /\ C.cod[f] = apex
  BY DEF SliceObj
<1>3. \A d \in objs, c \in objs, h \in C.mors :
         <<d, c, h>> \in mors <=> Meet(C, c, h) /\ o(C, c, h) = d
  BY DEF SliceMor, SliceSquareOk, Meet
<1>4. \A m \in mors : /\ m = <<m[1], m[2], m[3]>> /\ m[1] \in objs /\ m[2] \in objs
                      /\ m[3] \in C.mors
  OBVIOUS
<1> HIDE DEF objs, mors
<1>5. \A g, f \in mors :
         f[2] = g[1] => compt[<<g, f>>] = <<f[1], g[2], o(C, g[3], f[3])>>
  <2> SUFFICES ASSUME NEW g \in mors, NEW f \in mors, f[2] = g[1]
               PROVE  compt[<<g, f>>] = <<f[1], g[2], o(C, g[3], f[3])>>
    OBVIOUS
  <2>1. <<g, f>> \in P
    BY PairsMeet
  <2> HIDE DEF P
  <2> QED BY <2>1
<1>6. \A f \in objs : idt[f] = <<f, f, C.id[C.dom[f]]>>
  OBVIOUS
<1> HIDE DEF D, idt, P, compt
<1>7. \A m \in mors : Meet(C, m[2], m[3]) /\ o(C, m[2], m[3]) = m[1]
  BY <1>3, <1>4
<1>8. ASSUME NEW f \in objs
      PROVE  idt[f] \in mors /\ idt[f][1] = f /\ idt[f][2] = f
  <2>1. f \in C.mors /\ C.id[C.dom[f]] \in C.mors /\ Meet(C, f, C.id[C.dom[f]])
    BY <1>2, Units DEF Meet
  <2>2. o(C, f, C.id[C.dom[f]]) = f
    BY <2>1, Units
  <2> QED BY <1>3, <1>6, <2>1, <2>2
<1>9. ASSUME NEW g \in mors, NEW f \in mors, f[2] = g[1]
      PROVE  /\ Meet(C, g[3], f[3])
             /\ compt[<<g, f>>] \in mors
             /\ compt[<<g, f>>][1] = f[1] /\ compt[<<g, f>>][2] = g[2]
             /\ compt[<<g, f>>][3] = o(C, g[3], f[3])
  <2>1. Meet(C, g[2], g[3]) /\ o(C, g[2], g[3]) = g[1]
    BY <1>7
  <2>2. Meet(C, f[2], f[3]) /\ o(C, f[2], f[3]) = f[1]
    BY <1>7
  <2>3. Meet(C, g[3], f[3])
    <3>1. C.dom[g[1]] = C.dom[g[3]]
      BY <2>1, Composes
    <3> QED BY <1>9, <2>1, <2>2, <3>1 DEF Meet
  <2>4. /\ o(C, o(C, g[2], g[3]), f[3]) = o(C, g[2], o(C, g[3], f[3]))
        /\ Meet(C, g[2], o(C, g[3], f[3]))
    BY <2>1, <2>3, Associates
  <2>5. o(C, g[2], o(C, g[3], f[3])) = f[1]
    BY <1>9, <2>1, <2>2, <2>4
  <2>6. o(C, g[3], f[3]) \in C.mors
    BY <2>3, Composes
  <2>7. <<f[1], g[2], o(C, g[3], f[3])>> \in mors
    BY <1>3, <1>4, <2>4, <2>5, <2>6
  <2>8. compt[<<g, f>>] = <<f[1], g[2], o(C, g[3], f[3])>>
    BY <1>5, <1>9
  <2> QED BY <2>3, <2>7, <2>8
<1>10. ASSUME NEW f \in mors
       PROVE  compt[<<idt[f[2]], f>>] = f /\ compt[<<f, idt[f[1]]>>] = f
  <2>1. f[1] \in objs /\ f[2] \in objs /\ f[3] \in C.mors /\ f = <<f[1], f[2], f[3]>>
    BY <1>4
  <2>2. /\ idt[f[1]] = <<f[1], f[1], C.id[C.dom[f[1]]]>>
        /\ idt[f[2]] = <<f[2], f[2], C.id[C.dom[f[2]]]>>
    BY <1>6, <2>1
  <2>3. C.dom[f[2]] = C.cod[f[3]] /\ C.dom[f[1]] = C.dom[f[3]]
    BY <1>7, Composes DEF Meet
  <2>4. o(C, C.id[C.dom[f[2]]], f[3]) = f[3] /\ o(C, f[3], C.id[C.dom[f[1]]]) = f[3]
    BY <2>1, <2>3, Units
  <2>5. /\ idt[f[2]] \in mors /\ idt[f[2]][1] = f[2] /\ idt[f[2]][2] = f[2]
        /\ idt[f[1]] \in mors /\ idt[f[1]][1] = f[1] /\ idt[f[1]][2] = f[1]
    BY <1>8, <2>1
  <2>6. idt[f[2]][3] = C.id[C.dom[f[2]]] /\ idt[f[1]][3] = C.id[C.dom[f[1]]]
    BY <2>2
  <2>7. compt[<<idt[f[2]], f>>] = <<f[1], f[2], f[3]>>
    BY <1>5, <2>4, <2>5, <2>6
  <2>8. compt[<<f, idt[f[1]]>>] = <<f[1], f[2], f[3]>>
    BY <1>5, <2>4, <2>5, <2>6
  <2> QED BY <2>1, <2>7, <2>8
<1>11. ASSUME NEW h \in mors, NEW g \in mors, NEW f \in mors, f[2] = g[1], g[2] = h[1]
       PROVE  compt[<<compt[<<h, g>>], f>>] = compt[<<h, compt[<<g, f>>]>>]
  <2>1. /\ Meet(C, h[3], g[3]) /\ compt[<<h, g>>] \in mors
        /\ compt[<<h, g>>][1] = g[1] /\ compt[<<h, g>>][2] = h[2]
        /\ compt[<<h, g>>][3] = o(C, h[3], g[3])
    BY <1>9, <1>11
  <2>2. /\ Meet(C, g[3], f[3]) /\ compt[<<g, f>>] \in mors
        /\ compt[<<g, f>>][1] = f[1] /\ compt[<<g, f>>][2] = g[2]
        /\ compt[<<g, f>>][3] = o(C, g[3], f[3])
    BY <1>9, <1>11
  <2>3. o(C, o(C, h[3], g[3]), f[3]) = o(C, h[3], o(C, g[3], f[3]))
    BY <2>1, <2>2, Associates
  <2>4. compt[<<compt[<<h, g>>], f>>] = <<f[1], h[2], o(C, o(C, h[3], g[3]), f[3])>>
    BY <1>5, <1>11, <2>1
  <2>5. compt[<<h, compt[<<g, f>>]>>] = <<f[1], h[2], o(C, h[3], o(C, g[3], f[3]))>>
    BY <1>5, <1>11, <2>2
  <2> QED BY <2>3, <2>4, <2>5
<1>12. Tables(D, objs, mors, idt, compt)
  BY <1>1, <1>8, <1>9, <1>10, <1>11 DEF Tables
<1> QED BY <1>12, TablesLawful DEF D

\* Objects under a source.
LEMMA CosliceLawful ==
    ASSUME NEW C, IsCategory(C), NEW source
    PROVE  Lawful(Coslice(C, source))
<1> DEFINE D == Coslice(C, source)
           objs == {f \in C.mors : CosliceObj(C, source, f) = "ok"}
           mors == {m \in objs \X objs \X C.mors : CosliceMor(C, m[1], m[2], m[3]) = "ok"}
           idt == [f \in objs |-> <<f, f, C.id[C.cod[f]]>>]
           P == Pairs(mors, [m \in mors |-> m[1]], [m \in mors |-> m[2]])
           compt == [p \in P |-> <<p[2][1], p[1][2], o(C, p[1][3], p[2][3])>>]
<1>1. D = [objs |-> objs, mors |-> mors, dom |-> [m \in mors |-> m[1]],
           cod |-> [m \in mors |-> m[2]], id |-> idt, comp |-> compt]
  BY DEF Coslice, Category
<1>2. \A f : f \in objs <=> f \in C.mors /\ C.dom[f] = source
  BY DEF CosliceObj
<1>3. \A d \in objs, c \in objs, h \in C.mors :
         <<d, c, h>> \in mors <=> Meet(C, h, d) /\ o(C, h, d) = c
  BY DEF CosliceMor, CosliceSquareOk, Meet
<1>4. \A m \in mors : /\ m = <<m[1], m[2], m[3]>> /\ m[1] \in objs /\ m[2] \in objs
                      /\ m[3] \in C.mors
  OBVIOUS
<1> HIDE DEF objs, mors
<1>5. \A g, f \in mors :
         f[2] = g[1] => compt[<<g, f>>] = <<f[1], g[2], o(C, g[3], f[3])>>
  <2> SUFFICES ASSUME NEW g \in mors, NEW f \in mors, f[2] = g[1]
               PROVE  compt[<<g, f>>] = <<f[1], g[2], o(C, g[3], f[3])>>
    OBVIOUS
  <2>1. <<g, f>> \in P
    BY PairsMeet
  <2> HIDE DEF P
  <2> QED BY <2>1
<1>6. \A f \in objs : idt[f] = <<f, f, C.id[C.cod[f]]>>
  OBVIOUS
<1> HIDE DEF D, idt, P, compt
<1>7. \A m \in mors : Meet(C, m[3], m[1]) /\ o(C, m[3], m[1]) = m[2]
  BY <1>3, <1>4
<1>8. ASSUME NEW f \in objs
      PROVE  idt[f] \in mors /\ idt[f][1] = f /\ idt[f][2] = f
  <2>1. f \in C.mors /\ C.id[C.cod[f]] \in C.mors /\ Meet(C, C.id[C.cod[f]], f)
    BY <1>2, Units DEF Meet
  <2>2. o(C, C.id[C.cod[f]], f) = f
    BY <2>1, Units
  <2>3. idt[f] = <<f, f, C.id[C.cod[f]]>>
    BY <1>6
  <2>4. <<f, f, C.id[C.cod[f]]>> \in mors
    BY <1>3, <2>1, <2>2
  <2> QED BY <2>3, <2>4
<1>9. ASSUME NEW g \in mors, NEW f \in mors, f[2] = g[1]
      PROVE  /\ Meet(C, g[3], f[3])
             /\ compt[<<g, f>>] \in mors
             /\ compt[<<g, f>>][1] = f[1] /\ compt[<<g, f>>][2] = g[2]
             /\ compt[<<g, f>>][3] = o(C, g[3], f[3])
  <2>1. Meet(C, g[3], g[1]) /\ o(C, g[3], g[1]) = g[2]
    BY <1>7
  <2>2. Meet(C, f[3], f[1]) /\ o(C, f[3], f[1]) = f[2]
    BY <1>7
  <2>3. Meet(C, g[3], f[3])
    <3>1. C.cod[f[2]] = C.cod[f[3]]
      BY <2>2, Composes
    <3> QED BY <1>9, <2>1, <2>2, <3>1 DEF Meet
  <2>4. /\ o(C, o(C, g[3], f[3]), f[1]) = o(C, g[3], o(C, f[3], f[1]))
        /\ Meet(C, o(C, g[3], f[3]), f[1])
    BY <2>2, <2>3, Associates
  <2>5. o(C, o(C, g[3], f[3]), f[1]) = g[2]
    BY <1>9, <2>1, <2>2, <2>4
  <2>6. o(C, g[3], f[3]) \in C.mors
    BY <2>3, Composes
  <2>7. <<f[1], g[2], o(C, g[3], f[3])>> \in mors
    BY <1>3, <1>4, <2>4, <2>5, <2>6
  <2>8. compt[<<g, f>>] = <<f[1], g[2], o(C, g[3], f[3])>>
    BY <1>5, <1>9
  <2> QED BY <2>3, <2>7, <2>8
<1>10. ASSUME NEW f \in mors
       PROVE  compt[<<idt[f[2]], f>>] = f /\ compt[<<f, idt[f[1]]>>] = f
  <2>1. f[1] \in objs /\ f[2] \in objs /\ f[3] \in C.mors /\ f = <<f[1], f[2], f[3]>>
    BY <1>4
  <2>2. /\ idt[f[1]] = <<f[1], f[1], C.id[C.cod[f[1]]]>>
        /\ idt[f[2]] = <<f[2], f[2], C.id[C.cod[f[2]]]>>
    BY <1>6, <2>1
  <2>3. C.cod[f[2]] = C.cod[f[3]] /\ C.cod[f[1]] = C.dom[f[3]]
    BY <1>7, Composes DEF Meet
  <2>4. o(C, C.id[C.cod[f[2]]], f[3]) = f[3] /\ o(C, f[3], C.id[C.cod[f[1]]]) = f[3]
    BY <2>1, <2>3, Units
  <2>5. /\ idt[f[2]] \in mors /\ idt[f[2]][1] = f[2] /\ idt[f[2]][2] = f[2]
        /\ idt[f[1]] \in mors /\ idt[f[1]][1] = f[1] /\ idt[f[1]][2] = f[1]
    BY <1>8, <2>1
  <2>6. idt[f[2]][3] = C.id[C.cod[f[2]]] /\ idt[f[1]][3] = C.id[C.cod[f[1]]]
    BY <2>2
  <2>7. compt[<<idt[f[2]], f>>] = <<f[1], f[2], f[3]>>
    BY <1>5, <2>4, <2>5, <2>6
  <2>8. compt[<<f, idt[f[1]]>>] = <<f[1], f[2], f[3]>>
    BY <1>5, <2>4, <2>5, <2>6
  <2> QED BY <2>1, <2>7, <2>8
<1>11. ASSUME NEW h \in mors, NEW g \in mors, NEW f \in mors, f[2] = g[1], g[2] = h[1]
       PROVE  compt[<<compt[<<h, g>>], f>>] = compt[<<h, compt[<<g, f>>]>>]
  <2>1. /\ Meet(C, h[3], g[3]) /\ compt[<<h, g>>] \in mors
        /\ compt[<<h, g>>][1] = g[1] /\ compt[<<h, g>>][2] = h[2]
        /\ compt[<<h, g>>][3] = o(C, h[3], g[3])
    BY <1>9, <1>11
  <2>2. /\ Meet(C, g[3], f[3]) /\ compt[<<g, f>>] \in mors
        /\ compt[<<g, f>>][1] = f[1] /\ compt[<<g, f>>][2] = g[2]
        /\ compt[<<g, f>>][3] = o(C, g[3], f[3])
    BY <1>9, <1>11
  <2>3. o(C, o(C, h[3], g[3]), f[3]) = o(C, h[3], o(C, g[3], f[3]))
    BY <2>1, <2>2, Associates
  <2>4. compt[<<compt[<<h, g>>], f>>] = <<f[1], h[2], o(C, o(C, h[3], g[3]), f[3])>>
    BY <1>5, <1>11, <2>1
  <2>5. compt[<<h, compt[<<g, f>>]>>] = <<f[1], h[2], o(C, h[3], o(C, g[3], f[3]))>>
    BY <1>5, <1>11, <2>2
  <2> QED BY <2>3, <2>4, <2>5
<1>12. Tables(D, objs, mors, idt, compt)
  BY <1>1, <1>8, <1>9, <1>10, <1>11 DEF Tables
<1> QED BY <1>12, TablesLawful DEF D

\* Pairs of morphisms.
LEMMA ProductLawful ==
    ASSUME NEW L, IsCategory(L), NEW R, IsCategory(R)
    PROVE  Lawful(ProductCat(L, R))
<1> DEFINE D == ProductCat(L, R)
           objs == L.objs \X R.objs
           mors == {PmorMake(L, R, lm, rm) : lm \in L.mors, rm \in R.mors}
           idt == [x \in objs |-> PmorMake(L, R, L.id[x[1]], R.id[x[2]])]
           P == Pairs(mors, [m \in mors |-> m[1]], [m \in mors |-> m[2]])
           compt == [p \in P |-> PmorMake(L, R, o(L, p[1][3], p[2][3]), o(R, p[1][4], p[2][4]))]
<1>1. D = [objs |-> objs, mors |-> mors, dom |-> [m \in mors |-> m[1]],
           cod |-> [m \in mors |-> m[2]], id |-> idt, comp |-> compt]
  BY DEF ProductCat, Category
<1>2. \A l \in L.mors, r \in R.mors :
         /\ PmorMake(L, R, l, r) \in mors
         /\ PmorMake(L, R, l, r)[1] = <<L.dom[l], R.dom[r]>>
         /\ PmorMake(L, R, l, r)[2] = <<L.cod[l], R.cod[r]>>
         /\ PmorMake(L, R, l, r)[3] = l /\ PmorMake(L, R, l, r)[4] = r
  BY DEF PmorMake
<1>3. \A m \in mors : m[3] \in L.mors /\ m[4] \in R.mors /\ m = PmorMake(L, R, m[3], m[4])
  BY DEF PmorMake
<1>4. \A x \in objs : x[1] \in L.objs /\ x[2] \in R.objs /\ x = <<x[1], x[2]>>
  OBVIOUS
<1>5. \A l \in L.objs, r \in R.objs : <<l, r>> \in objs /\ <<l, r>>[1] = l /\ <<l, r>>[2] = r
  OBVIOUS
<1> HIDE DEF objs, mors
<1>6. \A g, f \in mors :
         f[2] = g[1] => compt[<<g, f>>] = PmorMake(L, R, o(L, g[3], f[3]), o(R, g[4], f[4]))
  <2> SUFFICES ASSUME NEW g \in mors, NEW f \in mors, f[2] = g[1]
               PROVE  compt[<<g, f>>] = PmorMake(L, R, o(L, g[3], f[3]), o(R, g[4], f[4]))
    OBVIOUS
  <2>1. <<g, f>> \in P
    BY PairsMeet
  <2> HIDE DEF P
  <2> QED BY <2>1
<1>7. \A x \in objs : idt[x] = PmorMake(L, R, L.id[x[1]], R.id[x[2]])
  OBVIOUS
<1> HIDE DEF D, idt, P, compt
<1>8. ASSUME NEW x \in objs
      PROVE  /\ idt[x] \in mors /\ idt[x][1] = x /\ idt[x][2] = x
             /\ idt[x][3] = L.id[x[1]] /\ idt[x][4] = R.id[x[2]]
  <2>1. /\ L.id[x[1]] \in L.mors /\ L.dom[L.id[x[1]]] = x[1] /\ L.cod[L.id[x[1]]] = x[1]
        /\ R.id[x[2]] \in R.mors /\ R.dom[R.id[x[2]]] = x[2] /\ R.cod[R.id[x[2]]] = x[2]
    BY <1>4, Units
  <2>2. /\ idt[x] \in mors
        /\ idt[x][1] = <<x[1], x[2]>> /\ idt[x][2] = <<x[1], x[2]>>
        /\ idt[x][3] = L.id[x[1]] /\ idt[x][4] = R.id[x[2]]
    BY <1>2, <1>7, <2>1
  <2> QED BY <1>4, <2>2
<1>9. ASSUME NEW m \in mors
      PROVE  /\ m[3] \in L.mors /\ m[4] \in R.mors
             /\ m[1] = <<L.dom[m[3]], R.dom[m[4]]>> /\ m[2] = <<L.cod[m[3]], R.cod[m[4]]>>
             /\ L.dom[m[3]] \in L.objs /\ R.dom[m[4]] \in R.objs
             /\ L.cod[m[3]] \in L.objs /\ R.cod[m[4]] \in R.objs
             /\ m[1] \in objs /\ m[2] \in objs
  <2>1. m[3] \in L.mors /\ m[4] \in R.mors /\ m = PmorMake(L, R, m[3], m[4])
    BY <1>3
  <2>2. m[1] = <<L.dom[m[3]], R.dom[m[4]]>> /\ m[2] = <<L.cod[m[3]], R.cod[m[4]]>>
    BY <1>2, <2>1
  <2>3. /\ L.dom[m[3]] \in L.objs /\ R.dom[m[4]] \in R.objs
        /\ L.cod[m[3]] \in L.objs /\ R.cod[m[4]] \in R.objs
    BY <2>1, Units
  <2> QED BY <1>5, <2>1, <2>2, <2>3
<1>10. ASSUME NEW g \in mors, NEW f \in mors, f[2] = g[1]
       PROVE  /\ Meet(L, g[3], f[3]) /\ Meet(R, g[4], f[4])
              /\ compt[<<g, f>>] \in mors
              /\ compt[<<g, f>>][1] = f[1] /\ compt[<<g, f>>][2] = g[2]
              /\ compt[<<g, f>>][3] = o(L, g[3], f[3])
              /\ compt[<<g, f>>][4] = o(R, g[4], f[4])
  <2> DEFINE l == o(L, g[3], f[3]) r == o(R, g[4], f[4])
  <2>1. <<L.cod[f[3]], R.cod[f[4]]>> = <<L.dom[g[3]], R.dom[g[4]]>>
    BY <1>9, <1>10
  <2>2. Meet(L, g[3], f[3]) /\ Meet(R, g[4], f[4])
    BY <1>9, <2>1 DEF Meet
  <2>3. /\ l \in L.mors /\ L.dom[l] = L.dom[f[3]] /\ L.cod[l] = L.cod[g[3]]
        /\ r \in R.mors /\ R.dom[r] = R.dom[f[4]] /\ R.cod[r] = R.cod[g[4]]
    BY <2>2, Composes
  <2>4. compt[<<g, f>>] = PmorMake(L, R, l, r)
    BY <1>6, <1>10
  <2> HIDE DEF l, r
  <2>5. /\ compt[<<g, f>>] \in mors
        /\ compt[<<g, f>>][1] = <<L.dom[f[3]], R.dom[f[4]]>>
        /\ compt[<<g, f>>][2] = <<L.cod[g[3]], R.cod[g[4]]>>
        /\ compt[<<g, f>>][3] = l /\ compt[<<g, f>>][4] = r
    BY <1>2, <2>3, <2>4
  <2> QED BY <1>9, <2>2, <2>5 DEF l, r
<1>11. ASSUME NEW f \in mors
       PROVE  compt[<<idt[f[2]], f>>] = f /\ compt[<<f, idt[f[1]]>>] = f
  <2>1. /\ f[1] \in objs /\ f[2] \in objs /\ f = PmorMake(L, R, f[3], f[4])
        /\ f[3] \in L.mors /\ f[4] \in R.mors
    BY <1>3, <1>9
  <2>2. /\ f[1][1] = L.dom[f[3]] /\ f[1][2] = R.dom[f[4]]
        /\ f[2][1] = L.cod[f[3]] /\ f[2][2] = R.cod[f[4]]
    <3>1. f[1] = <<L.dom[f[3]], R.dom[f[4]]>> /\ f[2] = <<L.cod[f[3]], R.cod[f[4]]>>
      BY <1>9
    <3> QED BY <3>1
  <2>3. /\ o(L, L.id[L.cod[f[3]]], f[3]) = f[3] /\ o(L, f[3], L.id[L.dom[f[3]]]) = f[3]
        /\ o(R, R.id[R.cod[f[4]]], f[4]) = f[4] /\ o(R, f[4], R.id[R.dom[f[4]]]) = f[4]
    BY <2>1, Units
  <2>4. /\ idt[f[2]] \in mors /\ idt[f[2]][1] = f[2]
        /\ idt[f[2]][3] = L.id[L.cod[f[3]]] /\ idt[f[2]][4] = R.id[R.cod[f[4]]]
        /\ idt[f[1]] \in mors /\ idt[f[1]][2] = f[1]
        /\ idt[f[1]][3] = L.id[L.dom[f[3]]] /\ idt[f[1]][4] = R.id[R.dom[f[4]]]
    BY <1>8, <2>1, <2>2
  <2>5. compt[<<idt[f[2]], f>>] = PmorMake(L, R, f[3], f[4])
    BY <1>6, <2>3, <2>4
  <2>6. compt[<<f, idt[f[1]]>>] = PmorMake(L, R, f[3], f[4])
    BY <1>6, <2>3, <2>4
  <2> QED BY <2>1, <2>5, <2>6
<1>12. ASSUME NEW h \in mors, NEW g \in mors, NEW f \in mors, f[2] = g[1], g[2] = h[1]
       PROVE  compt[<<compt[<<h, g>>], f>>] = compt[<<h, compt[<<g, f>>]>>]
  <2>1. /\ Meet(L, h[3], g[3]) /\ Meet(R, h[4], g[4]) /\ compt[<<h, g>>] \in mors
        /\ compt[<<h, g>>][1] = g[1]
        /\ compt[<<h, g>>][3] = o(L, h[3], g[3]) /\ compt[<<h, g>>][4] = o(R, h[4], g[4])
    BY <1>10, <1>12
  <2>2. /\ Meet(L, g[3], f[3]) /\ Meet(R, g[4], f[4]) /\ compt[<<g, f>>] \in mors
        /\ compt[<<g, f>>][2] = g[2]
        /\ compt[<<g, f>>][3] = o(L, g[3], f[3]) /\ compt[<<g, f>>][4] = o(R, g[4], f[4])
    BY <1>10, <1>12
  <2>3. /\ o(L, o(L, h[3], g[3]), f[3]) = o(L, h[3], o(L, g[3], f[3]))
        /\ o(R, o(R, h[4], g[4]), f[4]) = o(R, h[4], o(R, g[4], f[4]))
    BY <2>1, <2>2, Associates
  <2>4. compt[<<compt[<<h, g>>], f>>] =
        PmorMake(L, R, o(L, o(L, h[3], g[3]), f[3]), o(R, o(R, h[4], g[4]), f[4]))
    BY <1>6, <1>12, <2>1
  <2>5. compt[<<h, compt[<<g, f>>]>>] =
        PmorMake(L, R, o(L, h[3], o(L, g[3], f[3])), o(R, h[4], o(R, g[4], f[4])))
    BY <1>6, <1>12, <2>2
  <2> QED BY <2>3, <2>4, <2>5
<1>13. Tables(D, objs, mors, idt, compt)
  BY <1>1, <1>8, <1>10, <1>11, <1>12 DEF Tables
<1> QED BY <1>13, TablesLawful DEF D

\* A functor between categories.
Functor(F) ==
    /\ IsCategory(F.src) /\ IsCategory(F.tgt)
    /\ F.obj \in [F.src.objs -> F.tgt.objs]
    /\ F.mor \in [F.src.mors -> F.tgt.mors]
    /\ Typed(F)
    /\ \A x \in F.src.objs : F.mor[F.src.id[x]] = F.tgt.id[F.obj[x]]
    /\ \A g, f \in F.src.mors :
         F.src.cod[f] = F.src.dom[g] => F.mor[o(F.src, g, f)] = o(F.tgt, F.mor[g], F.mor[f])

\* A functor keeps composites.
LEMMA FunctorMeets ==
    ASSUME NEW F, Functor(F), NEW g, NEW f, Meet(F.src, g, f)
    PROVE  /\ Meet(F.tgt, F.mor[g], F.mor[f])
           /\ F.mor[o(F.src, g, f)] = o(F.tgt, F.mor[g], F.mor[f])
BY DEF Functor, Typed, Meet

\* The identity functor is a functor.
LEMMA IdentityIsFunctor ==
    ASSUME NEW C, IsCategory(C)
    PROVE  /\ Functor(IdentityFunctor(C))
           /\ IdentityFunctor(C).src = C /\ IdentityFunctor(C).tgt = C
<1> DEFINE F == IdentityFunctor(C)
<1>1. /\ F.src = C /\ F.tgt = C
      /\ F.obj = [x \in C.objs |-> x] /\ F.mor = [m \in C.mors |-> m]
  BY DEF IdentityFunctor
<1> HIDE DEF F
<1>2. /\ \A x \in C.objs : F.obj[x] = x
      /\ \A m \in C.mors : F.mor[m] = m
      /\ F.obj \in [C.objs -> C.objs] /\ F.mor \in [C.mors -> C.mors]
  BY <1>1
<1>3. Typed(F)
  BY <1>1, <1>2, Units DEF Typed
<1>4. \A x \in C.objs : F.mor[C.id[x]] = C.id[F.obj[x]]
  BY <1>2, Units
<1>5. ASSUME NEW g \in C.mors, NEW f \in C.mors, C.cod[f] = C.dom[g]
      PROVE  F.mor[o(C, g, f)] = o(C, F.mor[g], F.mor[f])
  <2>1. o(C, g, f) \in C.mors
    BY <1>5, Composes DEF Meet
  <2> QED BY <1>2, <2>1
<1> QED BY <1>1, <1>2, <1>3, <1>4, <1>5 DEF Functor, F

\* Morphisms F(a) -> G(b): the squares of the constructors compose.
LEMMA CommaLawful ==
    ASSUME NEW F, Functor(F), NEW G, Functor(G), G.tgt = F.tgt
    PROVE  Lawful(Comma(F, G))
<1> DEFINE D == Comma(F, G) A == F.src B == G.src E == F.tgt
           objs == {n \in A.objs \X E.mors \X B.objs : CommaObj(F, G, n[1], n[2], n[3]) = "ok"}
           mors == {m \in objs \X objs \X A.mors \X B.mors :
                       CommaMor(F, G, m[1], m[2], m[3], m[4]) = "ok"}
           idt == [n \in objs |-> <<n, n, A.id[n[1]], B.id[n[3]]>>]
           P == Pairs(mors, [m \in mors |-> m[1]], [m \in mors |-> m[2]])
           compt == [p \in P |-> <<p[2][1], p[1][2], o(A, p[1][3], p[2][3]), o(B, p[1][4], p[2][4])>>]
<1>1. D = [objs |-> objs, mors |-> mors, dom |-> [m \in mors |-> m[1]],
           cod |-> [m \in mors |-> m[2]], id |-> idt, comp |-> compt]
  BY DEF Comma, Category
<1>2. \A n \in objs : /\ n[1] \in A.objs /\ n[2] \in E.mors /\ n[3] \in B.objs
                      /\ E.dom[n[2]] = F.obj[n[1]] /\ E.cod[n[2]] = G.obj[n[3]]
  BY DEF CommaObj
<1>3. \A d \in objs, c \in objs, u \in A.mors, v \in B.mors :
         <<d, c, u, v>> \in mors <=>
           /\ A.dom[u] = d[1] /\ A.cod[u] = c[1] /\ B.dom[v] = d[3] /\ B.cod[v] = c[3]
           /\ o(E, G.mor[v], d[2]) = o(E, c[2], F.mor[u])
  BY DEF CommaMor, CommaEndpointsOk, CommaSquareOk
<1>4. \A m \in mors : /\ m = <<m[1], m[2], m[3], m[4]>> /\ m[1] \in objs /\ m[2] \in objs
                      /\ m[3] \in A.mors /\ m[4] \in B.mors
  OBVIOUS
<1> HIDE DEF objs, mors
<1>5. \A g, f \in mors :
         f[2] = g[1] => compt[<<g, f>>] = <<f[1], g[2], o(A, g[3], f[3]), o(B, g[4], f[4])>>
  <2> SUFFICES ASSUME NEW g \in mors, NEW f \in mors, f[2] = g[1]
               PROVE  compt[<<g, f>>] = <<f[1], g[2], o(A, g[3], f[3]), o(B, g[4], f[4])>>
    OBVIOUS
  <2>1. <<g, f>> \in P
    BY PairsMeet
  <2> HIDE DEF P
  <2> QED BY <2>1
<1>6. \A n \in objs : idt[n] = <<n, n, A.id[n[1]], B.id[n[3]]>>
  OBVIOUS
<1>7. IsCategory(A) /\ IsCategory(B) /\ IsCategory(E) /\ IsCategory(G.tgt)
  BY DEF Functor
<1>8. /\ \A x \in A.objs : F.mor[A.id[x]] = E.id[F.obj[x]]
      /\ \A x \in B.objs : G.mor[B.id[x]] = E.id[G.obj[x]]
      /\ \A m \in A.mors : /\ F.mor[m] \in E.mors
                           /\ E.dom[F.mor[m]] = F.obj[A.dom[m]]
                           /\ E.cod[F.mor[m]] = F.obj[A.cod[m]]
      /\ \A m \in B.mors : /\ G.mor[m] \in E.mors
                           /\ E.dom[G.mor[m]] = G.obj[B.dom[m]]
                           /\ E.cod[G.mor[m]] = G.obj[B.cod[m]]
  BY DEF Functor, Typed
<1>9. \A g, f : Meet(A, g, f) => F.mor[o(A, g, f)] = o(E, F.mor[g], F.mor[f])
  BY FunctorMeets
<1>10. \A g, f : Meet(B, g, f) => G.mor[o(B, g, f)] = o(E, G.mor[g], G.mor[f])
  BY FunctorMeets
<1> HIDE DEF D, A, B, E, idt, P, compt
<1>11. ASSUME NEW m \in mors
       PROVE  /\ A.dom[m[3]] = m[1][1] /\ A.cod[m[3]] = m[2][1]
              /\ B.dom[m[4]] = m[1][3] /\ B.cod[m[4]] = m[2][3]
              /\ o(E, G.mor[m[4]], m[1][2]) = o(E, m[2][2], F.mor[m[3]])
              /\ Meet(E, G.mor[m[4]], m[1][2]) /\ Meet(E, m[2][2], F.mor[m[3]])
  <2>1. /\ A.dom[m[3]] = m[1][1] /\ A.cod[m[3]] = m[2][1]
        /\ B.dom[m[4]] = m[1][3] /\ B.cod[m[4]] = m[2][3]
        /\ o(E, G.mor[m[4]], m[1][2]) = o(E, m[2][2], F.mor[m[3]])
    BY <1>3, <1>4
  <2>2. Meet(E, G.mor[m[4]], m[1][2]) /\ Meet(E, m[2][2], F.mor[m[3]])
    BY <1>2, <1>4, <1>8, <2>1 DEF Meet
  <2> QED BY <2>1, <2>2
<1>12. ASSUME NEW n \in objs
       PROVE  /\ idt[n] \in mors /\ idt[n][1] = n /\ idt[n][2] = n
              /\ idt[n][3] = A.id[n[1]] /\ idt[n][4] = B.id[n[3]]
  <2>1. /\ A.id[n[1]] \in A.mors /\ A.dom[A.id[n[1]]] = n[1] /\ A.cod[A.id[n[1]]] = n[1]
        /\ B.id[n[3]] \in B.mors /\ B.dom[B.id[n[3]]] = n[3] /\ B.cod[B.id[n[3]]] = n[3]
    BY <1>2, <1>7, Units
  <2>2. G.mor[B.id[n[3]]] = E.id[E.cod[n[2]]] /\ F.mor[A.id[n[1]]] = E.id[E.dom[n[2]]]
    BY <1>2, <1>8
  <2>3. o(E, E.id[E.cod[n[2]]], n[2]) = n[2] /\ o(E, n[2], E.id[E.dom[n[2]]]) = n[2]
    BY <1>2, <1>7, Units
  <2>4. <<n, n, A.id[n[1]], B.id[n[3]]>> \in mors
    BY <1>3, <2>1, <2>2, <2>3
  <2>5. idt[n] = <<n, n, A.id[n[1]], B.id[n[3]]>>
    BY <1>6
  <2> QED BY <2>4, <2>5
<1>13. ASSUME NEW g \in mors, NEW f \in mors, f[2] = g[1]
       PROVE  /\ Meet(A, g[3], f[3]) /\ Meet(B, g[4], f[4])
              /\ compt[<<g, f>>] \in mors
              /\ compt[<<g, f>>][1] = f[1] /\ compt[<<g, f>>][2] = g[2]
              /\ compt[<<g, f>>][3] = o(A, g[3], f[3])
              /\ compt[<<g, f>>][4] = o(B, g[4], f[4])
  <2> DEFINE u == o(A, g[3], f[3]) v == o(B, g[4], f[4])
             gu == F.mor[g[3]] fu == F.mor[f[3]] gv == G.mor[g[4]] fv == G.mor[f[4]]
             x == f[1][2] y == f[2][2] z == g[2][2]
  <2>1. Meet(A, g[3], f[3]) /\ Meet(B, g[4], f[4])
    BY <1>4, <1>11, <1>13 DEF Meet
  <2>2. /\ u \in A.mors /\ A.dom[u] = f[1][1] /\ A.cod[u] = g[2][1]
        /\ v \in B.mors /\ B.dom[v] = f[1][3] /\ B.cod[v] = g[2][3]
    BY <1>7, <1>11, <2>1, Composes
  <2>3. F.mor[u] = o(E, gu, fu) /\ G.mor[v] = o(E, gv, fv)
    BY <1>9, <1>10, <2>1
  <2>4. /\ o(E, fv, x) = o(E, y, fu) /\ Meet(E, fv, x) /\ Meet(E, y, fu)
        /\ o(E, gv, y) = o(E, z, gu) /\ Meet(E, gv, y) /\ Meet(E, z, gu)
    BY <1>11, <1>13
  <2>5. Meet(E, gu, fu) /\ Meet(E, gv, fv)
    BY <1>8, <2>1 DEF Meet
  <2> HIDE DEF u, v, gu, fu, gv, fv, x, y, z
  <2>6. o(E, o(E, gv, fv), x) = o(E, gv, o(E, fv, x))
    BY <1>7, <2>4, <2>5, Associates
  <2>7. o(E, gv, o(E, y, fu)) = o(E, o(E, gv, y), fu)
    BY <1>7, <2>4, <2>5, Associates
  <2>8. o(E, o(E, z, gu), fu) = o(E, z, o(E, gu, fu))
    BY <1>7, <2>4, <2>5, Associates
  <2>9. o(E, G.mor[v], x) = o(E, z, F.mor[u])
    BY <2>3, <2>4, <2>6, <2>7, <2>8
  <2>10. <<f[1], g[2], u, v>> \in mors
    BY <1>3, <1>4, <2>2, <2>9 DEF x, z
  <2>11. compt[<<g, f>>] = <<f[1], g[2], u, v>>
    BY <1>5, <1>13 DEF u, v
  <2> QED BY <2>1, <2>10, <2>11 DEF u, v
<1>14. ASSUME NEW f \in mors
       PROVE  compt[<<idt[f[2]], f>>] = f /\ compt[<<f, idt[f[1]]>>] = f
  <2>1. /\ f[1] \in objs /\ f[2] \in objs /\ f[3] \in A.mors /\ f[4] \in B.mors
        /\ f = <<f[1], f[2], f[3], f[4]>>
    BY <1>4
  <2>2. /\ f[1][1] = A.dom[f[3]] /\ f[1][3] = B.dom[f[4]]
        /\ f[2][1] = A.cod[f[3]] /\ f[2][3] = B.cod[f[4]]
    BY <1>11
  <2>3. /\ o(A, A.id[A.cod[f[3]]], f[3]) = f[3] /\ o(A, f[3], A.id[A.dom[f[3]]]) = f[3]
        /\ o(B, B.id[B.cod[f[4]]], f[4]) = f[4] /\ o(B, f[4], B.id[B.dom[f[4]]]) = f[4]
    BY <1>7, <2>1, Units
  <2>4. /\ idt[f[2]] \in mors /\ idt[f[2]][1] = f[2] /\ idt[f[2]][2] = f[2]
        /\ idt[f[2]][3] = A.id[A.cod[f[3]]] /\ idt[f[2]][4] = B.id[B.cod[f[4]]]
        /\ idt[f[1]] \in mors /\ idt[f[1]][1] = f[1] /\ idt[f[1]][2] = f[1]
        /\ idt[f[1]][3] = A.id[A.dom[f[3]]] /\ idt[f[1]][4] = B.id[B.dom[f[4]]]
    BY <1>12, <2>1, <2>2
  <2>5. compt[<<idt[f[2]], f>>] = <<f[1], f[2], f[3], f[4]>>
    BY <1>5, <2>3, <2>4
  <2>6. compt[<<f, idt[f[1]]>>] = <<f[1], f[2], f[3], f[4]>>
    BY <1>5, <2>3, <2>4
  <2> QED BY <2>1, <2>5, <2>6
<1>15. ASSUME NEW h \in mors, NEW g \in mors, NEW f \in mors, f[2] = g[1], g[2] = h[1]
       PROVE  compt[<<compt[<<h, g>>], f>>] = compt[<<h, compt[<<g, f>>]>>]
  <2>1. /\ Meet(A, h[3], g[3]) /\ Meet(B, h[4], g[4]) /\ compt[<<h, g>>] \in mors
        /\ compt[<<h, g>>][1] = g[1] /\ compt[<<h, g>>][2] = h[2]
        /\ compt[<<h, g>>][3] = o(A, h[3], g[3]) /\ compt[<<h, g>>][4] = o(B, h[4], g[4])
    BY <1>13, <1>15
  <2>2. /\ Meet(A, g[3], f[3]) /\ Meet(B, g[4], f[4]) /\ compt[<<g, f>>] \in mors
        /\ compt[<<g, f>>][1] = f[1] /\ compt[<<g, f>>][2] = g[2]
        /\ compt[<<g, f>>][3] = o(A, g[3], f[3]) /\ compt[<<g, f>>][4] = o(B, g[4], f[4])
    BY <1>13, <1>15
  <2>3. /\ o(A, o(A, h[3], g[3]), f[3]) = o(A, h[3], o(A, g[3], f[3]))
        /\ o(B, o(B, h[4], g[4]), f[4]) = o(B, h[4], o(B, g[4], f[4]))
    BY <1>7, <2>1, <2>2, Associates
  <2>4. compt[<<compt[<<h, g>>], f>>] =
        <<f[1], h[2], o(A, o(A, h[3], g[3]), f[3]), o(B, o(B, h[4], g[4]), f[4])>>
    BY <1>5, <1>15, <2>1
  <2>5. compt[<<h, compt[<<g, f>>]>>] =
        <<f[1], h[2], o(A, h[3], o(A, g[3], f[3])), o(B, h[4], o(B, g[4], f[4]))>>
    BY <1>5, <1>15, <2>2
  <2> QED BY <2>3, <2>4, <2>5
<1>16. Tables(D, objs, mors, idt, compt)
  BY <1>1, <1>12, <1>13, <1>14, <1>15 DEF Tables
<1> QED BY <1>16, TablesLawful DEF D

\* The arrow category is a category.
LEMMA ArrowLawful ==
    ASSUME NEW C, IsCategory(C)
    PROVE  Lawful(ArrowCat(C))
<1>1. /\ Functor(IdentityFunctor(C))
      /\ IdentityFunctor(C).src = C /\ IdentityFunctor(C).tgt = C
  BY IdentityIsFunctor
<1> QED BY <1>1, CommaLawful DEF ArrowCat

---------------------------------------------------------------------------
(* The builder.                                                            *)

\* The elements of a sequence, and a sequence over a larger set.
LEMMA SeqElement ==
    ASSUME NEW S, NEW s \in Seq(S), NEW i \in DOMAIN s
    PROVE  s[i] \in S
OBVIOUS

\* A sequence over a set is one over a larger set.
LEMMA SeqWidens ==
    ASSUME NEW S, NEW T, S \subseteq T, NEW s \in Seq(S)
    PROVE  s \in Seq(T)
<1>1. Len(s) \in Nat /\ s \in [1 .. Len(s) -> T]
  OBVIOUS
<1> QED BY <1>1

\* The references a builder holds.
LEMMA BuilderParts ==
    ASSUME NEW b, BuilderTyped(b)
    PROVE  /\ Len(b.ident) \in Nat /\ Objects(b) = 1 .. Len(b.ident)
           /\ Len(b.mors) \in Nat /\ Morphisms(b) = 1 .. Len(b.mors)
           /\ Len(b.comps) \in Nat /\ DOMAIN b.comps = 1 .. Len(b.comps)
           /\ \A m \in Morphisms(b) : /\ b.mors[m].dom \in Objects(b)
                                      /\ b.mors[m].cod \in Objects(b)
           /\ \A i \in DOMAIN b.comps : /\ b.comps[i].g \in Morphisms(b)
                                        /\ b.comps[i].f \in Morphisms(b)
                                        /\ b.comps[i].r \in Morphisms(b)
           /\ b.ident \in [Objects(b) -> {Sentinel} \cup Morphisms(b)]
<1>1. /\ b.ident \in Seq({Sentinel} \cup Morphisms(b))
      /\ b.mors \in Seq([dom : Objects(b), cod : Objects(b)])
      /\ b.comps \in Seq([g : Morphisms(b), f : Morphisms(b), r : Morphisms(b)])
  BY DEF BuilderTyped
<1> DEFINE ident == b.ident mors == b.mors comps == b.comps Obs == Objects(b) Ms == Morphisms(b)
<1>2. Obs = DOMAIN ident /\ Ms = DOMAIN mors
  BY DEF Objects, Morphisms
<1> HIDE DEF ident, mors, comps, Obs, Ms
<1>3. /\ ident \in Seq({Sentinel} \cup Ms) /\ mors \in Seq([dom : Obs, cod : Obs])
      /\ comps \in Seq([g : Ms, f : Ms, r : Ms])
  BY <1>1 DEF ident, mors, comps, Obs, Ms
<1>4. /\ Len(ident) \in Nat /\ Len(mors) \in Nat /\ Len(comps) \in Nat
      /\ Obs = 1 .. Len(ident) /\ Ms = 1 .. Len(mors) /\ DOMAIN comps = 1 .. Len(comps)
  BY <1>2, <1>3
<1>5. \A m \in Ms : mors[m] \in [dom : Obs, cod : Obs]
  <2> DEFINE R == [dom : Obs, cod : Obs]
  <2>1. mors \in Seq(R)
    BY <1>3
  <2> HIDE DEF R
  <2>2. \A m \in DOMAIN mors : mors[m] \in R
    BY <2>1, SeqElement
  <2> QED BY <1>2, <2>2 DEF R
<1>6. \A i \in DOMAIN comps : comps[i] \in [g : Ms, f : Ms, r : Ms]
  <2> DEFINE R == [g : Ms, f : Ms, r : Ms]
  <2>1. comps \in Seq(R)
    BY <1>3
  <2> HIDE DEF R
  <2>2. \A i \in DOMAIN comps : comps[i] \in R
    BY <2>1, SeqElement
  <2> QED BY <2>2 DEF R
<1>7. ident \in [Obs -> {Sentinel} \cup Ms]
  BY <1>2, <1>3
<1> QED BY <1>4, <1>5, <1>6, <1>7 DEF ident, mors, comps, Obs, Ms

\* What fills a builder keeps its references.
LEMMA FillTyped ==
    ASSUME NEW b, BuilderTyped(b)
    PROVE  /\ BuilderTyped(AddObject(b))
           /\ \A d, c \in Objects(b) : BuilderTyped(AddMorphism(b, d, c))
           /\ \A x \in Objects(b), m \in Morphisms(b) : BuilderTyped(SetIdentity(b, x, m))
           /\ \A g, f, r \in Morphisms(b) : BuilderTyped(SetComposition(b, g, f, r))
<1> DEFINE ident == b.ident mors == b.mors comps == b.comps Obs == DOMAIN ident Ms == DOMAIN mors
<1>1. /\ b = [ident |-> ident, mors |-> mors, comps |-> comps]
      /\ ident \in Seq({Sentinel} \cup Ms) /\ mors \in Seq([dom : Obs, cod : Obs])
      /\ comps \in Seq([g : Ms, f : Ms, r : Ms])
  BY DEF BuilderTyped, Objects, Morphisms
<1>2. ASSUME NEW b2, NEW i2, NEW m2, NEW c2, b2 = [ident |-> i2, mors |-> m2, comps |-> c2],
             i2 \in Seq({Sentinel} \cup DOMAIN m2),
             m2 \in Seq([dom : DOMAIN i2, cod : DOMAIN i2]),
             c2 \in Seq([g : DOMAIN m2, f : DOMAIN m2, r : DOMAIN m2])
      PROVE  BuilderTyped(b2)
  <2>1. b2.ident = i2 /\ b2.mors = m2 /\ b2.comps = c2
    BY <1>2
  <2> QED BY <1>2, <2>1 DEF BuilderTyped, Objects, Morphisms
<1>3. Objects(b) = Obs /\ Morphisms(b) = Ms
  BY DEF Objects, Morphisms
<1> HIDE DEF ident, mors, comps
<1>4. BuilderTyped(AddObject(b))
  <2> DEFINE i2 == Append(ident, Sentinel)
  <2>1. AddObject(b) = [ident |-> i2, mors |-> mors, comps |-> comps]
    <3>1. AddObject(b) = [b EXCEPT !.ident = i2]
      BY DEF AddObject, ident
    <3> HIDE DEF i2
    <3> QED BY <1>1, <3>1
  <2>2. i2 \in Seq({Sentinel} \cup Ms) /\ Obs \subseteq DOMAIN i2
    BY <1>1
  <2> HIDE DEF i2
  <2>3. mors \in Seq([dom : DOMAIN i2, cod : DOMAIN i2])
    <3>1. [dom : Obs, cod : Obs] \subseteq [dom : DOMAIN i2, cod : DOMAIN i2]
      BY <2>2
    <3> QED BY <1>1, <3>1, SeqWidens
  <2> QED BY <1>1, <1>2, <2>1, <2>2, <2>3
<1>5. ASSUME NEW d \in Objects(b), NEW c \in Objects(b)
      PROVE  BuilderTyped(AddMorphism(b, d, c))
  <2> DEFINE m2 == Append(mors, [dom |-> d, cod |-> c])
  <2>1. AddMorphism(b, d, c) = [ident |-> ident, mors |-> m2, comps |-> comps]
    <3>1. AddMorphism(b, d, c) = [b EXCEPT !.mors = m2]
      BY DEF AddMorphism, mors
    <3> HIDE DEF m2
    <3> QED BY <1>1, <3>1
  <2>2. m2 \in Seq([dom : Obs, cod : Obs]) /\ Ms \subseteq DOMAIN m2
    BY <1>1, <1>3
  <2> HIDE DEF m2
  <2>3. ident \in Seq({Sentinel} \cup DOMAIN m2)
    <3>1. {Sentinel} \cup Ms \subseteq {Sentinel} \cup DOMAIN m2
      BY <2>2
    <3> QED BY <1>1, <3>1, SeqWidens
  <2>4. comps \in Seq([g : DOMAIN m2, f : DOMAIN m2, r : DOMAIN m2])
    <3>1. [g : Ms, f : Ms, r : Ms] \subseteq [g : DOMAIN m2, f : DOMAIN m2, r : DOMAIN m2]
      BY <2>2
    <3> QED BY <1>1, <3>1, SeqWidens
  <2> QED BY <1>2, <2>1, <2>2, <2>3, <2>4
<1>6. ASSUME NEW x \in Objects(b), NEW m \in Morphisms(b)
      PROVE  BuilderTyped(SetIdentity(b, x, m))
  <2> DEFINE i2 == [ident EXCEPT ![x] = m]
  <2>1. SetIdentity(b, x, m) = [ident |-> i2, mors |-> mors, comps |-> comps]
    <3>1. SetIdentity(b, x, m) = [b EXCEPT !.ident = i2]
      BY DEF SetIdentity, ident
    <3> HIDE DEF i2
    <3> QED BY <1>1, <3>1
  <2>2. i2 \in Seq({Sentinel} \cup Ms) /\ Obs = DOMAIN i2
    BY <1>1, <1>3
  <2> HIDE DEF i2
  <2>3. mors \in Seq([dom : DOMAIN i2, cod : DOMAIN i2])
    BY <1>1, <2>2
  <2> QED BY <1>1, <1>2, <2>1, <2>2, <2>3
<1>7. ASSUME NEW g \in Morphisms(b), NEW f \in Morphisms(b), NEW r \in Morphisms(b)
      PROVE  BuilderTyped(SetComposition(b, g, f, r))
  <2> DEFINE c2 == Append(comps, [g |-> g, f |-> f, r |-> r])
  <2>1. SetComposition(b, g, f, r) = [ident |-> ident, mors |-> mors, comps |-> c2]
    <3>1. SetComposition(b, g, f, r) = [b EXCEPT !.comps = c2]
      BY DEF SetComposition, comps
    <3> HIDE DEF c2
    <3> QED BY <1>1, <3>1
  <2>2. c2 \in Seq([g : Ms, f : Ms, r : Ms])
    BY <1>1, <1>3
  <2> HIDE DEF c2
  <2> QED BY <1>1, <1>2, <2>1, <2>2
<1> QED BY <1>4, <1>5, <1>6, <1>7

---------------------------------------------------------------------------
(* Look-ups.                                                               *)

\* The fields of a store.
LEMMA StoreFields ==
    ASSUME NEW b, BuilderTyped(b)
    PROVE  /\ Store(b).objs = Objects(b) /\ Store(b).mors = Morphisms(b)
           /\ \A m \in Morphisms(b) : /\ Store(b).dom[m] = b.mors[m].dom
                                      /\ Store(b).cod[m] = b.mors[m].cod
           /\ Store(b).dom \in [Morphisms(b) -> Objects(b)]
           /\ Store(b).cod \in [Morphisms(b) -> Objects(b)]
           /\ Store(b).id = b.ident /\ Store(b).comp = StoreComp(b)
           /\ Form(Store(b)) /\ Numbered(Store(b))
<1> DEFINE Obs == Objects(b) Ms == Morphisms(b) sc == StoreComp(b) C == Store(b)
           d == [m \in Ms |-> b.mors[m].dom] c == [m \in Ms |-> b.mors[m].cod]
<1>1. C = [objs |-> Obs, mors |-> Ms, dom |-> d, cod |-> c, id |-> b.ident, comp |-> sc]
  BY DEF Store
<1>2. /\ Obs = 1 .. Len(b.ident) /\ Len(b.ident) \in Nat
      /\ Ms = 1 .. Len(b.mors) /\ Len(b.mors) \in Nat
      /\ \A m \in Ms : b.mors[m].dom \in Obs /\ b.mors[m].cod \in Obs
  BY BuilderParts
<1>3. /\ \A m \in Ms : d[m] = b.mors[m].dom /\ c[m] = b.mors[m].cod
      /\ d \in [Ms -> Obs] /\ c \in [Ms -> Obs]
  BY <1>2
<1>4. IsFiniteSet(Obs) /\ IsFiniteSet(Ms) /\ Obs \subseteq Nat /\ Ms \subseteq Nat
  <2> HIDE DEF Obs, Ms
  <2>1. 1 \in Int /\ Len(b.ident) \in Int /\ Len(b.mors) \in Int
    BY <1>2
  <2>2. IsFiniteSet(1 .. Len(b.ident)) /\ IsFiniteSet(1 .. Len(b.mors))
    BY <2>1, FS_Interval
  <2> QED BY <1>2, <2>2
<1> HIDE DEF C, Obs, Ms, sc, d, c
<1>5. /\ C.objs = Obs /\ C.mors = Ms /\ C.dom = d /\ C.cod = c /\ C.id = b.ident /\ C.comp = sc
  BY <1>1
<1>6. Form(C) /\ Numbered(C)
  BY <1>1, <1>4, <1>5 DEF Form, Numbered
<1> QED BY <1>3, <1>5, <1>6 DEF C, Obs, Ms, sc

\* The rows of the builder's composition table for a pair are finitely many.
LEMMA RowsFinite ==
    ASSUME NEW b, BuilderTyped(b), NEW g, NEW f
    PROVE  /\ RowsOf(b, g, f) \subseteq DOMAIN b.comps
           /\ IsFiniteSet(RowsOf(b, g, f))
           /\ \A i \in RowsOf(b, g, f) : i \in Nat /\ b.comps[i].g = g /\ b.comps[i].f = f
<1>1. Len(b.comps) \in Nat /\ DOMAIN b.comps = 1 .. Len(b.comps)
  BY BuilderParts
<1>2. RowsOf(b, g, f) \in SUBSET (1 .. Len(b.comps))
  BY <1>1 DEF RowsOf
<1>3. 1 \in Int /\ Len(b.comps) \in Int
  BY <1>1
<1>4. IsFiniteSet(1 .. Len(b.comps))
  BY <1>3, FS_Interval
<1> QED BY <1>1, <1>2, <1>4, FS_Subset DEF RowsOf

\* With a single row the two look-ups of the backend agree.
LEMMA SingleRow ==
    ASSUME NEW b, BuilderTyped(b), NEW g, NEW f, NEW i, RowsOf(b, g, f) = {i}
    PROVE  /\ i \in DOMAIN b.comps /\ b.comps[i].g = g /\ b.comps[i].f = f
           /\ CompLookup(b, g, f) = b.comps[i].r
           /\ <<g, f>> \in DOMAIN StoreComp(b)
           /\ StoreComp(b)[<<g, f>>] = b.comps[i].r
<1>1. i \in Nat /\ i \in DOMAIN b.comps /\ b.comps[i].g = g /\ b.comps[i].f = f
  BY RowsFinite
<1>2. Max({i}) = i /\ Min({i}) = i
  BY <1>1 DEF Max, Min
<1>3. CompLookup(b, g, f) = b.comps[i].r
  BY <1>2 DEF CompLookup
<1>4. <<g, f>> \in {<<b.comps[j].g, b.comps[j].f>> : j \in DOMAIN b.comps}
  BY <1>1
<1>5. b.comps[Min(RowsOf(b, <<g, f>>[1], <<g, f>>[2]))].r = b.comps[i].r
  BY <1>2
<1> QED BY <1>1, <1>3, <1>4, <1>5 DEF StoreComp

\* A table without gaps or duplicates, of rows that join what meets.
Tabled(b) == CompRowsOk(b) /\ Complete(b)

\* Looking up a composable pair finds its only row.
LEMMA Looked ==
    ASSUME NEW b, BuilderTyped(b), Tabled(b),
           NEW g \in Morphisms(b), NEW f \in Morphisms(b), Composable(b, g, f)
    PROVE  /\ <<g, f>> \in DOMAIN StoreComp(b)
           /\ StoreComp(b)[<<g, f>>] = CompLookup(b, g, f)
           /\ CompLookup(b, g, f) \in Morphisms(b)
           /\ b.mors[CompLookup(b, g, f)].dom = b.mors[f].dom
           /\ b.mors[CompLookup(b, g, f)].cod = b.mors[g].cod
           /\ Cardinality(RowsOf(b, g, f)) = 1
<1>1. Cardinality(RowsOf(b, g, f)) = 1
  BY DEF Tabled, Complete
<1>2. PICK i : RowsOf(b, g, f) = {i}
  BY <1>1, RowsFinite, FS_Singleton
<1>3. /\ i \in DOMAIN b.comps /\ b.comps[i].g = g /\ b.comps[i].f = f
      /\ CompLookup(b, g, f) = b.comps[i].r
      /\ <<g, f>> \in DOMAIN StoreComp(b)
      /\ StoreComp(b)[<<g, f>>] = b.comps[i].r
  BY <1>2, SingleRow
<1>4. b.comps[i].r \in Morphisms(b)
  BY <1>3, BuilderParts
<1>5. b.mors[b.comps[i].r] = [dom |-> b.mors[f].dom, cod |-> b.mors[g].cod]
  BY <1>3 DEF Tabled, CompRowsOk
<1>6. b.mors[b.comps[i].r].dom = b.mors[f].dom /\ b.mors[b.comps[i].r].cod = b.mors[g].cod
  BY <1>5
<1> QED BY <1>1, <1>3, <1>4, <1>6

\* The stored composition table covers the composable pairs.
LEMMA StoreTable ==
    ASSUME NEW b, BuilderTyped(b), Tabled(b)
    PROVE  StoreComp(b) \in [Pairs(Store(b).mors, Store(b).dom, Store(b).cod) -> Store(b).mors]
<1> DEFINE C == Store(b) P == Pairs(C.mors, C.dom, C.cod)
<1>1. /\ C.mors = Morphisms(b)
      /\ \A m \in Morphisms(b) : C.dom[m] = b.mors[m].dom /\ C.cod[m] = b.mors[m].cod
  BY StoreFields
<1>2. ASSUME NEW p \in P
      PROVE  p \in DOMAIN StoreComp(b) /\ StoreComp(b)[p] \in C.mors
  <2>1. /\ p[1] \in Morphisms(b) /\ p[2] \in Morphisms(b) /\ p = <<p[1], p[2]>>
        /\ C.cod[p[2]] = C.dom[p[1]]
    BY <1>1 DEF Pairs
  <2>2. Composable(b, p[1], p[2])
    BY <1>1, <2>1 DEF Composable
  <2>3. /\ <<p[1], p[2]>> \in DOMAIN StoreComp(b)
        /\ StoreComp(b)[<<p[1], p[2]>>] \in Morphisms(b)
    BY <2>1, <2>2, Looked
  <2> QED BY <1>1, <2>1, <2>3
<1>3. ASSUME NEW p \in DOMAIN StoreComp(b)
      PROVE  p \in P
  <2>1. PICK i \in DOMAIN b.comps : p = <<b.comps[i].g, b.comps[i].f>>
    BY DEF StoreComp
  <2>2. Composable(b, b.comps[i].g, b.comps[i].f)
    BY DEF Tabled, CompRowsOk
  <2>3. b.comps[i].g \in Morphisms(b) /\ b.comps[i].f \in Morphisms(b)
    BY BuilderParts
  <2>4. p[1] = b.comps[i].g /\ p[2] = b.comps[i].f
    BY <2>1
  <2> QED BY <1>1, <2>1, <2>2, <2>3, <2>4 DEF Pairs, Composable
<1>4. StoreComp(b) = [p \in DOMAIN StoreComp(b) |-> StoreComp(b)[p]]
  BY DEF StoreComp
<1> HIDE DEF P
<1>5. DOMAIN StoreComp(b) = P
  BY <1>2, <1>3
<1> QED BY <1>2, <1>4, <1>5 DEF P

\* The category a validated builder becomes.
LEMMA ValidStore ==
    ASSUME NEW b, BuilderTyped(b), BuilderValid(b)
    PROVE  IsCategory(Store(b)) /\ Numbered(Store(b))
<1> DEFINE C == Store(b)
<1>1. Tabled(b)
  BY DEF BuilderValid, Tabled
<1>2. /\ C.objs = Objects(b) /\ C.mors = Morphisms(b)
      /\ \A m \in Morphisms(b) : C.dom[m] = b.mors[m].dom /\ C.cod[m] = b.mors[m].cod
      /\ C.dom \in [C.mors -> C.objs] /\ C.cod \in [C.mors -> C.objs]
      /\ C.id = b.ident /\ C.comp = StoreComp(b)
      /\ Form(C) /\ Numbered(C)
  BY StoreFields
<1>3. C.comp \in [Pairs(C.mors, C.dom, C.cod) -> C.mors]
  BY <1>1, <1>2, StoreTable
<1> HIDE DEF C
<1>4. \A x \in C.objs : /\ b.ident[x] \in Morphisms(b)
                        /\ b.mors[b.ident[x]].dom = x /\ b.mors[b.ident[x]].cod = x
  <2> SUFFICES ASSUME NEW x \in Objects(b)
               PROVE  /\ b.ident[x] \in Morphisms(b)
                      /\ b.mors[b.ident[x]].dom = x /\ b.mors[b.ident[x]].cod = x
    BY <1>2
  <2>1. b.ident[x] \in Morphisms(b) /\ b.mors[b.ident[x]] = [dom |-> x, cod |-> x]
    BY DEF BuilderValid, IdentRefsOk, IdentTypingOk
  <2> QED BY <2>1
<1>5. C.id \in [C.objs -> C.mors]
  BY <1>2, <1>4, BuilderParts
<1>6. \A x \in C.objs : C.id[x] \in C.mors /\ C.dom[C.id[x]] = x /\ C.cod[C.id[x]] = x
  BY <1>2, <1>4
<1>7. \A g, f \in C.mors :
         C.cod[f] = C.dom[g] =>
            /\ Composable(b, g, f)
            /\ C.comp[<<g, f>>] = CompLookup(b, g, f)
            /\ C.comp[<<g, f>>] \in C.mors
            /\ C.dom[C.comp[<<g, f>>]] = C.dom[f]
            /\ C.cod[C.comp[<<g, f>>]] = C.cod[g]
  <2> SUFFICES ASSUME NEW g \in C.mors, NEW f \in C.mors, C.cod[f] = C.dom[g]
               PROVE  /\ Composable(b, g, f)
                      /\ C.comp[<<g, f>>] = CompLookup(b, g, f)
                      /\ C.comp[<<g, f>>] \in C.mors
                      /\ C.dom[C.comp[<<g, f>>]] = C.dom[f]
                      /\ C.cod[C.comp[<<g, f>>]] = C.cod[g]
    OBVIOUS
  <2>1. Composable(b, g, f)
    BY <1>2 DEF Composable
  <2>2. /\ StoreComp(b)[<<g, f>>] = CompLookup(b, g, f)
        /\ CompLookup(b, g, f) \in Morphisms(b)
        /\ b.mors[CompLookup(b, g, f)].dom = b.mors[f].dom
        /\ b.mors[CompLookup(b, g, f)].cod = b.mors[g].cod
    BY <1>1, <1>2, <2>1, Looked
  <2> QED BY <1>2, <2>1, <2>2
<1>8. ASSUME NEW f \in C.mors
      PROVE  C.comp[<<C.id[C.cod[f]], f>>] = f /\ C.comp[<<f, C.id[C.dom[f]]>>] = f
  <2>1. /\ CompLookup(b, b.ident[b.mors[f].cod], f) = f
        /\ CompLookup(b, f, b.ident[b.mors[f].dom]) = f
    BY <1>2 DEF BuilderValid, IdentitiesOk
  <2>2. C.dom[f] \in C.objs /\ C.cod[f] \in C.objs
    BY <1>2
  <2>3. /\ C.comp[<<C.id[C.cod[f]], f>>] = CompLookup(b, C.id[C.cod[f]], f)
        /\ C.comp[<<f, C.id[C.dom[f]]>>] = CompLookup(b, f, C.id[C.dom[f]])
    BY <1>6, <1>7, <2>2
  <2> QED BY <1>2, <2>1, <2>3
<1>9. ASSUME NEW t \in Triples(C)
      PROVE  C.comp[<<C.comp[<<t[1], t[2]>>], t[3]>>] = C.comp[<<t[1], C.comp[<<t[2], t[3]>>]>>]
  <2> DEFINE h == t[1] g == t[2] f == t[3]
  <2>1. /\ h \in C.mors /\ g \in C.mors /\ f \in C.mors
        /\ C.cod[f] = C.dom[g] /\ C.cod[g] = C.dom[h]
    BY DEF Triples
  <2> HIDE DEF h, g, f
  <2>2. /\ Composable(b, g, f) /\ Composable(b, h, g)
        /\ C.comp[<<g, f>>] = CompLookup(b, g, f) /\ C.comp[<<h, g>>] = CompLookup(b, h, g)
        /\ C.comp[<<C.comp[<<h, g>>], f>>] = CompLookup(b, C.comp[<<h, g>>], f)
        /\ C.comp[<<h, C.comp[<<g, f>>]>>] = CompLookup(b, h, C.comp[<<g, f>>])
    BY <1>7, <2>1
  <2>3. CompLookup(b, CompLookup(b, h, g), f) = CompLookup(b, h, CompLookup(b, g, f))
    BY <1>2, <2>1, <2>2 DEF BuilderValid, Associative
  <2> QED BY <2>2, <2>3 DEF h, g, f
<1>10. Lawful(C)
  BY <1>6, <1>7, <1>8, <1>9 DEF Lawful
<1> QED BY <1>2, <1>3, <1>5, <1>10 DEF IsCategory, C

---------------------------------------------------------------------------
(* The sweep.                                                              *)

\* The answer of a check that found no fault.
Clean == [st |-> "ok", clean |-> TRUE]

\* Both sides of a law are composed, to the same morphism.
Holds(p) == p[1].st = "ok" /\ p[2].st = "ok" /\ p[1] = p[2]

\* The exhaustive check is clean exactly when every case holds.
LEMMA CleanMeans ==
    ASSUME NEW C
    PROVE  CheckExhaustive(C) = Clean <=>
             \A p \in IdentityCases(C) \cup AssociativityCases(C) : Holds(p)
<1> DEFINE cases == IdentityCases(C) \cup AssociativityCases(C)
           ok == \A p \in cases : p[1].st = "ok" /\ p[2].st = "ok"
           same == \A p \in cases : p[1] = p[2]
<1>1. CheckExhaustive(C) = [st |-> IF ok THEN "ok" ELSE "error", clean |-> same]
  BY DEF CheckExhaustive
<1>2. (\A p \in cases : Holds(p)) <=> ok /\ same
  BY DEF Holds
<1>3. same \in BOOLEAN
  OBVIOUS
<1> HIDE DEF ok, same
<1>4. CheckExhaustive(C) = Clean <=> ok /\ same
  <2>1. CASE ok /\ same
    BY <1>1, <2>1 DEF Clean
  <2>2. CASE ~ok
    <3>1. CheckExhaustive(C).st = "error" /\ Clean.st = "ok"
      BY <1>1, <2>2 DEF Clean
    <3> QED BY <2>2, <3>1
  <2>3. CASE ~same
    <3>1. CheckExhaustive(C).clean = same /\ Clean.clean = TRUE
      BY <1>1 DEF Clean
    <3> QED BY <2>3, <3>1
  <2> QED BY <2>1, <2>2, <2>3
<1> QED BY <1>2, <1>4

\* What the sweep compares, of a morphism and of a triple.
LeftUnit(C, f) == <<Compose(C, C.id[C.cod[f]], f), [st |-> "ok", mor |-> f]>>
\* The right unit case of arrow f.
RightUnit(C, f) == <<Compose(C, f, C.id[C.dom[f]]), [st |-> "ok", mor |-> f]>>
\* The associativity case of three arrows.
Nesting(C, h, g, f) ==
    <<ComposeLeft(C, Compose(C, h, g), f), ComposeRight(C, h, Compose(C, g, f))>>

\* The cases of the check are the unit and associativity cases.
LEMMA CasesAre ==
    ASSUME NEW C
    PROVE  (\A p \in IdentityCases(C) \cup AssociativityCases(C) : Holds(p)) <=>
             /\ \A f \in C.mors : Holds(LeftUnit(C, f)) /\ Holds(RightUnit(C, f))
             /\ \A t \in Triples(C) : Holds(Nesting(C, t[1], t[2], t[3]))
<1>1. IdentityCases(C) = {LeftUnit(C, f) : f \in C.mors} \cup {RightUnit(C, f) : f \in C.mors}
  BY DEF IdentityCases, LeftUnit, RightUnit
<1>2. AssociativityCases(C) = {Nesting(C, t[1], t[2], t[3]) : t \in Triples(C)}
  BY DEF AssociativityCases, Nesting
<1> QED BY <1>1, <1>2

\* A case whose two composites exist holds when they are the same.
LEMMA OkPair ==
    ASSUME NEW m, NEW n
    PROVE  Holds(<<[st |-> "ok", mor |-> m], [st |-> "ok", mor |-> n]>>) <=> m = n
<1> DEFINE x == [st |-> "ok", mor |-> m] y == [st |-> "ok", mor |-> n]
<1>1. x.st = "ok" /\ y.st = "ok" /\ x.mor = m /\ y.mor = n /\ (m = n => x = y)
  OBVIOUS
<1> HIDE DEF x, y
<1>2. <<x, y>>[1] = x /\ <<x, y>>[2] = y
  OBVIOUS
<1>3. Holds(<<x, y>>) <=> m = n
  BY <1>1, <1>2 DEF Holds
<1> QED BY <1>3 DEF x, y

\* A category passes the sweep.
LEMMA SweepPasses ==
    ASSUME NEW C, IsCategory(C)
    PROVE  CheckExhaustive(C) = Clean
<1>1. ASSUME NEW f \in C.mors
      PROVE  Holds(LeftUnit(C, f)) /\ Holds(RightUnit(C, f))
  <2>1. /\ Meet(C, C.id[C.cod[f]], f) /\ Meet(C, f, C.id[C.dom[f]])
        /\ o(C, C.id[C.cod[f]], f) = f /\ o(C, f, C.id[C.dom[f]]) = f
    BY Units DEF Meet
  <2>2. /\ Compose(C, C.id[C.cod[f]], f) = [st |-> "ok", mor |-> f]
        /\ Compose(C, f, C.id[C.dom[f]]) = [st |-> "ok", mor |-> f]
    BY <2>1, ComposeOk
  <2> QED BY <2>2, OkPair DEF LeftUnit, RightUnit
<1>2. ASSUME NEW t \in Triples(C)
      PROVE  Holds(Nesting(C, t[1], t[2], t[3]))
  <2> DEFINE h == t[1] g == t[2] f == t[3]
  <2>1. Meet(C, h, g) /\ Meet(C, g, f)
    BY DEF Triples, Meet
  <2> HIDE DEF h, g, f
  <2>2. /\ o(C, o(C, h, g), f) = o(C, h, o(C, g, f))
        /\ Meet(C, o(C, h, g), f) /\ Meet(C, h, o(C, g, f))
    BY <2>1, Associates
  <2>3. /\ Compose(C, h, g) = [st |-> "ok", mor |-> o(C, h, g)]
        /\ Compose(C, g, f) = [st |-> "ok", mor |-> o(C, g, f)]
        /\ Compose(C, o(C, h, g), f) = [st |-> "ok", mor |-> o(C, o(C, h, g), f)]
        /\ Compose(C, h, o(C, g, f)) = [st |-> "ok", mor |-> o(C, h, o(C, g, f))]
    BY <2>1, <2>2, ComposeOk
  <2>4. /\ ComposeLeft(C, Compose(C, h, g), f) = [st |-> "ok", mor |-> o(C, o(C, h, g), f)]
        /\ ComposeRight(C, h, Compose(C, g, f)) = [st |-> "ok", mor |-> o(C, h, o(C, g, f))]
    BY <2>3 DEF ComposeLeft, ComposeRight
  <2>5. Holds(Nesting(C, h, g, f))
    BY <2>2, <2>4, OkPair DEF Nesting
  <2> QED BY <2>5 DEF h, g, f
<1> QED BY <1>1, <1>2, CasesAre, CleanMeans

\* As many rows as composites in the store: no pair has two rows.
LEMMA NoDuplicates ==
    ASSUME NEW b, BuilderTyped(b), Cardinality(DOMAIN StoreComp(b)) = Len(b.comps)
    PROVE  \A i, j \in DOMAIN b.comps :
              b.comps[i].g = b.comps[j].g /\ b.comps[i].f = b.comps[j].f => i = j
<1> DEFINE n == Len(b.comps) S == 1 .. n
           T == DOMAIN StoreComp(b) h == [i \in S |-> <<b.comps[i].g, b.comps[i].f>>]
<1>1. n \in Nat /\ DOMAIN b.comps = S
  BY BuilderParts
<1>2. T = {<<b.comps[i].g, b.comps[i].f>> : i \in S}
  BY <1>1 DEF StoreComp
<1>3. h \in [S -> T] /\ \A t \in T : \E i \in S : h[i] = t
  BY <1>2
<1>h. \A i \in S : h[i] = <<b.comps[i].g, b.comps[i].f>>
  OBVIOUS
<1> HIDE DEF T, h
<1>4. h \in Surjection(S, T)
  BY <1>3 DEF Surjection
<1>5. IsFiniteSet(S) /\ Cardinality(S) = n
  <2> HIDE DEF n
  <2>1. 1 \in Int /\ n \in Int
    BY <1>1
  <2>2. IsFiniteSet(1 .. n) /\ Cardinality(1 .. n) = IF 1 > n THEN 0 ELSE n - 1 + 1
    BY <2>1, FS_Interval
  <2> QED BY <1>1, <2>2
<1>6. Cardinality(T) = Cardinality(S)
  BY <1>5 DEF T
<1> HIDE DEF S
<1>7. h \in Injection(S, T)
  BY <1>4, <1>5, <1>6, FS_Surjection
<1> QED BY <1>1, <1>7, <1>h DEF Injection, IsInjective

\* A validated table has as many rows as composites.
LEMMA RowsCounted ==
    ASSUME NEW b, BuilderTyped(b), Tabled(b)
    PROVE  Cardinality(DOMAIN StoreComp(b)) = Len(b.comps)
<1> DEFINE n == Len(b.comps) S == 1 .. n
           T == DOMAIN StoreComp(b) h == [i \in S |-> <<b.comps[i].g, b.comps[i].f>>]
<1>1. n \in Nat /\ DOMAIN b.comps = S
  BY BuilderParts
<1>2. T = {<<b.comps[i].g, b.comps[i].f>> : i \in S}
  BY <1>1 DEF StoreComp
<1>3. h \in [S -> T] /\ \A t \in T : \E i \in S : h[i] = t
  BY <1>2
<1>h. \A i \in S : h[i] = <<b.comps[i].g, b.comps[i].f>>
  OBVIOUS
<1>4. ASSUME NEW i \in S, NEW j \in S, h[i] = h[j]
      PROVE  i = j
  <2> DEFINE g == b.comps[i].g f == b.comps[i].f
  <2>1. b.comps[j].g = g /\ b.comps[j].f = f
    BY <1>4, <1>h
  <2>2. g \in Morphisms(b) /\ f \in Morphisms(b) /\ Composable(b, g, f)
    BY <1>1, BuilderParts DEF Tabled, CompRowsOk
  <2>3. i \in RowsOf(b, g, f) /\ j \in RowsOf(b, g, f)
    BY <1>1, <2>1 DEF RowsOf
  <2> HIDE DEF g, f
  <2>4. Cardinality(RowsOf(b, g, f)) = 1
    BY <2>2 DEF Tabled, Complete
  <2>5. PICK k : RowsOf(b, g, f) = {k}
    BY <2>4, RowsFinite, FS_Singleton
  <2> QED BY <2>3, <2>5
<1> HIDE DEF T, h
<1>5. h \in Surjection(S, T) /\ h \in Injection(S, T)
  BY <1>3, <1>4 DEF Surjection, Injection, IsInjective
<1>6. IsFiniteSet(S) /\ Cardinality(S) = n
  <2> HIDE DEF n
  <2>1. 1 \in Int /\ n \in Int
    BY <1>1
  <2>2. IsFiniteSet(1 .. n) /\ Cardinality(1 .. n) = IF 1 > n THEN 0 ELSE n - 1 + 1
    BY <2>1, FS_Interval
  <2> QED BY <1>1, <2>2
<1> HIDE DEF S
<1>7. Cardinality(T) = Cardinality(S)
  BY <1>5, <1>6, FS_Surjection
<1> QED BY <1>6, <1>7 DEF T

\* A store that passes the sweep, from typed rows without duplicates, comes
\* from a builder that validation accepts.
LEMMA SweepValidates ==
    ASSUME NEW b, BuilderTyped(b), IdentRefsOk(b), CheckExhaustive(Store(b)) = Clean,
           IdentTypingOk(b), CompRowsOk(b),
           Cardinality(DOMAIN StoreComp(b)) = Len(b.comps)
    PROVE  BuilderValid(b)
<1> DEFINE C == Store(b)
<1>1. /\ C.objs = Objects(b) /\ C.mors = Morphisms(b)
      /\ \A m \in Morphisms(b) : C.dom[m] = b.mors[m].dom /\ C.cod[m] = b.mors[m].cod
      /\ C.id = b.ident /\ C.comp = StoreComp(b)
  BY StoreFields
<1>2. /\ \A f \in C.mors : Holds(LeftUnit(C, f)) /\ Holds(RightUnit(C, f))
      /\ \A t \in Triples(C) : Holds(Nesting(C, t[1], t[2], t[3]))
  BY CasesAre, CleanMeans
<1> HIDE DEF C
<1>n. ASSUME NEW h \in C.mors, NEW g \in C.mors, NEW f \in C.mors,
             C.cod[f] = C.dom[g], C.cod[g] = C.dom[h]
      PROVE  Holds(Nesting(C, h, g, f))
  <2>1. /\ <<h, g, f>> \in Triples(C)
        /\ <<h, g, f>>[1] = h /\ <<h, g, f>>[2] = g /\ <<h, g, f>>[3] = f
    BY <1>n DEF Triples
  <2>2. Holds(Nesting(C, <<h, g, f>>[1], <<h, g, f>>[2], <<h, g, f>>[3]))
    BY <1>2, <2>1
  <2> QED BY <2>1, <2>2
<1>u. ASSUME NEW x \in Objects(b)
      PROVE  /\ b.ident[x] \in Morphisms(b)
             /\ b.mors[b.ident[x]].dom = x /\ b.mors[b.ident[x]].cod = x
  <2>1. b.ident[x] \in Morphisms(b) /\ b.mors[b.ident[x]] = [dom |-> x, cod |-> x]
    BY DEF IdentRefsOk, IdentTypingOk
  <2> QED BY <2>1
<1>e. \A m \in Morphisms(b) : b.mors[m].dom \in Objects(b) /\ b.mors[m].cod \in Objects(b)
  BY BuilderParts
<1>3. ASSUME NEW g \in Morphisms(b), NEW f \in Morphisms(b), Composable(b, g, f)
      PROVE  Cardinality(RowsOf(b, g, f)) = 1
  <2> DEFINE e == b.ident[b.mors[f].dom]
  <2>1. e \in C.mors /\ C.cod[e] = C.dom[f] /\ C.cod[f] = C.dom[g]
    BY <1>1, <1>3, <1>u, <1>e DEF Composable
  <2> HIDE DEF e
  <2>2. Holds(Nesting(C, g, f, e))
    BY <1>1, <1>n, <2>1
  <2>3. ComposeLeft(C, Compose(C, g, f), e).st = "ok"
    BY <2>2 DEF Holds, Nesting
  <2>4. Compose(C, g, f).st = "ok"
    BY <2>3 DEF ComposeLeft
  <2>5. <<g, f>> \in DOMAIN C.comp
    BY <2>1, <2>4 DEF Compose
  <2>6. PICK i \in DOMAIN b.comps : <<g, f>> = <<b.comps[i].g, b.comps[i].f>>
    BY <1>1, <2>5 DEF StoreComp
  <2>7. b.comps[i].g = g /\ b.comps[i].f = f
    BY <2>6
  <2>8. RowsOf(b, g, f) = {i}
    BY <2>7, NoDuplicates DEF RowsOf
  <2> QED BY <2>8, FS_Singleton, RowsFinite
<1>4. Tabled(b)
  BY <1>3 DEF Tabled, Complete
<1>5. ASSUME NEW g \in Morphisms(b), NEW f \in Morphisms(b), Composable(b, g, f)
      PROVE  /\ Compose(C, g, f) = [st |-> "ok", mor |-> CompLookup(b, g, f)]
             /\ CompLookup(b, g, f) \in Morphisms(b)
             /\ b.mors[CompLookup(b, g, f)].dom = b.mors[f].dom
             /\ b.mors[CompLookup(b, g, f)].cod = b.mors[g].cod
             /\ Cardinality(RowsOf(b, g, f)) = 1
  <2>1. /\ <<g, f>> \in DOMAIN StoreComp(b)
        /\ StoreComp(b)[<<g, f>>] = CompLookup(b, g, f)
        /\ CompLookup(b, g, f) \in Morphisms(b)
        /\ b.mors[CompLookup(b, g, f)].dom = b.mors[f].dom
        /\ b.mors[CompLookup(b, g, f)].cod = b.mors[g].cod
        /\ Cardinality(RowsOf(b, g, f)) = 1
    BY <1>4, <1>5, Looked
  <2>2. C.cod[f] = C.dom[g]
    BY <1>1, <1>5 DEF Composable
  <2>3. Compose(C, g, f) = [st |-> "ok", mor |-> CompLookup(b, g, f)]
    BY <1>1, <2>1, <2>2 DEF Compose
  <2> QED BY <2>1, <2>3
<1>6. ASSUME NEW f \in Morphisms(b), NEW g \in Morphisms(b), NEW h \in Morphisms(b),
             Composable(b, g, f), Composable(b, h, g)
      PROVE  CompLookup(b, CompLookup(b, h, g), f) = CompLookup(b, h, CompLookup(b, g, f))
  <2> DEFINE hg == CompLookup(b, h, g) gf == CompLookup(b, g, f)
  <2>1. /\ Compose(C, h, g) = [st |-> "ok", mor |-> hg]
        /\ Compose(C, g, f) = [st |-> "ok", mor |-> gf]
        /\ hg \in Morphisms(b) /\ b.mors[hg].dom = b.mors[g].dom
        /\ gf \in Morphisms(b) /\ b.mors[gf].cod = b.mors[g].cod
    BY <1>5, <1>6
  <2> HIDE DEF hg, gf
  <2>2. Composable(b, hg, f) /\ Composable(b, h, gf)
    BY <1>6, <2>1 DEF Composable
  <2>3. /\ Compose(C, hg, f) = [st |-> "ok", mor |-> CompLookup(b, hg, f)]
        /\ Compose(C, h, gf) = [st |-> "ok", mor |-> CompLookup(b, h, gf)]
    BY <1>5, <2>1, <2>2
  <2>4. /\ ComposeLeft(C, Compose(C, h, g), f) = [st |-> "ok", mor |-> CompLookup(b, hg, f)]
        /\ ComposeRight(C, h, Compose(C, g, f)) = [st |-> "ok", mor |-> CompLookup(b, h, gf)]
    BY <2>1, <2>3 DEF ComposeLeft, ComposeRight
  <2>5. C.cod[f] = C.dom[g] /\ C.cod[g] = C.dom[h]
    BY <1>1, <1>6 DEF Composable
  <2>6. Holds(Nesting(C, h, g, f))
    BY <1>1, <1>n, <2>5
  <2>7. CompLookup(b, hg, f) = CompLookup(b, h, gf)
    BY <2>4, <2>6, OkPair DEF Nesting
  <2> QED BY <2>7 DEF hg, gf
<1>7. ASSUME NEW f \in Morphisms(b)
      PROVE  LET left == b.ident[b.mors[f].cod]
                 right == b.ident[b.mors[f].dom]
             IN /\ Cardinality(RowsOf(b, left, f)) = 1 /\ CompLookup(b, left, f) = f
                /\ Cardinality(RowsOf(b, f, right)) = 1 /\ CompLookup(b, f, right) = f
  <2> DEFINE left == b.ident[b.mors[f].cod] right == b.ident[b.mors[f].dom]
  <2>1. /\ left \in Morphisms(b) /\ Composable(b, left, f)
        /\ right \in Morphisms(b) /\ Composable(b, f, right)
    BY <1>u, <1>e DEF Composable
  <2>2. C.id[C.cod[f]] = left /\ C.id[C.dom[f]] = right
    BY <1>1
  <2> HIDE DEF left, right
  <2>3. /\ Compose(C, left, f) = [st |-> "ok", mor |-> CompLookup(b, left, f)]
        /\ Compose(C, f, right) = [st |-> "ok", mor |-> CompLookup(b, f, right)]
        /\ Cardinality(RowsOf(b, left, f)) = 1 /\ Cardinality(RowsOf(b, f, right)) = 1
    BY <1>5, <2>1
  <2>4. Holds(LeftUnit(C, f)) /\ Holds(RightUnit(C, f))
    BY <1>1, <1>2
  <2>5. CompLookup(b, left, f) = f /\ CompLookup(b, f, right) = f
    BY <2>2, <2>3, <2>4, OkPair DEF LeftUnit, RightUnit
  <2> QED BY <2>3, <2>5 DEF left, right
<1>8. Associative(b)
  BY <1>6 DEF Associative
<1>9. IdentitiesOk(b)
  BY <1>7 DEF IdentitiesOk
<1> QED BY <1>4, <1>8, <1>9 DEF BuilderValid, Tabled

\* Validation and the sweep accept the same builders.
LEMMA ValidationAgrees ==
    ASSUME NEW b, BuilderTyped(b), IdentRefsOk(b)
    PROVE  BuilderValid(b) <=>
             /\ CheckExhaustive(Store(b)) = Clean
             /\ IdentTypingOk(b) /\ CompRowsOk(b)
             /\ Cardinality(DOMAIN StoreComp(b)) = Len(b.comps)
<1>1. ASSUME BuilderValid(b)
      PROVE  /\ CheckExhaustive(Store(b)) = Clean
             /\ IdentTypingOk(b) /\ CompRowsOk(b)
             /\ Cardinality(DOMAIN StoreComp(b)) = Len(b.comps)
  <2>1. Tabled(b) /\ IdentTypingOk(b) /\ CompRowsOk(b)
    BY <1>1 DEF BuilderValid, Tabled
  <2>2. IsCategory(Store(b))
    BY <1>1, ValidStore
  <2> QED BY <2>1, <2>2, SweepPasses, RowsCounted
<1> QED BY <1>1, SweepValidates

---------------------------------------------------------------------------
(* What a finder answers, and what the client does with it.                *)

\* The diagrams a finder is asked about.
Diagram(C, op, a, b) ==
    CASE op \in {"product", "coproduct"} -> a \in C.objs /\ b \in C.objs
      [] op \in {"equalizer", "coequalizer"} ->
           a \in C.mors /\ b \in C.mors /\ C.dom[a] = C.dom[b] /\ C.cod[a] = C.cod[b]
      [] op = "pullback" -> a \in C.mors /\ b \in C.mors /\ C.cod[a] = C.cod[b]
      [] op = "pushout" -> a \in C.mors /\ b \in C.mors /\ C.dom[a] = C.dom[b]

\* The finder of each construction.
FinderOf(C, op, a, b) ==
    CASE op = "product" -> FindProduct(C, a, b)
      [] op = "coproduct" -> FindCoproduct(C, a, b)
      [] op = "equalizer" -> FindEqualizer(C, a, b)
      [] op = "coequalizer" -> FindCoequalizer(C, a, b)
      [] op = "pullback" -> FindPullback(C, a, b)
      [] op = "pushout" -> FindPushout(C, a, b)

\* The universal choices of a diagram, and the legs each is returned with.
UniversalChoices(C, op, a, b) ==
    CASE op = "product" -> Products(C, a, b)
      [] op = "coproduct" -> Products(Opposite(C), a, b)
      [] op = "equalizer" -> Equalizers(C, a, b)
      [] op = "coequalizer" -> Equalizers(Opposite(C), a, b)
      [] op = "pullback" -> Pullbacks(C, a, b)
      [] op = "pushout" -> Pullbacks(Opposite(C), a, b)

\* The legs a finder returns for the choice s.
LegsOf(C, op, a, s) ==
    CASE op \in {"product", "coproduct"} -> <<s[2], s[3]>>
      [] op = "equalizer" -> <<s[2], o(C, a, s[2])>>
      [] op = "coequalizer" -> <<o(C, s[2], a), s[2]>>
      [] op = "pullback" -> <<s[2], s[3], o(C, a, s[2])>>
      [] op = "pushout" -> <<o(C, s[2], a), s[2], s[3]>>

\* The result a finder returns for the choice s.
FoundAs(C, op, a, s) == [st |-> "ok", apex |-> s[1], legs |-> LegsOf(C, op, a, s)]

\* A finder returns the first universal choice, or there is none.
LEMMA FinderAnswers ==
    ASSUME NEW C, IsCategory(C), Numbered(C), NEW op \in Limits \cup Colimits,
           NEW a, NEW b, Diagram(C, op, a, b)
    PROVE  IF UniversalChoices(C, op, a, b) = {} THEN FinderOf(C, op, a, b) = NotFound
           ELSE /\ First(UniversalChoices(C, op, a, b)) \in UniversalChoices(C, op, a, b)
                /\ FinderOf(C, op, a, b) = FoundAs(C, op, a, First(UniversalChoices(C, op, a, b)))
<1>1. CASE op = "product"
  BY <1>1, FindProductExact DEF Diagram, FinderOf, UniversalChoices, LegsOf, FoundAs, Chosen
<1>2. CASE op = "coproduct"
  BY <1>2, FindCoproductExact DEF Diagram, FinderOf, UniversalChoices, LegsOf, FoundAs, Chosen
<1>3. CASE op = "equalizer"
  BY <1>3, FindEqualizerExact DEF Diagram, FinderOf, UniversalChoices, LegsOf, FoundAs, Chosen
<1>4. CASE op = "coequalizer"
  BY <1>4, FindCoequalizerExact DEF Diagram, FinderOf, UniversalChoices, LegsOf, FoundAs, Chosen
<1>5. CASE op = "pullback"
  BY <1>5, FindPullbackExact DEF Diagram, FinderOf, UniversalChoices, LegsOf, FoundAs, Chosen
<1>6. CASE op = "pushout"
  BY <1>6, FindPushoutExact DEF Diagram, FinderOf, UniversalChoices, LegsOf, FoundAs, Chosen
<1> QED BY <1>1, <1>2, <1>3, <1>4, <1>5, <1>6 DEF Limits, Colimits

\* One mediator of a cone is the mediator that is returned.
LEMMA SingleIs ==
    ASSUME NEW S, NEW u, S = {u}
    PROVE  Single(S).st = "ok" /\ Single(S).mor = u
<1>1. Cardinality({u}) = 1
  BY FS_Singleton
<1>2. (CHOOSE m \in {u} : TRUE) = u
  OBVIOUS
<1> QED BY <1>1, <1>2 DEF Single

\* A cone of a universal product has its one mediator, which the search finds.
LEMMA Mediated ==
    ASSUME NEW C, NEW y, NEW p, NEW pa, NEW pb, NEW xa, NEW xb,
           OnlyMediator(C, y, p, pa, pb, xa, xb)
    PROVE  \E u \in Hom(C, y, p) :
              /\ Single(Mediators(C, y, p, pa, pb, xa, xb)).st = "ok"
              /\ Single(Mediators(C, y, p, pa, pb, xa, xb)).mor = u
              /\ o(C, pa, u) = xa /\ o(C, pb, u) = xb
<1>1. PICK u \in Hom(C, y, p) :
         \A m \in Hom(C, y, p) : (o(C, pa, m) = xa /\ o(C, pb, m) = xb) <=> m = u
  BY DEF OnlyMediator
<1>2. Mediators(C, y, p, pa, pb, xa, xb) = {u}
  BY <1>1 DEF Mediators
<1>3. o(C, pa, u) = xa /\ o(C, pb, u) = xb
  BY <1>1
<1> QED BY <1>2, <1>3, SingleIs

---------------------------------------------------------------------------
(* Factoring through what was found.                                       *)

\* A mediator is returned, and it commutes with the legs of a limit.
Commutes(C, legs, r, wanted) ==
    /\ r.st = "ok"
    /\ \A i \in DOMAIN legs : o(C, legs[i], r.mor) = wanted[i]

\* With the legs of a colimit.
Cocommutes(C, legs, r, wanted) ==
    /\ r.st = "ok"
    /\ \A i \in DOMAIN legs : o(C, r.mor, legs[i]) = wanted[i]

\* factor through a product commutes with both legs.
LEMMA ProductFactors ==
    ASSUME NEW C, NEW a, NEW b, NEW s \in Products(C, a, b), NEW t \in ProductCones(C, a, b),
           NEW lim, lim = [st |-> "ok", apex |-> s[1], legs |-> <<s[2], s[3]>>]
    PROVE  Commutes(C, lim.legs, FactorProduct(C, lim, t[1], <<t[2], t[3]>>), <<t[2], t[3]>>)
<1> DEFINE r == Single(Mediators(C, t[1], s[1], s[2], s[3], t[2], t[3]))
<1>1. OnlyMediator(C, t[1], s[1], s[2], s[3], t[2], t[3])
  BY DEF Products, UniversalProduct, OnlyMediator
<1>2. r.st = "ok" /\ o(C, s[2], r.mor) = t[2] /\ o(C, s[3], r.mor) = t[3]
  BY <1>1, Mediated
<1>3. FactorProduct(C, lim, t[1], <<t[2], t[3]>>) = r /\ lim.legs = <<s[2], s[3]>>
  BY DEF FactorProduct
<1> HIDE DEF r
<1> QED BY <1>2, <1>3 DEF Commutes

\* factor through a pullback commutes with every leg.
LEMMA PullbackFactors ==
    ASSUME NEW C, IsCategory(C), NEW f \in C.mors, NEW g \in C.mors,
           NEW s \in Pullbacks(C, f, g), NEW t \in PullbackCones(C, f, g),
           NEW lim, lim = [st |-> "ok", apex |-> s[1], legs |-> <<s[2], s[3], o(C, f, s[2])>>],
           NEW legs, legs = <<t[2], t[3], o(C, f, t[2])>>
    PROVE  Commutes(C, lim.legs, FactorPullback(C, lim, t[1], legs), legs)
<1> DEFINE r == Single(Mediators(C, t[1], s[1], s[2], s[3], t[2], t[3]))
<1>1. OnlyMediator(C, t[1], s[1], s[2], s[3], t[2], t[3])
  BY DEF Pullbacks, UniversalPullback, OnlyMediator
<1>2. /\ r.st = "ok" /\ o(C, s[2], r.mor) = t[2] /\ o(C, s[3], r.mor) = t[3]
      /\ r.mor \in Hom(C, t[1], s[1])
  BY <1>1, Mediated
<1>3. /\ FactorPullback(C, lim, t[1], legs) = r
      /\ lim.legs = <<s[2], s[3], o(C, f, s[2])>>
  BY DEF FactorPullback
<1>4. s[2] \in Hom(C, s[1], C.dom[f])
  BY ConeParts DEF Pullbacks, PullbackCones
<1> HIDE DEF r
<1>5. Meet(C, f, s[2]) /\ Meet(C, s[2], r.mor)
  BY <1>2, <1>4 DEF Meet, Hom
<1>6. o(C, o(C, f, s[2]), r.mor) = o(C, f, t[2])
  BY <1>2, <1>5, Associates
<1> QED BY <1>2, <1>3, <1>6 DEF Commutes

\* factor through an equalizer commutes with its legs.
LEMMA EqualizerFactors ==
    ASSUME NEW C, IsCategory(C), NEW f \in C.mors, NEW g \in C.mors,
           NEW s \in Equalizers(C, f, g),
           NEW h \in C.mors, C.cod[h] = C.dom[f], o(C, f, h) = o(C, g, h),
           NEW lim, lim = [st |-> "ok", apex |-> s[1], legs |-> <<s[2], o(C, f, s[2])>>],
           NEW legs, legs = <<h, o(C, f, h)>>
    PROVE  Commutes(C, lim.legs, FactorEqualizer(C, lim, C.dom[h], legs), legs)
<1> DEFINE w == C.dom[h]
           K == EqzMediators(C, w, s[1], s[2], h)
           r == Single(K)
<1>1. h \in Hom(C, w, C.dom[f]) /\ w \in C.objs
  BY Units DEF Hom
<1>2. PICK u \in Hom(C, w, s[1]) : \A m \in Hom(C, w, s[1]) : o(C, s[2], m) = h <=> m = u
  BY <1>1 DEF Equalizers, UniversalEqualizer
<1>3. K = {u} /\ o(C, s[2], u) = h
  BY <1>2 DEF EqzMediators
<1>4. r.st = "ok" /\ r.mor = u
  BY <1>3, SingleIs
<1>5. FactorEqualizer(C, lim, w, legs) = r /\ lim.legs = <<s[2], o(C, f, s[2])>>
  BY DEF FactorEqualizer
<1>6. s[2] \in Hom(C, s[1], C.dom[f])
  BY ForkParts DEF Equalizers
<1>7. Meet(C, f, s[2]) /\ Meet(C, s[2], u)
  BY <1>6 DEF Meet, Hom
<1>8. o(C, o(C, f, s[2]), u) = o(C, f, h)
  BY <1>3, <1>7, Associates
<1> HIDE DEF r
<1> QED BY <1>3, <1>4, <1>5, <1>8 DEF Commutes

\* The same in the opposite category, for the colimits.
LEMMA DualMediated ==
    ASSUME NEW C, IsCategory(C), NEW a, NEW b, NEW y, NEW p,
           NEW ia \in Hom(C, a, p), NEW ib \in Hom(C, b, p), NEW xa, NEW xb,
           OnlyMediator(Opposite(C), y, p, ia, ib, xa, xb)
    PROVE  \E u \in Hom(C, p, y) :
              /\ Single(ColMediators(C, p, y, ia, ib, xa, xb)).st = "ok"
              /\ Single(ColMediators(C, p, y, ia, ib, xa, xb)).mor = u
              /\ o(C, u, ia) = xa /\ o(C, u, ib) = xb
<1> DEFINE D == Opposite(C)
           K == ColMediators(C, p, y, ia, ib, xa, xb)
<1>1. K = Mediators(D, y, p, ia, ib, xa, xb)
  BY DualMediators
<1>2. Hom(D, y, p) = Hom(C, p, y)
  BY OppositeHom
<1> HIDE DEF D, K
<1>3. PICK u \in Hom(C, p, y) :
         Single(K).st = "ok" /\ Single(K).mor = u /\ o(D, ia, u) = xa /\ o(D, ib, u) = xb
  BY <1>1, <1>2, Mediated DEF D
<1> USE DEF D, K
<1>4. Meet(C, u, ia) /\ Meet(C, u, ib)
  BY DEF Meet, Hom
<1>5. o(C, u, ia) = xa /\ o(C, u, ib) = xb
  BY <1>3, <1>4, OppositeMeet
<1> QED BY <1>3, <1>5

\* factor through a coproduct commutes with both legs.
LEMMA CoproductFactors ==
    ASSUME NEW C, IsCategory(C), NEW a, NEW b,
           NEW s \in Products(Opposite(C), a, b), NEW t \in ProductCones(Opposite(C), a, b),
           NEW lim, lim = [st |-> "ok", apex |-> s[1], legs |-> <<s[2], s[3]>>]
    PROVE  Cocommutes(C, lim.legs, FactorCoproduct(C, lim, t[1], <<t[2], t[3]>>), <<t[2], t[3]>>)
<1> DEFINE D == Opposite(C)
           r == Single(ColMediators(C, s[1], t[1], s[2], s[3], t[2], t[3]))
<1>1. OnlyMediator(D, t[1], s[1], s[2], s[3], t[2], t[3])
  BY DEF Products, UniversalProduct, OnlyMediator
<1>2. s[2] \in Hom(C, a, s[1]) /\ s[3] \in Hom(C, b, s[1])
  BY ConeParts, OppositeHom DEF Products
<1>3. \E u \in Hom(C, s[1], t[1]) :
         r.st = "ok" /\ r.mor = u /\ o(C, u, s[2]) = t[2] /\ o(C, u, s[3]) = t[3]
  BY <1>1, <1>2, DualMediated
<1>4. FactorCoproduct(C, lim, t[1], <<t[2], t[3]>>) = r /\ lim.legs = <<s[2], s[3]>>
  BY DEF FactorCoproduct
<1> HIDE DEF r
<1> QED BY <1>3, <1>4 DEF Cocommutes

\* factor through a pushout commutes with every leg.
LEMMA PushoutFactors ==
    ASSUME NEW C, IsCategory(C), NEW f \in C.mors, NEW g \in C.mors,
           NEW s \in Pullbacks(Opposite(C), f, g), NEW t \in PullbackCones(Opposite(C), f, g),
           NEW lim, lim = [st |-> "ok", apex |-> s[1], legs |-> <<o(C, s[2], f), s[2], s[3]>>],
           NEW legs, legs = <<o(C, t[2], f), t[2], t[3]>>
    PROVE  Cocommutes(C, lim.legs, FactorPushout(C, lim, t[1], legs), legs)
<1> DEFINE D == Opposite(C)
           r == Single(ColMediators(C, s[1], t[1], s[2], s[3], t[2], t[3]))
<1>1. OnlyMediator(D, t[1], s[1], s[2], s[3], t[2], t[3])
  BY DEF Pullbacks, UniversalPullback, OnlyMediator
<1>s. s \in ProductCones(D, C.cod[f], C.cod[g])
  BY OppositeFields DEF Pullbacks, PullbackCones
<1>2. s[2] \in Hom(C, C.cod[f], s[1]) /\ s[3] \in Hom(C, C.cod[g], s[1])
  BY <1>s, ConeParts, OppositeHom
<1>3. /\ r.st = "ok" /\ o(C, r.mor, s[2]) = t[2] /\ o(C, r.mor, s[3]) = t[3]
      /\ r.mor \in Hom(C, s[1], t[1])
  BY <1>1, <1>2, DualMediated
<1>4. /\ FactorPushout(C, lim, t[1], legs) = r
      /\ lim.legs = <<o(C, s[2], f), s[2], s[3]>>
  BY DEF FactorPushout
<1> HIDE DEF r
<1>5. Meet(C, s[2], f) /\ Meet(C, r.mor, s[2])
  BY <1>2, <1>3 DEF Meet, Hom
<1>6. o(C, r.mor, o(C, s[2], f)) = o(C, t[2], f)
  BY <1>3, <1>5, Associates
<1> QED BY <1>3, <1>4, <1>6 DEF Cocommutes

\* factor through a coequalizer commutes with its legs.
LEMMA CoequalizerFactors ==
    ASSUME NEW C, IsCategory(C), NEW f \in C.mors, NEW g \in C.mors, C.cod[f] = C.cod[g],
           NEW s \in Equalizers(Opposite(C), f, g),
           NEW h \in C.mors, C.dom[h] = C.cod[f], o(C, h, f) = o(C, h, g),
           NEW lim, lim = [st |-> "ok", apex |-> s[1], legs |-> <<o(C, s[2], f), s[2]>>],
           NEW legs, legs = <<o(C, h, f), h>>
    PROVE  Cocommutes(C, lim.legs, FactorCoequalizer(C, lim, C.cod[h], legs), legs)
<1> DEFINE D == Opposite(C)
           w == C.cod[h]
           K == CoeqMediators(C, s[1], w, s[2], h)
           r == Single(K)
<1>d. D.objs = C.objs /\ D.dom = C.cod /\ D.cod = C.dom
  BY OppositeFields
<1>1. h \in Hom(C, C.cod[f], w) /\ w \in C.objs
  BY Units DEF Hom
<1>2. \A x, z : Hom(D, x, z) = Hom(C, z, x)
  BY OppositeHom
<1>3. Meet(C, h, f) /\ Meet(C, h, g)
  BY DEF Meet
<1>4. o(D, f, h) = o(D, g, h)
  BY <1>3, OppositeMeet
<1>5. h \in {t \in Hom(D, w, D.dom[f]) : o(D, f, t) = o(D, g, t)}
  BY <1>1, <1>2, <1>4, <1>d
<1>6. UniversalEqualizer(D, f, g, s[1], s[2])
  BY DEF Equalizers
<1>7. PICK u \in Hom(C, s[1], w) : \A m \in Hom(C, s[1], w) : o(D, s[2], m) = h <=> m = u
  <2> HIDE DEF D
  <2> QED BY <1>1, <1>2, <1>5, <1>6, <1>d DEF UniversalEqualizer
<1>8. s[2] \in Hom(C, C.cod[f], s[1])
  BY ForkParts, <1>2, <1>d DEF Equalizers
<1>9. \A m \in Hom(C, s[1], w) : o(D, s[2], m) = o(C, m, s[2])
  <2> TAKE m \in Hom(C, s[1], w)
  <2>1. Meet(C, m, s[2])
    BY <1>8 DEF Meet, Hom
  <2> QED BY <2>1, OppositeMeet
<1> HIDE DEF D
<1>10. K = {u} /\ o(C, u, s[2]) = h
  BY <1>7, <1>9 DEF CoeqMediators
<1>11. r.st = "ok" /\ r.mor = u
  BY <1>10, SingleIs
<1>12. FactorCoequalizer(C, lim, w, legs) = r /\ lim.legs = <<o(C, s[2], f), s[2]>>
  BY DEF FactorCoequalizer
<1>13. Meet(C, s[2], f) /\ Meet(C, u, s[2])
  BY <1>8 DEF Meet, Hom
<1>14. o(C, u, o(C, s[2], f)) = o(C, h, f)
  BY <1>10, <1>13, Associates
<1> HIDE DEF r
<1> QED BY <1>10, <1>11, <1>12, <1>14 DEF Cocommutes

\* The morphism into a terminal object; one out of an initial one.
LEMMA TerminalFactors ==
    ASSUME NEW C, IsCategory(C), NEW t, <<t>> \in Terminals(C), NEW x \in C.objs
    PROVE  TerminalArrow(C, t, x).st = "ok"
<1>1. Cardinality(Hom(C, x, t)) = 1
  BY DEF Terminals, UniqueMor
<1> QED BY <1>1 DEF TerminalArrow, Single

\* An initial object has an arrow to every object.
LEMMA InitialFactors ==
    ASSUME NEW C, IsCategory(C), NEW t, <<t>> \in Terminals(Opposite(C)), NEW x \in C.objs
    PROVE  InitialArrow(C, t, x).st = "ok"
<1>1. x \in Opposite(C).objs
  BY OppositeFields
<1>2. Cardinality(Hom(Opposite(C), x, t)) = 1
  BY <1>1 DEF Terminals, UniqueMor
<1> QED BY <1>2, OppositeHom DEF InitialArrow, Single

---------------------------------------------------------------------------
(* The cone a finder returns passes the check of its shape.                *)

\* The diagram shape of each construction.
LEMMA Shapes ==
    /\ ShapeOf["product"] = "pair" /\ ShapeOf["coproduct"] = "pair"
    /\ ShapeOf["equalizer"] = "parallel" /\ ShapeOf["coequalizer"] = "parallel"
    /\ ShapeOf["pullback"] = "span" /\ ShapeOf["pushout"] = "cospan"
    /\ ShapeArrows["pair"] = << >>
    /\ ShapeArrows["parallel"] = <<<<1, 2>>, <<1, 2>>>>
    /\ ShapeArrows["span"] = <<<<1, 3>>, <<2, 3>>>>
    /\ ShapeArrows["cospan"] = <<<<1, 2>>, <<1, 3>>>>
BY DEF ShapeOf, ShapeArrows

\* The cone a limit finder chose passes the cone check.
LEMMA LimitChecks ==
    ASSUME NEW C, IsCategory(C), NEW op \in Limits, NEW a, NEW b, Diagram(C, op, a, b),
           NEW s \in UniversalChoices(C, op, a, b)
    PROVE  CheckCone(C, ShapeOf[op], <<a, b>>, LegsOf(C, op, a, s))
<1>1. CASE op = "product"
  BY <1>1, Shapes DEF CheckCone
<1>2. CASE op = "equalizer"
  <2>1. s \in Equalizers(C, a, b) /\ LegsOf(C, op, a, s) = <<s[2], o(C, a, s[2])>>
    BY <1>2 DEF UniversalChoices, LegsOf
  <2>2. a \in C.mors /\ b \in C.mors /\ C.dom[a] = C.dom[b]
    BY <1>2 DEF Diagram
  <2>3. s[2] \in Hom(C, s[1], C.dom[a]) /\ o(C, a, s[2]) = o(C, b, s[2])
    BY <2>1, ForkParts DEF Equalizers, UniversalEqualizer
  <2>4. Meet(C, a, s[2]) /\ Meet(C, b, s[2])
    BY <2>2, <2>3 DEF Meet, Hom
  <2>5. /\ Compose(C, a, s[2]) = [st |-> "ok", mor |-> o(C, a, s[2])]
        /\ Compose(C, b, s[2]) = [st |-> "ok", mor |-> o(C, a, s[2])]
    BY <2>3, <2>4, ComposeOk
  <2> QED BY <1>2, <2>1, <2>5, Shapes DEF CheckCone
<1>3. CASE op = "pullback"
  <2>1. s \in Pullbacks(C, a, b) /\ LegsOf(C, op, a, s) = <<s[2], s[3], o(C, a, s[2])>>
    BY <1>3 DEF UniversalChoices, LegsOf
  <2>2. a \in C.mors /\ b \in C.mors
    BY <1>3 DEF Diagram
  <2>3. /\ s[2] \in Hom(C, s[1], C.dom[a]) /\ s[3] \in Hom(C, s[1], C.dom[b])
        /\ o(C, a, s[2]) = o(C, b, s[3])
    BY <2>1, ConeParts DEF Pullbacks, PullbackCones
  <2>4. Meet(C, a, s[2]) /\ Meet(C, b, s[3])
    BY <2>2, <2>3 DEF Meet, Hom
  <2>5. /\ Compose(C, a, s[2]) = [st |-> "ok", mor |-> o(C, a, s[2])]
        /\ Compose(C, b, s[3]) = [st |-> "ok", mor |-> o(C, a, s[2])]
    BY <2>3, <2>4, ComposeOk
  <2> QED BY <1>3, <2>1, <2>5, Shapes DEF CheckCone
<1> QED BY <1>1, <1>2, <1>3 DEF Limits

\* What is universal in the opposite category, seen from this one.
LEMMA DualPullback ==
    ASSUME NEW C, IsCategory(C), NEW f \in C.mors, NEW g \in C.mors,
           NEW s \in Pullbacks(Opposite(C), f, g)
    PROVE  /\ s[2] \in Hom(C, C.cod[f], s[1]) /\ s[3] \in Hom(C, C.cod[g], s[1])
           /\ Meet(C, s[2], f) /\ Meet(C, s[3], g)
           /\ o(C, s[2], f) = o(C, s[3], g)
           /\ o(Opposite(C), f, s[2]) = o(C, s[2], f)
<1> DEFINE D == Opposite(C)
<1>1. s \in ProductCones(D, C.cod[f], C.cod[g]) /\ o(D, f, s[2]) = o(D, g, s[3])
  BY OppositeFields DEF Pullbacks, PullbackCones
<1>2. s[2] \in Hom(C, C.cod[f], s[1]) /\ s[3] \in Hom(C, C.cod[g], s[1])
  BY <1>1, ConeParts, OppositeHom
<1>3. Meet(C, s[2], f) /\ Meet(C, s[3], g)
  BY <1>2 DEF Meet, Hom
<1>4. o(D, f, s[2]) = o(C, s[2], f) /\ o(D, g, s[3]) = o(C, s[3], g)
  BY <1>3, OppositeMeet
<1> QED BY <1>1, <1>2, <1>3, <1>4

\* A coequalizer, read as an equalizer of the opposite.
LEMMA DualEqualizer ==
    ASSUME NEW C, IsCategory(C), NEW f \in C.mors, NEW g \in C.mors, C.cod[f] = C.cod[g],
           NEW s \in Equalizers(Opposite(C), f, g)
    PROVE  /\ s = <<s[1], s[2]>> /\ s[2] \in Hom(C, C.cod[f], s[1])
           /\ Meet(C, s[2], f) /\ Meet(C, s[2], g)
           /\ o(C, s[2], f) = o(C, s[2], g)
           /\ o(Opposite(C), f, s[2]) = o(C, s[2], f)
<1> DEFINE D == Opposite(C)
<1>1. s \in Forks(D, C.cod[f]) /\ o(D, f, s[2]) = o(D, g, s[2])
  BY OppositeFields DEF Equalizers, UniversalEqualizer
<1>2. s = <<s[1], s[2]>> /\ s[2] \in Hom(C, C.cod[f], s[1])
  BY <1>1, ForkParts, OppositeHom
<1>3. Meet(C, s[2], f) /\ Meet(C, s[2], g)
  BY <1>2 DEF Meet, Hom
<1>4. o(D, f, s[2]) = o(C, s[2], f) /\ o(D, g, s[2]) = o(C, s[2], g)
  BY <1>3, OppositeMeet
<1> QED BY <1>1, <1>2, <1>3, <1>4

\* The cocone a colimit finder chose passes the cocone check.
LEMMA ColimitChecks ==
    ASSUME NEW C, IsCategory(C), NEW op \in Colimits, NEW a, NEW b, Diagram(C, op, a, b),
           NEW s \in UniversalChoices(C, op, a, b)
    PROVE  CheckCocone(C, ShapeOf[op], <<a, b>>, LegsOf(C, op, a, s))
<1>1. CASE op = "coproduct"
  BY <1>1, Shapes DEF CheckCocone
<1>2. CASE op = "coequalizer"
  <2>1. /\ s \in Equalizers(Opposite(C), a, b)
        /\ LegsOf(C, op, a, s) = <<o(C, s[2], a), s[2]>>
        /\ a \in C.mors /\ b \in C.mors /\ C.cod[a] = C.cod[b]
    BY <1>2 DEF UniversalChoices, LegsOf, Diagram
  <2>2. /\ Compose(C, s[2], a) = [st |-> "ok", mor |-> o(C, s[2], a)]
        /\ Compose(C, s[2], b) = [st |-> "ok", mor |-> o(C, s[2], a)]
    BY <2>1, DualEqualizer, ComposeOk
  <2> QED BY <1>2, <2>1, <2>2, Shapes DEF CheckCocone
<1>3. CASE op = "pushout"
  <2>1. /\ s \in Pullbacks(Opposite(C), a, b)
        /\ LegsOf(C, op, a, s) = <<o(C, s[2], a), s[2], s[3]>>
        /\ a \in C.mors /\ b \in C.mors
    BY <1>3 DEF UniversalChoices, LegsOf, Diagram
  <2>2. /\ Compose(C, s[2], a) = [st |-> "ok", mor |-> o(C, s[2], a)]
        /\ Compose(C, s[3], b) = [st |-> "ok", mor |-> o(C, s[2], a)]
    BY <2>1, DualPullback, ComposeOk
  <2> QED BY <1>3, <2>1, <2>2, Shapes DEF CheckCocone
<1> QED BY <1>1, <1>2, <1>3 DEF Colimits

---------------------------------------------------------------------------
(* The inductive invariant: a category in hand is one, and an answer is     *)
(* what its function returns on it.                                         *)

\* A built category: lawful and numbered.
Built(C) == IsCategory(C) /\ Numbered(C)

\* A finder's answer.
Asked(C, ans) ==
    /\ ans.op \in Limits \cup Colimits =>
         /\ Built(C) /\ Diagram(C, ans.op, ans.a, ans.b)
         /\ ans.res = FinderOf(C, ans.op, ans.a, ans.b)
    /\ ans.op = "terminal" => Built(C) /\ ans.res = FindTerminal(C)
    /\ ans.op = "initial" => Built(C) /\ ans.res = FindInitial(C)

\* A found limit as the first universal choice of its diagram.
LEMMA AnswerChosen ==
    ASSUME NEW C, NEW ans, Asked(C, ans), ans.op \in Limits \cup Colimits
    PROVE  LET S == UniversalChoices(C, ans.op, ans.a, ans.b)
           IN IF ans.res.st = "ok"
              THEN \E s \in S : s = First(S) /\ ans.res = FoundAs(C, ans.op, ans.a, s)
              ELSE S = {}
<1> DEFINE S == UniversalChoices(C, ans.op, ans.a, ans.b)
<1>1. IF S = {} THEN ans.res = NotFound
      ELSE First(S) \in S /\ ans.res = FoundAs(C, ans.op, ans.a, First(S))
  BY FinderAnswers DEF Asked, Built
<1> HIDE DEF S
<1>2. NotFound.st # "ok"
  BY DEF NotFound
<1>3. \A s : FoundAs(C, ans.op, ans.a, s).st = "ok"
  BY DEF FoundAs
<1>4. IF ans.res.st = "ok"
      THEN \E s \in S : s = First(S) /\ ans.res = FoundAs(C, ans.op, ans.a, s)
      ELSE S = {}
  BY <1>1, <1>2, <1>3
<1> QED BY <1>4 DEF S

\* The reference definition of what is universal is that of the choices.
LEMMA UniversalIs ==
    ASSUME Built(cat), answer.op \in Limits \cup Colimits,
           Diagram(cat, answer.op, answer.a, answer.b)
    PROVE  Universal = {<<s[1], LegsOf(cat, answer.op, answer.a, s)>> :
                           s \in UniversalChoices(cat, answer.op, answer.a, answer.b)}
<1> DEFINE C == cat
           a == answer.a
           b == answer.b
           D == Opposite(cat)
<1>1. CASE answer.op = "product"
  BY <1>1 DEF Universal, UniversalChoices, LegsOf, Products
<1>2. CASE answer.op = "coproduct"
  BY <1>2 DEF Universal, UniversalChoices, LegsOf, Products
<1>3. CASE answer.op = "equalizer"
  <2> DEFINE E == {e \in C.mors : C.cod[e] = C.dom[a] /\ UniversalEqualizer(C, a, b, C.dom[e], e)}
  <2>1. Universal = {<<C.dom[e], <<e, o(C, a, e)>>>> : e \in E}
    BY <1>3 DEF Universal
  <2>2. ASSUME NEW s \in Equalizers(C, a, b)
        PROVE  s[2] \in E /\ s[1] = C.dom[s[2]]
    <3>1. s[2] \in Hom(C, s[1], C.dom[a]) /\ UniversalEqualizer(C, a, b, s[1], s[2])
      BY <2>2, ForkParts DEF Equalizers
    <3> QED BY <3>1 DEF Hom
  <2>3. ASSUME NEW e \in E
        PROVE  <<C.dom[e], e>> \in Equalizers(C, a, b)
    <3>1. C.dom[e] \in C.objs /\ e \in Hom(C, C.dom[e], C.dom[a])
      BY Units DEF Built, Hom
    <3>2. <<C.dom[e], e>> \in Forks(C, C.dom[a])
      BY <3>1, ForkParts
    <3> QED BY <3>2 DEF Equalizers
  <2>4. {<<C.dom[e], <<e, o(C, a, e)>>>> : e \in E} =
        {<<s[1], <<s[2], o(C, a, s[2])>>>> : s \in Equalizers(C, a, b)}
    <3> HIDE DEF E, C, a, b
    <3>1. \A e : <<C.dom[e], e>>[1] = C.dom[e] /\ <<C.dom[e], e>>[2] = e
      OBVIOUS
    <3> QED BY <2>2, <2>3, <3>1
  <2> QED BY <1>3, <2>1, <2>4 DEF UniversalChoices, LegsOf
<1>4. CASE answer.op = "coequalizer"
  <2> DEFINE E == {e \in C.mors : C.dom[e] = C.cod[a] /\ UniversalEqualizer(D, a, b, C.cod[e], e)}
  <2>1. Universal = {<<C.cod[e], <<o(C, e, a), e>>>> : e \in E}
    BY <1>4 DEF Universal
  <2>d. /\ IsCategory(C) /\ D.objs = C.objs /\ D.dom = C.cod
        /\ a \in C.mors /\ b \in C.mors /\ C.cod[a] = C.cod[b]
    BY <1>4, OppositeFields DEF Built, Diagram
  <2>h. \A x, y : Hom(D, x, y) = Hom(C, y, x)
    BY <2>d, OppositeHom
  <2>2. ASSUME NEW s \in Equalizers(D, a, b)
        PROVE  s[2] \in E /\ s[1] = C.cod[s[2]]
    <3>1. s[2] \in Hom(C, C.cod[a], s[1]) /\ UniversalEqualizer(D, a, b, s[1], s[2])
      BY <2>2, <2>d, DualEqualizer DEF Equalizers
    <3> QED BY <3>1 DEF Hom
  <2>3. ASSUME NEW e \in E
        PROVE  <<C.cod[e], e>> \in Equalizers(D, a, b)
    <3>1. C.cod[e] \in D.objs /\ e \in Hom(C, C.cod[a], C.cod[e])
      BY <2>d, Units DEF Hom
    <3>2. e \in Hom(D, C.cod[e], D.dom[a])
      BY <3>1, <2>d, <2>h
    <3>3. <<C.cod[e], e>> \in Forks(D, D.dom[a])
      BY <3>1, <3>2, ForkParts
    <3> QED BY <3>3 DEF Equalizers
  <2>4. {<<C.cod[e], <<o(C, e, a), e>>>> : e \in E} =
        {<<s[1], <<o(C, s[2], a), s[2]>>>> : s \in Equalizers(D, a, b)}
    <3> HIDE DEF E, C, a, b, D
    <3>1. \A e : <<C.cod[e], e>>[1] = C.cod[e] /\ <<C.cod[e], e>>[2] = e
      OBVIOUS
    <3> QED BY <2>2, <2>3, <3>1
  <2> QED BY <1>4, <2>1, <2>4 DEF UniversalChoices, LegsOf
<1>5. CASE answer.op = "pullback"
  BY <1>5 DEF Universal, UniversalChoices, LegsOf, Pullbacks
<1>6. CASE answer.op = "pushout"
  BY <1>6 DEF Universal, UniversalChoices, LegsOf, Pullbacks
<1> QED BY <1>1, <1>2, <1>3, <1>4, <1>5, <1>6 DEF Limits, Colimits

\* Hence the finders are exact.
LEMMA AnswerUniversal ==
    ASSUME Asked(cat, answer)
    PROVE  FinderExact
<1> SUFFICES ASSUME answer.op \in Limits \cup Colimits
             PROVE  IF answer.res.st = "ok" THEN <<answer.res.apex, answer.res.legs>> \in Universal
                    ELSE Universal = {}
  BY DEF FinderExact
<1> DEFINE S == UniversalChoices(cat, answer.op, answer.a, answer.b)
           L(s) == LegsOf(cat, answer.op, answer.a, s)
<1>1. Universal = {<<s[1], L(s)>> : s \in S}
  BY UniversalIs DEF Asked
<1>2. IF answer.res.st = "ok"
      THEN \E s \in S : answer.res = [st |-> "ok", apex |-> s[1], legs |-> L(s)]
      ELSE S = {}
  BY AnswerChosen DEF FoundAs
<1> HIDE DEF S, L
<1>3. CASE answer.res.st = "ok"
  <2>1. PICK s \in S : answer.res = [st |-> "ok", apex |-> s[1], legs |-> L(s)]
    BY <1>2, <1>3
  <2>2. answer.res.apex = s[1] /\ answer.res.legs = L(s)
    BY <2>1
  <2> QED BY <1>1, <1>3, <2>2
<1>4. CASE answer.res.st # "ok"
  <2>1. S = {}
    BY <1>2, <1>4
  <2>2. Universal = {}
    BY <1>1, <2>1
  <2> QED BY <1>4, <2>2
<1> QED BY <1>3, <1>4

\* A cone of the client factors through what the finder gave it.
Factored(C, of, cone, r) ==
    /\ r.st = "ok"
    /\ \A i \in DOMAIN of.res.legs :
         IF of.op \in Limits THEN o(C, of.res.legs[i], r.mor) = cone[2][i]
         ELSE o(C, r.mor, of.res.legs[i]) = cone[2][i]

\* A mediator that commutes factors the cone of a limit.
LEMMA FactoredLimit ==
    ASSUME NEW C, NEW of, NEW cone, NEW r, of.op \in Limits,
           Commutes(C, of.res.legs, r, cone[2])
    PROVE  Factored(C, of, cone, r)
BY DEF Factored, Commutes

\* A mediator that commutes factors the cocone of a colimit.
LEMMA FactoredColimit ==
    ASSUME NEW C, NEW of, NEW cone, NEW r, of.op \in Colimits,
           Cocommutes(C, of.res.legs, r, cone[2])
    PROVE  Factored(C, of, cone, r)
BY DEF Factored, Cocommutes, Limits, Colimits

\* With no legs, any arrow found factors.
LEMMA FactoredEmpty ==
    ASSUME NEW C, NEW of, NEW cone, NEW r, of.res.legs = << >>, r.st = "ok"
    PROVE  Factored(C, of, cone, r)
BY DEF Factored

\* factor answers correctly about every cone it may be asked about.
LEMMA FactorsThrough ==
    ASSUME Asked(cat, answer), answer.res.st = "ok",
           answer.op \in Limits \cup Colimits \cup {"terminal", "initial"},
           NEW cone \in Cones
    PROVE  Factored(cat, answer, cone, FactorOf(cone))
<1> DEFINE C == cat
           a == answer.a
           b == answer.b
           D == Opposite(cat)
           lim == answer.res
           r == FactorOf(cone)
<1>0. IsCategory(C) /\ Numbered(C)
  BY DEF Asked, Built
<1>n. NotFound.st # "ok"
  BY DEF NotFound
<1>l. ASSUME answer.op \in Limits \cup Colimits
      PROVE  /\ Diagram(C, answer.op, a, b)
             /\ \E s \in UniversalChoices(C, answer.op, a, b) :
                   lim = [st |-> "ok", apex |-> s[1], legs |-> LegsOf(C, answer.op, a, s)]
  BY <1>l, AnswerChosen DEF Asked, FoundAs
<1>1. CASE answer.op = "product"
  <2>1. PICK s \in Products(C, a, b) : lim = [st |-> "ok", apex |-> s[1], legs |-> <<s[2], s[3]>>]
    BY <1>1, <1>l DEF UniversalChoices, LegsOf, Limits
  <2>2. PICK t \in ProductCones(C, a, b) : cone = <<t[1], <<t[2], t[3]>>>>
    BY <1>1 DEF Cones
  <2>3. r = FactorProduct(C, lim, t[1], <<t[2], t[3]>>)
    BY <1>1, <2>2 DEF FactorOf
  <2>4. Commutes(C, lim.legs, r, <<t[2], t[3]>>)
    BY <2>1, <2>3, ProductFactors
  <2> QED BY <1>1, <2>2, <2>4, FactoredLimit DEF Limits
<1>2. CASE answer.op = "coproduct"
  <2>1. PICK s \in Products(D, a, b) : lim = [st |-> "ok", apex |-> s[1], legs |-> <<s[2], s[3]>>]
    BY <1>2, <1>l DEF UniversalChoices, LegsOf, Colimits
  <2>2. PICK t \in ProductCones(D, a, b) : cone = <<t[1], <<t[2], t[3]>>>>
    BY <1>2 DEF Cones
  <2>3. r = FactorCoproduct(C, lim, t[1], <<t[2], t[3]>>)
    BY <1>2, <2>2 DEF FactorOf
  <2>4. Cocommutes(C, lim.legs, r, <<t[2], t[3]>>)
    BY <1>0, <2>1, <2>3, CoproductFactors
  <2> QED BY <1>2, <2>2, <2>4, FactoredColimit DEF Colimits
<1>3. CASE answer.op = "equalizer"
  <2>1. PICK s \in Equalizers(C, a, b) :
           lim = [st |-> "ok", apex |-> s[1], legs |-> <<s[2], o(C, a, s[2])>>]
    BY <1>3, <1>l DEF UniversalChoices, LegsOf, Limits
  <2>2. PICK h \in C.mors : /\ C.cod[h] = C.dom[a] /\ o(C, a, h) = o(C, b, h)
                            /\ cone = <<C.dom[h], <<h, o(C, a, h)>>>>
    BY <1>3 DEF Cones
  <2>3. r = FactorEqualizer(C, lim, C.dom[h], <<h, o(C, a, h)>>)
    BY <1>3, <2>2 DEF FactorOf
  <2>4. a \in C.mors /\ b \in C.mors
    BY <1>3, <1>l DEF Diagram, Limits
  <2>5. Commutes(C, lim.legs, r, <<h, o(C, a, h)>>)
    BY <1>0, <2>1, <2>2, <2>3, <2>4, EqualizerFactors
  <2> QED BY <1>3, <2>2, <2>5, FactoredLimit DEF Limits
<1>4. CASE answer.op = "coequalizer"
  <2>1. PICK s \in Equalizers(D, a, b) :
           lim = [st |-> "ok", apex |-> s[1], legs |-> <<o(C, s[2], a), s[2]>>]
    BY <1>4, <1>l DEF UniversalChoices, LegsOf, Colimits
  <2>2. PICK h \in C.mors : /\ C.dom[h] = C.cod[a] /\ o(C, h, a) = o(C, h, b)
                            /\ cone = <<C.cod[h], <<o(C, h, a), h>>>>
    BY <1>4 DEF Cones
  <2>3. r = FactorCoequalizer(C, lim, C.cod[h], <<o(C, h, a), h>>)
    BY <1>4, <2>2 DEF FactorOf
  <2>4. a \in C.mors /\ b \in C.mors /\ C.cod[a] = C.cod[b]
    BY <1>4, <1>l DEF Diagram, Colimits
  <2>5. Cocommutes(C, lim.legs, r, <<o(C, h, a), h>>)
    BY <1>0, <2>1, <2>2, <2>3, <2>4, CoequalizerFactors
  <2> QED BY <1>4, <2>2, <2>5, FactoredColimit DEF Colimits
<1>5. CASE answer.op = "pullback"
  <2>1. PICK s \in Pullbacks(C, a, b) :
           lim = [st |-> "ok", apex |-> s[1], legs |-> <<s[2], s[3], o(C, a, s[2])>>]
    BY <1>5, <1>l DEF UniversalChoices, LegsOf, Limits
  <2>2. PICK t \in PullbackCones(C, a, b) : cone = <<t[1], <<t[2], t[3], o(C, a, t[2])>>>>
    BY <1>5 DEF Cones
  <2>3. r = FactorPullback(C, lim, t[1], <<t[2], t[3], o(C, a, t[2])>>)
    BY <1>5, <2>2 DEF FactorOf
  <2>4. a \in C.mors /\ b \in C.mors
    BY <1>5, <1>l DEF Diagram, Limits
  <2>5. Commutes(C, lim.legs, r, <<t[2], t[3], o(C, a, t[2])>>)
    BY <1>0, <2>1, <2>3, <2>4, PullbackFactors
  <2> QED BY <1>5, <2>2, <2>5, FactoredLimit DEF Limits
<1>6. CASE answer.op = "pushout"
  <2>1. PICK s \in Pullbacks(D, a, b) :
           lim = [st |-> "ok", apex |-> s[1], legs |-> <<o(C, s[2], a), s[2], s[3]>>]
    BY <1>6, <1>l DEF UniversalChoices, LegsOf, Colimits
  <2>2. PICK t \in PullbackCones(D, a, b) : cone = <<t[1], <<o(C, t[2], a), t[2], t[3]>>>>
    BY <1>6 DEF Cones
  <2>3. r = FactorPushout(C, lim, t[1], <<o(C, t[2], a), t[2], t[3]>>)
    BY <1>6, <2>2 DEF FactorOf
  <2>4. a \in C.mors /\ b \in C.mors
    BY <1>6, <1>l DEF Diagram, Colimits
  <2>5. Cocommutes(C, lim.legs, r, <<o(C, t[2], a), t[2], t[3]>>)
    BY <1>0, <2>1, <2>3, <2>4, PushoutFactors
  <2> QED BY <1>6, <2>2, <2>5, FactoredColimit DEF Colimits
<1>7. CASE answer.op = "terminal"
  <2>1. lim = FindTerminal(C)
    BY <1>7 DEF Asked
  <2>2. /\ lim = [st |-> "ok", apex |-> First(Terminals(C))[1], legs |-> << >>]
        /\ First(Terminals(C)) \in Terminals(C)
    BY <1>0, <1>n, <2>1, FindTerminalExact DEF Chosen
  <2>3. <<lim.apex>> \in Terminals(C)
    BY <2>2 DEF Terminals
  <2>4. cone[1] \in C.objs
    BY <1>7 DEF Cones
  <2>5. r.st = "ok"
    BY <1>0, <1>7, <2>3, <2>4, TerminalFactors DEF FactorOf
  <2>6. lim.legs = << >>
    BY <2>2
  <2> QED BY <2>5, <2>6, FactoredEmpty
<1>8. CASE answer.op = "initial"
  <2>1. lim = FindInitial(C)
    BY <1>8 DEF Asked
  <2>2. /\ lim = [st |-> "ok", apex |-> First(Terminals(D))[1], legs |-> << >>]
        /\ First(Terminals(D)) \in Terminals(D)
    BY <1>0, <1>n, <2>1, FindInitialExact DEF Chosen
  <2>3. <<lim.apex>> \in Terminals(D)
    BY <2>2 DEF Terminals
  <2>4. cone[1] \in C.objs
    BY <1>8 DEF Cones
  <2>5. r.st = "ok"
    BY <1>0, <1>8, <2>3, <2>4, InitialFactors DEF FactorOf
  <2>6. lim.legs = << >>
    BY <2>2
  <2> QED BY <2>5, <2>6, FactoredEmpty
<1> QED BY <1>1, <1>2, <1>3, <1>4, <1>5, <1>6, <1>7, <1>8 DEF Limits, Colimits

\* The colimit finders answer what the limit finders answer in the opposite
\* category.
LEMMA AnswerDual ==
    ASSUME Asked(cat, answer)
    PROVE  Duality
<1> DEFINE C == cat
           a == answer.a
           b == answer.b
           D == Opposite(cat)
<1>f. ASSUME answer.op \in Limits \cup Colimits, answer.res.st = "ok"
      PROVE  LET S == UniversalChoices(C, answer.op, a, b)
             IN First(S) \in S /\ answer.res = FoundAs(C, answer.op, a, First(S))
  <2>1. \E s \in UniversalChoices(C, answer.op, a, b) :
           /\ s = First(UniversalChoices(C, answer.op, a, b))
           /\ answer.res = FoundAs(C, answer.op, a, s)
    BY <1>f, AnswerChosen
  <2> QED BY <2>1
<1>d. ASSUME answer.op \in Colimits
      PROVE  /\ IsCategory(C) /\ Numbered(C) /\ IsCategory(D) /\ Numbered(D)
             /\ D.mors = C.mors /\ D.dom = C.cod /\ D.cod = C.dom
             /\ Diagram(C, answer.op, a, b)
  BY <1>d, OppositeCategory, OppositeNumbered, OppositeFields DEF Asked, Built
<1>1. answer.op = "initial" => answer.res = FindTerminal(D)
  <2>1. SUFFICES ASSUME answer.op = "initial" PROVE answer.res = FindTerminal(D)
    OBVIOUS
  <2>2. IsCategory(C) /\ Numbered(C) /\ Numbered(D)
    BY <2>1, OppositeNumbered DEF Asked, Built
  <2> HIDE DEF D
  <2>3. FindTerminal(D) = IF Terminals(D) = {} THEN NotFound
                          ELSE [st |-> "ok", apex |-> First(Terminals(D))[1], legs |-> << >>]
    BY <2>2, FindTerminalExact
  <2>4. FindInitial(C) = IF Terminals(D) = {} THEN NotFound
                         ELSE [st |-> "ok", apex |-> First(Terminals(D))[1], legs |-> << >>]
    BY <2>2, FindInitialExact DEF D
  <2> QED BY <2>1, <2>3, <2>4 DEF Asked
<1>2. answer.op = "coproduct" => answer.res = FindProduct(D, a, b)
  <2>1. SUFFICES ASSUME answer.op = "coproduct" PROVE answer.res = FindProduct(D, a, b)
    OBVIOUS
  <2>2. IsCategory(C) /\ Numbered(C) /\ IsCategory(D) /\ Numbered(D)
    BY <2>1, <1>d DEF Colimits
  <2>3. answer.res = FindCoproduct(C, a, b)
    BY <2>1 DEF Asked, FinderOf, Colimits
  <2> QED BY <2>2, <2>3, FindCoproductExact, FindProductExact
<1>3. answer.op = "coequalizer" /\ answer.res.st = "ok" =>
         LET dual == FindEqualizer(D, a, b)
         IN answer.res.apex = dual.apex /\ answer.res.legs = <<dual.legs[2], dual.legs[1]>>
  <2> DEFINE s == First(Equalizers(D, a, b))
             dual == FindEqualizer(D, a, b)
  <2>1. SUFFICES ASSUME answer.op = "coequalizer", answer.res.st = "ok"
                 PROVE  /\ answer.res.apex = dual.apex
                        /\ answer.res.legs = <<dual.legs[2], dual.legs[1]>>
    OBVIOUS
  <2>2. a \in C.mors /\ b \in C.mors /\ C.dom[a] = C.dom[b] /\ C.cod[a] = C.cod[b]
    BY <2>1, <1>d DEF Diagram, Colimits
  <2>3. /\ s \in Equalizers(D, a, b)
        /\ answer.res = [st |-> "ok", apex |-> s[1], legs |-> <<o(C, s[2], a), s[2]>>]
    BY <2>1, <1>f DEF UniversalChoices, FoundAs, LegsOf, Colimits
  <2>4. dual = [st |-> "ok", apex |-> s[1], legs |-> <<s[2], o(D, a, s[2])>>]
    <3> HIDE DEF D
    <3>1. IsCategory(D) /\ Numbered(D) /\ a \in D.mors /\ b \in D.mors
          /\ D.dom[a] = D.dom[b] /\ D.cod[a] = D.cod[b]
      BY <2>1, <2>2, <1>d DEF Colimits
    <3>2. Equalizers(D, a, b) # {}
      BY <2>3
    <3> QED BY <3>1, <3>2, FindEqualizerExact
  <2>5. o(D, a, s[2]) = o(C, s[2], a)
    BY <2>1, <2>2, <2>3, <1>d, DualEqualizer DEF Colimits
  <2> HIDE DEF s, dual, D
  <2> QED BY <2>3, <2>4, <2>5
<1>4. answer.op = "pushout" /\ answer.res.st = "ok" =>
         LET dual == FindPullback(D, a, b)
         IN /\ answer.res.apex = dual.apex
            /\ answer.res.legs = <<dual.legs[3], dual.legs[1], dual.legs[2]>>
  <2> DEFINE s == First(Pullbacks(D, a, b))
             dual == FindPullback(D, a, b)
  <2>1. SUFFICES ASSUME answer.op = "pushout", answer.res.st = "ok"
                 PROVE  /\ answer.res.apex = dual.apex
                        /\ answer.res.legs = <<dual.legs[3], dual.legs[1], dual.legs[2]>>
    OBVIOUS
  <2>2. a \in C.mors /\ b \in C.mors /\ C.dom[a] = C.dom[b]
    BY <2>1, <1>d DEF Diagram, Colimits
  <2>3. /\ s \in Pullbacks(D, a, b)
        /\ answer.res = [st |-> "ok", apex |-> s[1], legs |-> <<o(C, s[2], a), s[2], s[3]>>]
    BY <2>1, <1>f DEF UniversalChoices, FoundAs, LegsOf, Colimits
  <2>4. dual = [st |-> "ok", apex |-> s[1], legs |-> <<s[2], s[3], o(D, a, s[2])>>]
    <3> HIDE DEF D
    <3>1. IsCategory(D) /\ Numbered(D) /\ a \in D.mors /\ b \in D.mors
          /\ D.cod[a] = D.cod[b]
      BY <2>1, <2>2, <1>d DEF Colimits
    <3>2. Pullbacks(D, a, b) # {}
      BY <2>3
    <3> QED BY <3>1, <3>2, FindPullbackExact
  <2>5. o(D, a, s[2]) = o(C, s[2], a)
    BY <2>1, <2>2, <2>3, <1>d, DualPullback DEF Colimits
  <2> HIDE DEF s, dual, D
  <2> QED BY <2>3, <2>4, <2>5
<1>5. answer.op \in Limits /\ answer.res.st = "ok" =>
         CheckCone(C, ShapeOf[answer.op], <<a, b>>, answer.res.legs)
  <2>1. SUFFICES ASSUME answer.op \in Limits, answer.res.st = "ok"
                 PROVE  CheckCone(C, ShapeOf[answer.op], <<a, b>>, answer.res.legs)
    OBVIOUS
  <2> DEFINE s == First(UniversalChoices(C, answer.op, a, b))
  <2>2. s \in UniversalChoices(C, answer.op, a, b) /\ answer.res.legs = LegsOf(C, answer.op, a, s)
    BY <2>1, <1>f DEF FoundAs
  <2>3. IsCategory(C) /\ Diagram(C, answer.op, a, b)
    BY <2>1 DEF Asked, Built
  <2> QED BY <2>1, <2>2, <2>3, LimitChecks
<1>6. answer.op \in Colimits /\ answer.res.st = "ok" =>
         CheckCocone(C, ShapeOf[answer.op], <<a, b>>, answer.res.legs)
  <2>1. SUFFICES ASSUME answer.op \in Colimits, answer.res.st = "ok"
                 PROVE  CheckCocone(C, ShapeOf[answer.op], <<a, b>>, answer.res.legs)
    OBVIOUS
  <2> DEFINE s == First(UniversalChoices(C, answer.op, a, b))
  <2>2. s \in UniversalChoices(C, answer.op, a, b) /\ answer.res.legs = LegsOf(C, answer.op, a, s)
    BY <2>1, <1>f DEF FoundAs
  <2> QED BY <2>1, <2>2, <1>d, ColimitChecks
<1> QED BY <1>1, <1>2, <1>3, <1>4, <1>5, <1>6 DEF Duality

\* What the client holds in answer: each call's outcome on this category, or on
\* the builder a category was built from unchecked.
AnswerOk(b, C, ans) ==
    /\ Asked(C, ans)
    /\ ans.op = "factor" => Factored(C, ans.of, ans.cone, ans.res)
    /\ ans.op = "check" => IdentRefsOk(b) /\ ans.res = CheckExhaustive(Store(b))
    /\ ans.op = "derived" => Lawful(ans.res)

\* The inductive invariant: the builder is typed, the category lawful, the answer right.
CatInv ==
    /\ BuilderTyped(builder)
    /\ cat # NoCategory => Built(cat)
    /\ AnswerOk(builder, cat, answer)

\* No answer and a refusal need no proof.
LEMMA AnswerPlain ==
    ASSUME NEW b, NEW C
    PROVE  AnswerOk(b, C, NoAnswer) /\ AnswerOk(b, C, [op |-> "refused"])
BY DEF AnswerOk, Asked, NoAnswer, Limits, Colimits

\* The answer of the exhaustive check is right.
LEMMA AnswerCheck ==
    ASSUME NEW b, NEW C, IdentRefsOk(b)
    PROVE  AnswerOk(b, C, [op |-> "check", res |-> CheckExhaustive(Store(b))])
<1> DEFINE r == CheckExhaustive(Store(b))
<1> HIDE DEF r
<1>1. AnswerOk(b, C, [op |-> "check", res |-> r]) <=> r = CheckExhaustive(Store(b))
  BY DEF AnswerOk, Asked, Limits, Colimits
<1> QED BY <1>1 DEF r

\* The answers about terminal and initial objects are right.
LEMMA AnswerObject ==
    ASSUME NEW b, NEW C, Built(C)
    PROVE  /\ AnswerOk(b, C, [op |-> "terminal", res |-> FindTerminal(C)])
           /\ AnswerOk(b, C, [op |-> "initial", res |-> FindInitial(C)])
BY DEF AnswerOk, Asked, Limits, Colimits

\* The answers of the limit and colimit finders are right.
LEMMA AnswerLimit ==
    ASSUME NEW b, NEW C, Built(C), NEW op \in Limits \cup Colimits, NEW x, NEW y,
           Diagram(C, op, x, y)
    PROVE  AnswerOk(b, C, Limit(op, x, y, FinderOf(C, op, x, y)))
BY DEF AnswerOk, Asked, Limit, Limits, Colimits

\* The answers of factor are right.
LEMMA AnswerFactor ==
    ASSUME NEW b, NEW C, NEW of, NEW cone, NEW r, Factored(C, of, cone, r)
    PROVE  AnswerOk(b, C, [op |-> "factor", of |-> of, cone |-> cone, res |-> r])
BY DEF AnswerOk, Asked, Limits, Colimits

\* The answers of the derived constructions are right.
LEMMA AnswerDerived ==
    ASSUME NEW b, NEW C, NEW D, Lawful(D)
    PROVE  AnswerOk(b, C, [op |-> "derived", res |-> D])
BY DEF AnswerOk, Asked, Limits, Colimits

\* The preorder of a category: there is a morphism.
LEMMA ReachLawful ==
    ASSUME NEW C, IsCategory(C)
    PROVE  Lawful(Thin(C.objs, {p \in C.objs \X C.objs : Hom(C, p[1], p[2]) # {}}))
<1> DEFINE leq == {p \in C.objs \X C.objs : Hom(C, p[1], p[2]) # {}}
<1>1. ASSUME NEW x \in C.objs
      PROVE  <<x, x>> \in leq
  <2>1. C.id[x] \in Hom(C, x, x)
    BY Units DEF Hom
  <2> QED BY <2>1
<1>2. ASSUME NEW p \in leq, NEW q \in leq, p[2] = q[1]
      PROVE  <<p[1], q[2]>> \in leq
  <2>1. p[1] \in C.objs /\ p[2] \in C.objs /\ q[2] \in C.objs
    OBVIOUS
  <2>2. PICK f \in Hom(C, p[1], p[2]), g \in Hom(C, p[2], q[2]) : TRUE
    BY <1>2
  <2>3. o(C, g, f) \in Hom(C, p[1], q[2])
    BY HomMeets
  <2> QED BY <2>1, <2>3
<1>3. leq \in SUBSET (C.objs \X C.objs)
  OBVIOUS
<1> HIDE DEF leq
<1>4. Lawful(Thin(C.objs, leq))
  BY <1>1, <1>2, <1>3, ThinLawful
<1> QED BY <1>4 DEF leq

\* The invariant holds at the start.
LEMMA CatInvInit ==
    ASSUME Init
    PROVE  CatInv
<1>1. BuilderTyped(builder)
  BY BootsTyped DEF Init
<1>2. AnswerOk(builder, cat, answer)
  BY AnswerPlain DEF Init
<1> QED BY <1>1, <1>2 DEF CatInv, Init

\* A call that only answers.
LEMMA Answers ==
    ASSUME CatInv, NEW ans, AnswerOk(builder, cat, ans),
           answer' = ans, UNCHANGED <<builder, budget, cat>>
    PROVE  CatInv'
BY DEF CatInv

\* Every call that fills the builder keeps the invariant.
LEMMA FillStep ==
    ASSUME CatInv, NEW b, BuilderTyped(b), Fill(b)
    PROVE  CatInv'
<1>1. builder' = b /\ cat' = cat /\ answer' = NoAnswer
  BY DEF Fill
<1>2. BuilderTyped(builder') /\ AnswerOk(builder', cat', answer')
  BY <1>1, AnswerPlain
<1> QED BY <1>1, <1>2 DEF CatInv

\* Every step keeps the invariant.
LEMMA CatInvNext ==
    ASSUME CatInv, [Next]_vars
    PROVE  CatInv'
<1>b. BuilderTyped(builder)
  BY DEF CatInv
<1>a. ASSUME NEW ans, cat # NoCategory => AnswerOk(builder, cat, ans), Ask(ans)
      PROVE  CatInv'
  BY <1>a, Answers DEF Ask
<1>c. cat # NoCategory => IsCategory(cat) /\ Built(cat)
  BY DEF CatInv, Built
<1>l. ASSUME NEW op \in Limits \cup Colimits, NEW x, NEW y, Diagram(cat, op, x, y),
             Ask(Limit(op, x, y, FinderOf(cat, op, x, y)))
      PROVE  CatInv'
  BY <1>l, <1>a, <1>c, AnswerLimit
<1>d. ASSUME NEW D, cat # NoCategory => Lawful(D), Derive(D)
      PROVE  CatInv'
  BY <1>d, <1>a, AnswerDerived DEF Derive
<1>1. CASE DoAddObject
  BY <1>1, <1>b, FillTyped, FillStep DEF DoAddObject
<1>2. CASE DoAddMorphism
  BY <1>2, <1>b, FillTyped, FillStep DEF DoAddMorphism
<1>3. CASE DoSetIdentity
  BY <1>3, <1>b, FillTyped, FillStep DEF DoSetIdentity
<1>4. CASE DoSetComposition
  BY <1>4, <1>b, FillTyped, FillStep DEF DoSetComposition
<1>5. CASE Build
  <2>1. CASE BuilderValid(builder)
    <3>1. cat' = Store(builder) /\ answer' = NoAnswer /\ builder' = builder
      BY <1>5, <2>1 DEF Build
    <3>2. Built(Store(builder))
      BY <1>b, <2>1, ValidStore DEF Built
    <3>3. Built(cat') /\ BuilderTyped(builder') /\ AnswerOk(builder', cat', answer')
      BY <1>b, <3>1, <3>2, AnswerPlain
    <3> QED BY <3>3 DEF CatInv
  <2>2. CASE ~BuilderValid(builder)
    <3>1. cat' = NoCategory /\ answer' = [op |-> "refused"] /\ builder' = builder
      BY <1>5, <2>2 DEF Build
    <3>2. BuilderTyped(builder') /\ AnswerOk(builder', cat', answer')
      BY <1>b, <3>1, AnswerPlain
    <3> QED BY <3>1, <3>2 DEF CatInv
  <2> QED BY <2>1, <2>2
<1>6. CASE BuildUnchecked
  BY <1>6, AnswerCheck, Answers DEF BuildUnchecked
<1>7. CASE AskTerminal
  BY <1>7, <1>a, <1>c, AnswerObject DEF AskTerminal
<1>8. CASE AskInitial
  BY <1>8, <1>a, <1>c, AnswerObject DEF AskInitial
<1>9. CASE AskProduct
  BY <1>9, <1>l DEF AskProduct, FinderOf, Diagram, Limits
<1>10. CASE AskCoproduct
  BY <1>10, <1>l DEF AskCoproduct, FinderOf, Diagram, Colimits
<1>11. CASE AskEqualizer
  BY <1>11, <1>l DEF AskEqualizer, Parallel, FinderOf, Diagram, Limits
<1>12. CASE AskCoequalizer
  BY <1>12, <1>l DEF AskCoequalizer, Parallel, FinderOf, Diagram, Colimits
<1>13. CASE AskPullback
  BY <1>13, <1>l DEF AskPullback, FinderOf, Diagram, Limits
<1>14. CASE AskPushout
  BY <1>14, <1>l DEF AskPushout, FinderOf, Diagram, Colimits
<1>15. CASE Factor
  <2>1. PICK cone \in Cones :
           answer' = [op |-> "factor", of |-> answer, cone |-> cone, res |-> FactorOf(cone)]
    BY <1>15 DEF Factor
  <2>2. Factored(cat, answer, cone, FactorOf(cone))
    BY <1>15, FactorsThrough DEF Factor, CatInv, AnswerOk
  <2>3. UNCHANGED <<builder, budget, cat>>
    BY <1>15 DEF Factor
  <2>4. AnswerOk(builder, cat, answer')
    BY <2>1, <2>2, AnswerFactor
  <2> QED BY <2>3, <2>4, Answers
<1>16. CASE DeriveOpposite
  <2>1. cat # NoCategory => Lawful(Opposite(cat))
    BY <1>c, OppositeCategory DEF IsCategory
  <2> QED BY <1>16, <1>d, <2>1 DEF DeriveOpposite
<1>17. CASE DeriveSlice
  BY <1>17, <1>c, <1>d, SliceLawful DEF DeriveSlice
<1>18. CASE DeriveCoslice
  BY <1>18, <1>c, <1>d, CosliceLawful DEF DeriveCoslice
<1>19. CASE DeriveProduct
  BY <1>19, <1>c, <1>d, ProductLawful DEF DeriveProduct
<1>20. CASE DeriveArrow
  BY <1>20, <1>c, <1>d, ArrowLawful DEF DeriveArrow
<1>21. CASE DeriveThin
  BY <1>21, <1>c, <1>d, ReachLawful DEF DeriveThin
<1>22. CASE Drop
  BY <1>22, AnswerPlain, Answers DEF Drop
<1>23. CASE UNCHANGED vars
  BY <1>23 DEF CatInv, vars
<1> QED BY <1>1, <1>2, <1>3, <1>4, <1>5, <1>6, <1>7, <1>8, <1>9, <1>10, <1>11, <1>12, <1>13,
           <1>14, <1>15, <1>16, <1>17, <1>18, <1>19, <1>20, <1>21, <1>22, <1>23 DEF Next

\* Every builder, category and answer of a client is what CatInv says.
THEOREM CatInvariance == Spec => []CatInv
<1>1. Init => CatInv
  BY CatInvInit
<1>2. CatInv /\ [Next]_vars => CatInv'
  BY CatInvNext
<1> QED BY <1>1, <1>2, PTL DEF Spec

---------------------------------------------------------------------------
(* The theorems.                                                           *)

\* cat89_builder_build and the exhaustive sweep of check.c accept the same
\* builders, of every size: what validation passes is a category that the sweep
\* finds clean, and what the sweep finds clean after an unchecked build would
\* have passed validation.
THEOREM ValidationExactHolds == Spec => []ValidationExact
<1>1. CatInv => ValidationExact
  <2> SUFFICES ASSUME CatInv PROVE ValidationExact
    OBVIOUS
  <2>1. ASSUME cat # NoCategory
        PROVE  Lawful(cat) /\ CheckExhaustive(cat) = Clean
    BY <2>1, SweepPasses DEF CatInv, Built, IsCategory
  <2>2. ASSUME answer.op = "check"
        PROVE  BuilderValid(builder) <=>
                 /\ answer.res = Clean
                 /\ IdentTypingOk(builder) /\ CompRowsOk(builder)
                 /\ Cardinality(DOMAIN StoreComp(builder)) = Len(builder.comps)
    <3>1. /\ BuilderTyped(builder) /\ IdentRefsOk(builder)
          /\ answer.res = CheckExhaustive(Store(builder))
      BY <2>2 DEF CatInv, AnswerOk
    <3> QED BY <3>1, ValidationAgrees
  <2> QED BY <2>1, <2>2 DEF ValidationExact, Clean
<1> QED BY <1>1, CatInvariance, PTL

\* Each finder of libcat89 answers the first universal cone (cocone) of the
\* diagram or, only when there is none, NOT_FOUND; each cone of the client then
\* factors through what was found; and the colimit finders, separate code,
\* answer what the limit finders do in the opposite category.  For every finite
\* category, although a finder only counts hom-sets.
THEOREM FindersExactHolds == Spec => []FindersExact
<1>1. CatInv => FindersExact
  <2> SUFFICES ASSUME CatInv PROVE FindersExact
    OBVIOUS
  <2>1. FinderExact
    BY AnswerUniversal DEF CatInv, AnswerOk
  <2>2. Duality
    BY AnswerDual DEF CatInv, AnswerOk
  <2>3. FactorTotal
    BY DEF CatInv, AnswerOk, Factored, FactorTotal
  <2> QED BY <2>1, <2>2, <2>3 DEF FindersExact
<1> QED BY <1>1, CatInvariance, PTL

\* The opposite, slices, coslices, products, arrow category and preorder of a
\* validated category are categories, although compose tests no square there.
THEOREM DerivedLawfulHolds == Spec => []DerivedLawful
<1>1. CatInv => DerivedLawful
  BY DEF CatInv, AnswerOk, DerivedLawful
<1> QED BY <1>1, CatInvariance, PTL

---------------------------------------------------------------------------
(* Functors.                                                               *)

\* The parts of a functor between categories, whose laws are not yet known.
FunctorForm(F) ==
    /\ IsCategory(F.src) /\ IsCategory(F.tgt)
    /\ F.obj \in [F.src.objs -> F.tgt.objs]
    /\ F.mor \in [F.src.mors -> F.tgt.mors]
    /\ Typed(F)

\* The cases of cat89_check_functor_exhaustive are the functor laws.
LEMMA FunctorChecked ==
    ASSUME NEW F, FunctorForm(F)
    PROVE  CheckFunctor(F) <=> Functor(F)
<1> DEFINE A == F.src
           E == F.tgt
           ids == \A x \in A.objs : F.mor[A.id[x]] = E.id[F.obj[x]]
           comps == \A g, f \in A.mors :
                       A.cod[f] = A.dom[g] => F.mor[o(A, g, f)] = o(E, F.mor[g], F.mor[f])
<1>1. (\A p \in FunctorIdentityCases(F) : p[1] = p[2]) <=> ids
  <2> DEFINE case(x) == <<F.mor[A.id[x]], E.id[F.obj[x]]>>
  <2>1. (\A p \in FunctorIdentityCases(F) : p[1] = p[2])
          <=> \A x \in A.objs : case(x)[1] = case(x)[2]
    BY DEF FunctorIdentityCases
  <2>2. ASSUME NEW x \in A.objs
        PROVE  case(x)[1] = F.mor[A.id[x]] /\ case(x)[2] = E.id[F.obj[x]]
    OBVIOUS
  <2> HIDE DEF case
  <2> QED BY <2>1, <2>2
<1>2. DOMAIN A.comp = Pairs(A.mors, A.dom, A.cod)
  BY DEF FunctorForm, IsCategory
<1>3. ASSUME NEW g \in A.mors, NEW f \in A.mors, A.cod[f] = A.dom[g]
      PROVE  Compose(E, F.mor[g], F.mor[f])
                 = [st |-> "ok", mor |-> o(E, F.mor[g], F.mor[f])]
  <2>1. Meet(E, F.mor[g], F.mor[f])
    BY <1>3 DEF FunctorForm, Typed, Meet
  <2> QED BY <2>1, ComposeOk DEF FunctorForm
<1>4. (\A p \in FunctorCompositionCases(F) : p[1] = p[2]) <=> comps
  <2> DEFINE case(p) == <<[st |-> "ok", mor |-> F.mor[A.comp[p]]],
                          Compose(E, F.mor[p[1]], F.mor[p[2]])>>
  <2>1. (\A p \in FunctorCompositionCases(F) : p[1] = p[2])
          <=> \A p \in Pairs(A.mors, A.dom, A.cod) : case(p)[1] = case(p)[2]
    BY <1>2 DEF FunctorCompositionCases
  <2>2. ASSUME NEW g \in A.mors, NEW f \in A.mors, A.cod[f] = A.dom[g]
        PROVE  /\ <<g, f>> \in Pairs(A.mors, A.dom, A.cod)
               /\ case(<<g, f>>)[1] = [st |-> "ok", mor |-> F.mor[o(A, g, f)]]
               /\ case(<<g, f>>)[2] = [st |-> "ok", mor |-> o(E, F.mor[g], F.mor[f])]
    <3>1. <<g, f>> \in Pairs(A.mors, A.dom, A.cod)
      BY <2>2 DEF Pairs
    <3> QED BY <3>1, <2>2, <1>3 DEF o
  <2>3. ASSUME NEW p \in Pairs(A.mors, A.dom, A.cod)
        PROVE  \E g, f \in A.mors : p = <<g, f>> /\ A.cod[f] = A.dom[g]
    BY DEF Pairs
  <2>4. ASSUME NEW u, NEW v
        PROVE  [st |-> "ok", mor |-> u] = [st |-> "ok", mor |-> v] <=> u = v
    <3>1. [st |-> "ok", mor |-> u].mor = u /\ [st |-> "ok", mor |-> v].mor = v
      OBVIOUS
    <3> QED BY <3>1
  <2> HIDE DEF case
  <2>5. ASSUME NEW g \in A.mors, NEW f \in A.mors, A.cod[f] = A.dom[g]
        PROVE  case(<<g, f>>)[1] = case(<<g, f>>)[2]
                 <=> F.mor[o(A, g, f)] = o(E, F.mor[g], F.mor[f])
    <3>1. /\ case(<<g, f>>)[1] = [st |-> "ok", mor |-> F.mor[o(A, g, f)]]
          /\ case(<<g, f>>)[2] = [st |-> "ok", mor |-> o(E, F.mor[g], F.mor[f])]
      BY <2>2, <2>5
    <3> QED BY <3>1, <2>4
  <2>6. (\A p \in Pairs(A.mors, A.dom, A.cod) : case(p)[1] = case(p)[2])
          <=> \A g, f \in A.mors :
                 A.cod[f] = A.dom[g] => case(<<g, f>>)[1] = case(<<g, f>>)[2]
    <3> DEFINE same(p) == case(p)[1] = case(p)[2]
    <3>1. \A g, f \in A.mors :
             A.cod[f] = A.dom[g] => <<g, f>> \in Pairs(A.mors, A.dom, A.cod)
      BY <2>2
    <3>2. \A p \in Pairs(A.mors, A.dom, A.cod) :
             \E g, f \in A.mors : p = <<g, f>> /\ A.cod[f] = A.dom[g]
      BY <2>3
    <3> HIDE DEF same
    <3>3. (\A p \in Pairs(A.mors, A.dom, A.cod) : same(p))
            <=> \A g, f \in A.mors : A.cod[f] = A.dom[g] => same(<<g, f>>)
      BY <3>1, <3>2
    <3> QED BY <3>3 DEF same
  <2> QED BY <2>1, <2>5, <2>6
<1> HIDE DEF ids, comps
<1>5. CheckFunctor(F) <=> ids /\ comps
  BY <1>1, <1>4 DEF CheckFunctor
<1> QED BY <1>5 DEF Functor, FunctorForm, ids, comps

\* A functor of C into itself.
Endo(C, F) == F.src = C /\ F.tgt = C /\ Functor(F)

\* The parts of a functor from C to itself.
LEMMA EndoParts ==
    ASSUME NEW C, NEW F, Endo(C, F)
    PROVE  /\ F.src = C /\ F.tgt = C /\ IsCategory(C)
           /\ F.obj \in [C.objs -> C.objs] /\ F.mor \in [C.mors -> C.mors]
           /\ \A m \in C.mors : /\ C.dom[F.mor[m]] = F.obj[C.dom[m]]
                                /\ C.cod[F.mor[m]] = F.obj[C.cod[m]]
           /\ \A x \in C.objs : F.mor[C.id[x]] = C.id[F.obj[x]]
BY DEF Endo, Functor, Typed

\* Where such a functor sends an arrow.
LEMMA EndoAt ==
    ASSUME NEW C, NEW F, Endo(C, F), NEW m \in C.mors
    PROVE  /\ F.mor[m] \in C.mors
           /\ C.dom[F.mor[m]] = F.obj[C.dom[m]]
           /\ C.cod[F.mor[m]] = F.obj[C.cod[m]]
<1>1. /\ F.mor \in [C.mors -> C.mors]
      /\ \A l \in C.mors : /\ C.dom[F.mor[l]] = F.obj[C.dom[l]]
                           /\ C.cod[F.mor[l]] = F.obj[C.cod[l]]
  BY EndoParts
<1> QED BY <1>1

\* Such a functor keeps composites.
LEMMA EndoMeets ==
    ASSUME NEW C, NEW F, Endo(C, F), NEW g, NEW f, Meet(C, g, f)
    PROVE  /\ Meet(C, F.mor[g], F.mor[f])
           /\ F.mor[o(C, g, f)] = o(C, F.mor[g], F.mor[f])
BY FunctorMeets DEF Endo

\* The inputs of the client are endofunctors.
LEMMA FunctorsEndo ==
    ASSUME NEW C, IsCategory(C), NEW F \in Functors(C)
    PROVE  Endo(C, F)
<1>1. /\ F.src = C /\ F.tgt = C
      /\ F.obj \in [C.objs -> C.objs] /\ F.mor \in [C.mors -> C.mors]
      /\ Typed(F) /\ CheckFunctor(F)
  BY DEF Functors
<1>2. FunctorForm(F)
  BY <1>1 DEF FunctorForm
<1> QED BY <1>1, <1>2, FunctorChecked DEF Endo

\* What the client is asked to show of a functor.
LEMMA EndoChecked ==
    ASSUME NEW C, NEW F, Endo(C, F)
    PROVE  Typed(F) /\ CheckFunctor(F)
<1>1. FunctorForm(F)
  BY DEF Endo, Functor, FunctorForm
<1> QED BY <1>1, FunctorChecked DEF Endo, FunctorForm

\* cat89_functor_map_obj and cat89_functor_map_mor of a composite.
LEMMA FunctorComposeEndo ==
    ASSUME NEW C, NEW G, Endo(C, G), NEW F, Endo(C, F)
    PROVE  /\ Endo(C, FunctorCompose(G, F))
           /\ \A x \in C.objs : FunctorCompose(G, F).obj[x] = G.obj[F.obj[x]]
           /\ \A m \in C.mors : FunctorCompose(G, F).mor[m] = G.mor[F.mor[m]]
<1> DEFINE H == FunctorCompose(G, F)
<1>1. /\ H.src = C /\ H.tgt = C
      /\ H.obj = [x \in C.objs |-> G.obj[F.obj[x]]]
      /\ H.mor = [m \in C.mors |-> G.mor[F.mor[m]]]
  BY EndoParts DEF FunctorCompose
<1> HIDE DEF H
<1>e. /\ \A m \in C.mors : /\ C.dom[G.mor[m]] = G.obj[C.dom[m]]
                           /\ C.cod[G.mor[m]] = G.obj[C.cod[m]]
      /\ \A x \in C.objs : G.mor[C.id[x]] = C.id[G.obj[x]]
  BY EndoParts
<1>2. /\ \A x \in C.objs : H.obj[x] = G.obj[F.obj[x]]
      /\ \A m \in C.mors : H.mor[m] = G.mor[F.mor[m]]
      /\ H.obj \in [C.objs -> C.objs] /\ H.mor \in [C.mors -> C.mors]
  BY <1>1, EndoParts
<1>3. \A m \in C.mors : C.dom[m] \in C.objs /\ C.cod[m] \in C.objs
  BY EndoParts, Units
<1>4. Typed(H)
  <2>1. ASSUME NEW m \in C.mors
        PROVE  /\ C.dom[H.mor[m]] = H.obj[C.dom[m]]
               /\ C.cod[H.mor[m]] = H.obj[C.cod[m]]
    <3>1. F.mor[m] \in C.mors
      BY EndoParts
    <3>2. /\ C.dom[F.mor[m]] = F.obj[C.dom[m]]
          /\ C.cod[F.mor[m]] = F.obj[C.cod[m]]
      BY EndoParts
    <3>3. /\ C.dom[G.mor[F.mor[m]]] = G.obj[C.dom[F.mor[m]]]
          /\ C.cod[G.mor[F.mor[m]]] = G.obj[C.cod[F.mor[m]]]
      BY <3>1, <1>e
    <3> QED BY <1>2, <1>3, <3>2, <3>3
  <2> QED BY <1>1, <2>1 DEF Typed
<1>5. \A x \in C.objs : H.mor[C.id[x]] = C.id[H.obj[x]]
  <2> SUFFICES ASSUME NEW x \in C.objs
               PROVE  H.mor[C.id[x]] = C.id[H.obj[x]]
    OBVIOUS
  <2>1. C.id[x] \in C.mors /\ F.obj[x] \in C.objs
    BY EndoParts, Units
  <2>2. F.mor[C.id[x]] = C.id[F.obj[x]]
    BY EndoParts
  <2>3. G.mor[C.id[F.obj[x]]] = C.id[G.obj[F.obj[x]]]
    BY <2>1, <1>e
  <2> QED BY <1>2, <2>1, <2>2, <2>3
<1>6. ASSUME NEW g \in C.mors, NEW f \in C.mors, C.cod[f] = C.dom[g]
      PROVE  H.mor[o(C, g, f)] = o(C, H.mor[g], H.mor[f])
  <2>1. Meet(C, g, f)
    BY <1>6 DEF Meet
  <2>2. /\ Meet(C, F.mor[g], F.mor[f])
        /\ F.mor[o(C, g, f)] = o(C, F.mor[g], F.mor[f])
    BY <2>1, EndoMeets
  <2>3. G.mor[o(C, F.mor[g], F.mor[f])] = o(C, G.mor[F.mor[g]], G.mor[F.mor[f]])
    BY <2>2, EndoMeets
  <2>4. o(C, g, f) \in C.mors
    BY <2>1, Composes, EndoParts
  <2> QED BY <1>2, <2>2, <2>3, <2>4
<1>7. IsCategory(C)
  BY EndoParts
<1>8. Functor(H)
  <2>1. H.obj \in [H.src.objs -> H.tgt.objs] /\ H.mor \in [H.src.mors -> H.tgt.mors]
    BY <1>1, <1>2
  <2>2. \A x \in H.src.objs : H.mor[H.src.id[x]] = H.tgt.id[H.obj[x]]
    BY <1>1, <1>5
  <2>3. \A g, f \in H.src.mors :
          H.src.cod[f] = H.src.dom[g]
            => H.mor[o(H.src, g, f)] = o(H.tgt, H.mor[g], H.mor[f])
    BY <1>1, <1>6
  <2> QED BY <1>1, <1>4, <1>7, <2>1, <2>2, <2>3 DEF Functor
<1> QED BY <1>1, <1>2, <1>8 DEF Endo, H

---------------------------------------------------------------------------
(* Natural transformations.                                                *)

\* A transformation between endofunctors of C, and its square at m.
NatForm(C, n) ==
    /\ Endo(C, n.src) /\ Endo(C, n.tgt)
    /\ \A x \in C.objs : n.at[x] \in Hom(C, n.src.obj[x], n.tgt.obj[x])

\* The naturality square of n at arrow m.
Square(C, n, m) ==
    o(C, n.tgt.mor[m], n.at[C.dom[m]]) = o(C, n.at[C.cod[m]], n.src.mor[m])

\* n is a natural transformation: its form, and every square.
Natural(C, n) == NatForm(C, n) /\ \A m \in C.mors : Square(C, n, m)

\* Both ways round a square there is a composite.
LEMMA SquareMeets ==
    ASSUME NEW C, NEW n, NatForm(C, n), NEW m \in C.mors
    PROVE  /\ Meet(C, n.tgt.mor[m], n.at[C.dom[m]])
           /\ Meet(C, n.at[C.cod[m]], n.src.mor[m])
<1>1. C.dom[m] \in C.objs /\ C.cod[m] \in C.objs
  BY EndoParts, Units DEF NatForm
<1>2. /\ n.at[C.dom[m]] \in Hom(C, n.src.obj[C.dom[m]], n.tgt.obj[C.dom[m]])
      /\ n.at[C.cod[m]] \in Hom(C, n.src.obj[C.cod[m]], n.tgt.obj[C.cod[m]])
  BY <1>1 DEF NatForm
<1>3. /\ n.src.mor[m] \in C.mors /\ C.cod[n.src.mor[m]] = n.src.obj[C.cod[m]]
      /\ n.tgt.mor[m] \in C.mors /\ C.dom[n.tgt.mor[m]] = n.tgt.obj[C.dom[m]]
  BY EndoAt DEF NatForm
<1> QED BY <1>2, <1>3 DEF Meet, Hom

\* The cases of cat89_check_naturality_exhaustive are the squares.
LEMMA NaturalityChecked ==
    ASSUME NEW C, NEW n, NatForm(C, n)
    PROVE  CheckNaturality(n) <=> \A m \in C.mors : Square(C, n, m)
<1> DEFINE case(m) == <<Compose(C, n.tgt.mor[m], n.at[C.dom[m]]),
                        Compose(C, n.at[C.cod[m]], n.src.mor[m])>>
           holds(p) == p[1].st = "ok" /\ p[1] = p[2]
<1>1. n.src.src = C /\ n.src.tgt = C
  BY DEF NatForm, Endo
<1>2. NaturalityCases(n) = {case(m) : m \in C.mors}
  BY <1>1 DEF NaturalityCases
<1>3. ASSUME NEW m \in C.mors
      PROVE  holds(case(m)) <=> Square(C, n, m)
  <2> DEFINE u == o(C, n.tgt.mor[m], n.at[C.dom[m]])
             v == o(C, n.at[C.cod[m]], n.src.mor[m])
  <2>1. IsCategory(C)
    BY EndoParts DEF NatForm
  <2>2. /\ Compose(C, n.tgt.mor[m], n.at[C.dom[m]]) = [st |-> "ok", mor |-> u]
        /\ Compose(C, n.at[C.cod[m]], n.src.mor[m]) = [st |-> "ok", mor |-> v]
    BY <2>1, SquareMeets, ComposeOk
  <2>3. /\ case(m)[1] = [st |-> "ok", mor |-> u]
        /\ case(m)[2] = [st |-> "ok", mor |-> v]
    BY <2>2
  <2> HIDE DEF case, u, v
  <2>4. /\ [st |-> "ok", mor |-> u].st = "ok"
        /\ [st |-> "ok", mor |-> u].mor = u /\ [st |-> "ok", mor |-> v].mor = v
    OBVIOUS
  <2>5. holds(case(m)) <=> u = v
    BY <2>3, <2>4
  <2> QED BY <2>5 DEF Square, u, v
<1> HIDE DEF case, holds
<1>4. CheckNaturality(n) <=> \A p \in NaturalityCases(n) : holds(p)
  BY DEF CheckNaturality, holds
<1> QED BY <1>2, <1>3, <1>4

\* The inputs of the client are natural transformations.
LEMMA NatsNatural ==
    ASSUME NEW C, IsCategory(C), NEW n \in Nats(C)
    PROVE  Natural(C, n)
<1>1. /\ n.src \in Functors(C) /\ n.tgt \in Functors(C)
      /\ TypedNat(n) /\ CheckNaturality(n)
  BY DEF Nats
<1>2. Endo(C, n.src) /\ Endo(C, n.tgt)
  BY <1>1, FunctorsEndo
<1>3. NatForm(C, n)
  BY <1>1, <1>2 DEF NatForm, TypedNat, Endo
<1> QED BY <1>1, <1>3, NaturalityChecked DEF Natural

\* What the client is asked to show of a transformation.
LEMMA NaturalChecked ==
    ASSUME NEW C, NEW n, Natural(C, n)
    PROVE  TypedNat(n) /\ CheckNaturality(n)
<1>1. CheckNaturality(n)
  BY NaturalityChecked DEF Natural
<1>2. TypedNat(n)
  BY DEF Natural, NatForm, TypedNat, Endo
<1> QED BY <1>1, <1>2

\* The identity transformation is natural.
LEMMA IdentityNatural ==
    ASSUME NEW C, NEW F, Endo(C, F)
    PROVE  Natural(C, IdentityNat(F))
<1> DEFINE n == IdentityNat(F)
<1>1. /\ n.src = F /\ n.tgt = F
      /\ n.at = [x \in C.objs |-> C.id[F.obj[x]]]
  BY EndoParts DEF IdentityNat
<1> HIDE DEF n
<1>2. \A x \in C.objs : n.at[x] = C.id[F.obj[x]] /\ F.obj[x] \in C.objs
  BY <1>1, EndoParts
<1>3. IsCategory(C)
  BY EndoParts
<1>4. NatForm(C, n)
  BY <1>1, <1>2, <1>3, Units DEF NatForm, Hom
<1>5. ASSUME NEW m \in C.mors
      PROVE  Square(C, n, m)
  <2>1. /\ C.dom[m] \in C.objs /\ C.cod[m] \in C.objs
        /\ F.mor[m] \in C.mors
        /\ C.dom[F.mor[m]] = F.obj[C.dom[m]] /\ C.cod[F.mor[m]] = F.obj[C.cod[m]]
    BY <1>3, EndoParts, Units
  <2>2. /\ o(C, F.mor[m], C.id[C.dom[F.mor[m]]]) = F.mor[m]
        /\ o(C, C.id[C.cod[F.mor[m]]], F.mor[m]) = F.mor[m]
    BY <1>3, <2>1, Units
  <2> QED BY <1>1, <1>2, <2>1, <2>2 DEF Square
<1> QED BY <1>4, <1>5 DEF Natural, n

\* cat89_nat_compose_vertical: squares are pasted side by side.
LEMMA VerticalNatural ==
    ASSUME NEW C, NEW beta, Natural(C, beta), NEW alpha, Natural(C, alpha),
           beta.src = alpha.tgt
    PROVE  /\ Natural(C, Vertical(beta, alpha))
           /\ \A x \in C.objs :
                Vertical(beta, alpha).at[x] = o(C, beta.at[x], alpha.at[x])
<1> DEFINE n == Vertical(beta, alpha)
           F == alpha.src
           G == alpha.tgt
           H == beta.tgt
<1>1. /\ Endo(C, F) /\ Endo(C, G) /\ Endo(C, H) /\ IsCategory(C)
      /\ \A x \in C.objs : /\ alpha.at[x] \in Hom(C, F.obj[x], G.obj[x])
                           /\ beta.at[x] \in Hom(C, G.obj[x], H.obj[x])
  BY EndoParts DEF Natural, NatForm
<1>2. /\ n.src = F /\ n.tgt = H
      /\ n.at = [x \in C.objs |-> o(C, beta.at[x], alpha.at[x])]
  BY <1>1 DEF Vertical, Endo
<1> HIDE DEF n
<1>3. \A x \in C.objs : n.at[x] = o(C, beta.at[x], alpha.at[x])
  BY <1>2
<1>4. ASSUME NEW x \in C.objs
      PROVE  /\ Meet(C, beta.at[x], alpha.at[x])
             /\ n.at[x] \in Hom(C, F.obj[x], H.obj[x])
  <2>1. /\ alpha.at[x] \in Hom(C, F.obj[x], G.obj[x])
        /\ beta.at[x] \in Hom(C, G.obj[x], H.obj[x])
    BY <1>1
  <2>2. /\ Meet(C, beta.at[x], alpha.at[x])
        /\ o(C, beta.at[x], alpha.at[x]) \in Hom(C, F.obj[x], H.obj[x])
    BY <1>1, <2>1, HomMeets
  <2> QED BY <1>3, <2>2
<1>5. NatForm(C, n)
  BY <1>1, <1>2, <1>4 DEF NatForm
<1>6. ASSUME NEW m \in C.mors
      PROVE  Square(C, n, m)
  <2> DEFINE x == C.dom[m]
             y == C.cod[m]
  <2>1. x \in C.objs /\ y \in C.objs
    BY <1>1, Units
  <2>2. /\ Meet(C, G.mor[m], alpha.at[x]) /\ Meet(C, alpha.at[y], F.mor[m])
        /\ o(C, G.mor[m], alpha.at[x]) = o(C, alpha.at[y], F.mor[m])
    BY SquareMeets DEF Natural, Square
  <2>3. /\ Meet(C, H.mor[m], beta.at[x]) /\ Meet(C, beta.at[y], G.mor[m])
        /\ o(C, H.mor[m], beta.at[x]) = o(C, beta.at[y], G.mor[m])
    BY SquareMeets DEF Natural, Square
  <2>4. /\ Meet(C, beta.at[x], alpha.at[x]) /\ n.at[x] = o(C, beta.at[x], alpha.at[x])
        /\ Meet(C, beta.at[y], alpha.at[y]) /\ n.at[y] = o(C, beta.at[y], alpha.at[y])
    BY <1>3, <1>4, <2>1
  <2> HIDE DEF x, y
  <2>5. o(C, H.mor[m], n.at[x]) = o(C, o(C, H.mor[m], beta.at[x]), alpha.at[x])
    BY <1>1, <2>3, <2>4, Associates
  <2>6. o(C, o(C, beta.at[y], G.mor[m]), alpha.at[x])
          = o(C, beta.at[y], o(C, G.mor[m], alpha.at[x]))
    BY <1>1, <2>2, <2>3, Associates
  <2>7. o(C, beta.at[y], o(C, alpha.at[y], F.mor[m])) = o(C, n.at[y], F.mor[m])
    BY <1>1, <2>2, <2>4, Associates
  <2>8. o(C, H.mor[m], n.at[x]) = o(C, n.at[y], F.mor[m])
    BY <2>2, <2>3, <2>5, <2>6, <2>7
  <2> QED BY <1>2, <2>8 DEF Square, x, y
<1> QED BY <1>3, <1>5, <1>6 DEF Natural, n

\* cat89_nat_whisker_left: a functor preserves squares.
LEMMA WhiskerLeftNatural ==
    ASSUME NEW C, NEW H, Endo(C, H), NEW alpha, Natural(C, alpha)
    PROVE  /\ Natural(C, WhiskerLeft(H, alpha))
           /\ \A x \in C.objs : WhiskerLeft(H, alpha).at[x] = H.mor[alpha.at[x]]
<1> DEFINE n == WhiskerLeft(H, alpha)
           F == alpha.src
           G == alpha.tgt
           HF == FunctorCompose(H, F)
           HG == FunctorCompose(H, G)
<1>1. /\ Endo(C, F) /\ Endo(C, G) /\ IsCategory(C)
      /\ \A x \in C.objs : alpha.at[x] \in Hom(C, F.obj[x], G.obj[x])
  BY EndoParts DEF Natural, NatForm
<1>2. /\ n.src = HF /\ n.tgt = HG
      /\ n.at = [x \in C.objs |-> H.mor[alpha.at[x]]]
  BY <1>1 DEF WhiskerLeft, Endo
<1>3. /\ Endo(C, HF) /\ Endo(C, HG)
      /\ \A x \in C.objs : HF.obj[x] = H.obj[F.obj[x]] /\ HG.obj[x] = H.obj[G.obj[x]]
      /\ \A m \in C.mors : HF.mor[m] = H.mor[F.mor[m]] /\ HG.mor[m] = H.mor[G.mor[m]]
  BY <1>1, FunctorComposeEndo
<1> HIDE DEF n, HF, HG
<1>4. \A x \in C.objs : n.at[x] = H.mor[alpha.at[x]]
  BY <1>2
<1>5. ASSUME NEW x \in C.objs
      PROVE  n.at[x] \in Hom(C, HF.obj[x], HG.obj[x])
  <2>1. /\ alpha.at[x] \in C.mors
        /\ C.dom[alpha.at[x]] = F.obj[x] /\ C.cod[alpha.at[x]] = G.obj[x]
    BY <1>1 DEF Hom
  <2>2. /\ H.mor[alpha.at[x]] \in C.mors
        /\ C.dom[H.mor[alpha.at[x]]] = H.obj[F.obj[x]]
        /\ C.cod[H.mor[alpha.at[x]]] = H.obj[G.obj[x]]
    BY <2>1, EndoAt
  <2> QED BY <1>3, <1>4, <2>2 DEF Hom
<1>6. NatForm(C, n)
  BY <1>2, <1>3, <1>5 DEF NatForm
<1>7. ASSUME NEW m \in C.mors
      PROVE  Square(C, n, m)
  <2> DEFINE x == C.dom[m]
             y == C.cod[m]
  <2>1. x \in C.objs /\ y \in C.objs
    BY <1>1, Units
  <2>2. /\ Meet(C, G.mor[m], alpha.at[x]) /\ Meet(C, alpha.at[y], F.mor[m])
        /\ o(C, G.mor[m], alpha.at[x]) = o(C, alpha.at[y], F.mor[m])
    BY SquareMeets DEF Natural, Square
  <2>3. /\ H.mor[o(C, G.mor[m], alpha.at[x])] = o(C, H.mor[G.mor[m]], H.mor[alpha.at[x]])
        /\ H.mor[o(C, alpha.at[y], F.mor[m])] = o(C, H.mor[alpha.at[y]], H.mor[F.mor[m]])
    BY <2>2, EndoMeets
  <2> HIDE DEF x, y
  <2>4. o(C, HG.mor[m], n.at[x]) = o(C, n.at[y], HF.mor[m])
    BY <1>3, <1>4, <2>1, <2>2, <2>3
  <2> QED BY <1>2, <2>4 DEF Square, x, y
<1> QED BY <1>4, <1>6, <1>7 DEF Natural, n

\* cat89_nat_whisker_right: the components and squares at images.
LEMMA WhiskerRightNatural ==
    ASSUME NEW C, NEW alpha, Natural(C, alpha), NEW K, Endo(C, K)
    PROVE  /\ Natural(C, WhiskerRight(alpha, K))
           /\ \A x \in C.objs : WhiskerRight(alpha, K).at[x] = alpha.at[K.obj[x]]
<1> DEFINE n == WhiskerRight(alpha, K)
           F == alpha.src
           G == alpha.tgt
           FK == FunctorCompose(F, K)
           GK == FunctorCompose(G, K)
<1>1. /\ Endo(C, F) /\ Endo(C, G) /\ IsCategory(C)
      /\ \A x \in C.objs : alpha.at[x] \in Hom(C, F.obj[x], G.obj[x])
      /\ K.src = C /\ K.obj \in [C.objs -> C.objs]
  BY EndoParts DEF Natural, NatForm
<1>2. /\ n.src = FK /\ n.tgt = GK
      /\ n.at = [x \in C.objs |-> alpha.at[K.obj[x]]]
  BY <1>1 DEF WhiskerRight
<1>3. /\ Endo(C, FK) /\ Endo(C, GK)
      /\ \A x \in C.objs : FK.obj[x] = F.obj[K.obj[x]] /\ GK.obj[x] = G.obj[K.obj[x]]
      /\ \A m \in C.mors : FK.mor[m] = F.mor[K.mor[m]] /\ GK.mor[m] = G.mor[K.mor[m]]
  BY <1>1, FunctorComposeEndo
<1> HIDE DEF n, FK, GK
<1>4. \A x \in C.objs : n.at[x] = alpha.at[K.obj[x]] /\ K.obj[x] \in C.objs
  BY <1>1, <1>2
<1>5. NatForm(C, n)
  BY <1>1, <1>2, <1>3, <1>4 DEF NatForm
<1>6. ASSUME NEW m \in C.mors
      PROVE  Square(C, n, m)
  <2> DEFINE x == C.dom[m]
             y == C.cod[m]
             k == K.mor[m]
  <2>1. x \in C.objs /\ y \in C.objs
    BY <1>1, Units
  <2>2. k \in C.mors /\ C.dom[k] = K.obj[x] /\ C.cod[k] = K.obj[y]
    BY EndoAt
  <2>3. Square(C, alpha, k)
    BY <2>2 DEF Natural
  <2>4. /\ n.at[x] = alpha.at[C.dom[k]] /\ n.at[y] = alpha.at[C.cod[k]]
        /\ GK.mor[m] = G.mor[k] /\ FK.mor[m] = F.mor[k]
    BY <1>3, <1>4, <2>1, <2>2
  <2> HIDE DEF x, y, k
  <2> QED BY <1>2, <2>3, <2>4 DEF Square, x, y
<1> QED BY <1>4, <1>5, <1>6 DEF Natural, n

\* The interchange law is the square of beta at each component of alpha.
LEMMA Interchanges ==
    ASSUME NEW C, NEW beta, Natural(C, beta), NEW alpha, Natural(C, alpha)
    PROVE  Vertical(WhiskerRight(beta, alpha.tgt), WhiskerLeft(beta.src, alpha)) =
           Vertical(WhiskerLeft(beta.tgt, alpha), WhiskerRight(beta, alpha.src))
<1> DEFINE F == alpha.src
           G == alpha.tgt
           P == beta.src
           Q == beta.tgt
           PF == FunctorCompose(P, F)
           QG == FunctorCompose(Q, G)
           wr1 == WhiskerRight(beta, G)
           wl1 == WhiskerLeft(P, alpha)
           wl2 == WhiskerLeft(Q, alpha)
           wr2 == WhiskerRight(beta, F)
<1>1. /\ Endo(C, F) /\ Endo(C, G) /\ Endo(C, P) /\ Endo(C, Q)
      /\ \A x \in C.objs : alpha.at[x] \in Hom(C, F.obj[x], G.obj[x])
  BY DEF Natural, NatForm
<1>2. PF.src = C /\ PF.tgt = C
  BY <1>1 DEF FunctorCompose, Endo
<1>3. /\ wl1.src = PF /\ wr1.tgt = QG /\ wr2.src = PF /\ wl2.tgt = QG
  BY DEF WhiskerLeft, WhiskerRight
<1>4. \A x \in C.objs : /\ wr1.at[x] = beta.at[G.obj[x]]
                        /\ wl1.at[x] = P.mor[alpha.at[x]]
                        /\ wl2.at[x] = Q.mor[alpha.at[x]]
                        /\ wr2.at[x] = beta.at[F.obj[x]]
  <2>1. \A x \in C.objs : wr1.at[x] = beta.at[G.obj[x]]
    BY <1>1 DEF WhiskerRight, Endo
  <2>2. \A x \in C.objs : wl1.at[x] = P.mor[alpha.at[x]]
    BY <1>1, WhiskerLeftNatural
  <2>3. \A x \in C.objs : wl2.at[x] = Q.mor[alpha.at[x]]
    BY <1>1, WhiskerLeftNatural
  <2>4. \A x \in C.objs : wr2.at[x] = beta.at[F.obj[x]]
    BY <1>1 DEF WhiskerRight, Endo
  <2> QED BY <2>1, <2>2, <2>3, <2>4
<1> HIDE DEF PF, QG, wr1, wl1, wl2, wr2
<1>5. ASSUME NEW x \in C.objs
      PROVE  o(C, wr1.at[x], wl1.at[x]) = o(C, wl2.at[x], wr2.at[x])
  <2>1. /\ alpha.at[x] \in C.mors
        /\ C.dom[alpha.at[x]] = F.obj[x] /\ C.cod[alpha.at[x]] = G.obj[x]
    BY <1>1 DEF Hom
  <2>2. Square(C, beta, alpha.at[x])
    BY <2>1 DEF Natural
  <2> QED BY <1>4, <2>1, <2>2 DEF Square
<1>6. Vertical(wr1, wl1) =
        [src |-> PF, tgt |-> QG, at |-> [x \in C.objs |-> o(C, wr1.at[x], wl1.at[x])]]
  BY <1>2, <1>3 DEF Vertical
<1>7. Vertical(wl2, wr2) =
        [src |-> PF, tgt |-> QG, at |-> [x \in C.objs |-> o(C, wl2.at[x], wr2.at[x])]]
  BY <1>2, <1>3 DEF Vertical
<1>8. [x \in C.objs |-> o(C, wr1.at[x], wl1.at[x])] =
      [x \in C.objs |-> o(C, wl2.at[x], wr2.at[x])]
  BY <1>5
<1>9. Vertical(wr1, wl1) = Vertical(wl2, wr2)
  BY <1>6, <1>7, <1>8
<1> QED BY <1>9 DEF wr1, wl1, wl2, wr2

---------------------------------------------------------------------------
(* Isomorphisms and split pairs.                                           *)

\* f back and forth, and g is undone by f.
Facing(C, p) == p[1] \in C.mors /\ p[2] \in C.mors /\ Opposed(C, p[1], p[2])

\* b after a is the identity.
Undone(C, b, a) == o(C, b, a) = C.id[C.dom[a]]

\* The check of an identity law decides whether one arrow undoes the other.
LEMMA UndoneChecked ==
    ASSUME NEW C, IsCategory(C), NEW a \in C.mors, NEW b \in C.mors, Opposed(C, a, b)
    PROVE  /\ Meet(C, b, a) /\ Meet(C, a, b)
           /\ LawIdentity(C, b, a, C.dom[a]) <=> Undone(C, b, a)
           /\ LawIdentity(C, a, b, C.cod[a]) <=> Undone(C, a, b)
<1>1. Meet(C, b, a) /\ Meet(C, a, b) /\ C.dom[b] = C.cod[a]
  BY DEF Opposed, Meet
<1>2. /\ Compose(C, b, a) = [st |-> "ok", mor |-> o(C, b, a)]
      /\ Compose(C, a, b) = [st |-> "ok", mor |-> o(C, a, b)]
  BY <1>1, ComposeOk
<1>3. ASSUME NEW u, NEW v
      PROVE  [st |-> "ok", mor |-> u] = [st |-> "ok", mor |-> v] <=> u = v
  <2>1. [st |-> "ok", mor |-> u].mor = u /\ [st |-> "ok", mor |-> v].mor = v
    OBVIOUS
  <2> QED BY <2>1
<1>4. LawIdentity(C, b, a, C.dom[a]) <=> Undone(C, b, a)
  BY <1>2, <1>3 DEF LawIdentity, Undone
<1>5. LawIdentity(C, a, b, C.cod[a]) <=> Undone(C, a, b)
  BY <1>1, <1>2, <1>3 DEF LawIdentity, Undone
<1> QED BY <1>1, <1>4, <1>5

\* What undoes g after f is what undoes f after what undoes g.
LEMMA UndoneComposed ==
    ASSUME NEW C, IsCategory(C), NEW f, NEW g, Facing(C, f), Facing(C, g),
           C.cod[f[1]] = C.dom[g[1]],
           Undone(C, f[2], f[1]), Undone(C, g[2], g[1])
    PROVE  Undone(C, o(C, f[2], g[2]), o(C, g[1], f[1]))
<1> DEFINE s == f[1]
           r == f[2]
           t == g[1]
           q == g[2]
<1>1. /\ Meet(C, t, s) /\ Meet(C, r, q) /\ Meet(C, q, t) /\ Meet(C, r, s)
  BY DEF Facing, Opposed, Meet
<1>2. o(C, r, s) = C.id[C.dom[s]] /\ o(C, q, t) = C.id[C.dom[t]]
  BY DEF Undone
<1> HIDE DEF s, r, t, q
<1>3. /\ o(C, o(C, r, q), o(C, t, s)) = o(C, r, o(C, q, o(C, t, s)))
  <2>1. Meet(C, q, o(C, t, s))
    BY <1>1, Associates
  <2> QED BY <1>1, <2>1, Associates
<1>4. o(C, q, o(C, t, s)) = o(C, o(C, q, t), s)
  BY <1>1, Associates
<1>5. o(C, C.id[C.dom[t]], s) = s
  <2>1. s \in C.mors /\ C.cod[s] = C.dom[t]
    BY <1>1 DEF Meet
  <2> QED BY <2>1, Units
<1>6. C.dom[o(C, t, s)] = C.dom[s]
  BY <1>1, Composes
<1>7. Undone(C, o(C, r, q), o(C, t, s))
  BY <1>2, <1>3, <1>4, <1>5, <1>6 DEF Undone
<1> QED BY <1>7 DEF s, r, t, q

\* A section and its retraction.
Retract(C, p) == Facing(C, p) /\ Undone(C, p[2], p[1])

\* The checks of check.c on a pair, as retracts.
LEMMA PairsChecked ==
    ASSUME NEW C, IsCategory(C), NEW p, Facing(C, p)
    PROVE  /\ CheckSplitMono(C, p) <=> Retract(C, p)
           /\ CheckSplitEpi(C, p) <=> Retract(C, IsoInvert(p))
           /\ CheckIso(C, p) <=> Retract(C, p) /\ Retract(C, IsoInvert(p))
<1>1. /\ p[1] \in C.mors /\ p[2] \in C.mors
      /\ Opposed(C, p[1], p[2])
  BY DEF Facing
<1>2. Facing(C, IsoInvert(p)) /\ IsoInvert(p)[1] = p[2] /\ IsoInvert(p)[2] = p[1]
  BY <1>1 DEF Facing, IsoInvert, Opposed
<1>3. /\ LawIdentity(C, p[2], p[1], C.dom[p[1]]) <=> Undone(C, p[2], p[1])
      /\ LawIdentity(C, p[1], p[2], C.cod[p[1]]) <=> Undone(C, p[1], p[2])
  BY <1>1, UndoneChecked
<1> QED BY <1>2, <1>3 DEF CheckSplitMono, CheckSplitEpi, CheckIso, Retract

\* What the kernel composes meets.
LEMMA ComposedMeets ==
    ASSUME NEW C, NEW g \in C.mors, NEW f \in C.mors, Compose(C, g, f).st = "ok"
    PROVE  Meet(C, g, f) /\ Compose(C, g, f).mor = o(C, g, f)
BY DEF Compose, Meet, o

\* cat89_iso_compose, cat89_split_mono_compose and cat89_split_epi_compose.
LEMMA PairsComposed ==
    ASSUME NEW C, IsCategory(C), NEW f, Facing(C, f), NEW g, Facing(C, g),
           NEW both, both = PairCompose(C, g, f),
           both[1].st = "ok", both[2].st = "ok",
           NEW it, it = <<both[1].mor, both[2].mor>>
    PROVE  /\ Facing(C, it)
           /\ Retract(C, f) /\ Retract(C, g) => Retract(C, it)
           /\ Retract(C, IsoInvert(f)) /\ Retract(C, IsoInvert(g)) => Retract(C, IsoInvert(it))
<1>1. /\ Meet(C, g[1], f[1]) /\ both[1].mor = o(C, g[1], f[1])
      /\ Meet(C, f[2], g[2]) /\ both[2].mor = o(C, f[2], g[2])
  BY ComposedMeets DEF PairCompose, Facing
<1>2. it[1] = o(C, g[1], f[1]) /\ it[2] = o(C, f[2], g[2])
  BY <1>1
<1>3. Facing(C, it)
  <2>1. /\ it[1] \in C.mors /\ C.dom[it[1]] = C.dom[f[1]] /\ C.cod[it[1]] = C.cod[g[1]]
        /\ it[2] \in C.mors /\ C.dom[it[2]] = C.dom[g[2]] /\ C.cod[it[2]] = C.cod[f[2]]
    BY <1>1, <1>2, Composes
  <2> QED BY <2>1 DEF Facing, Opposed
<1>4. ASSUME Retract(C, f), Retract(C, g)
      PROVE  Retract(C, it)
  <2>1. C.cod[f[1]] = C.dom[g[1]]
    BY <1>1 DEF Meet
  <2>2. Undone(C, o(C, f[2], g[2]), o(C, g[1], f[1]))
    BY <1>4, <2>1, UndoneComposed DEF Retract
  <2> QED BY <1>2, <1>3, <2>2 DEF Retract
<1>5. ASSUME Retract(C, IsoInvert(f)), Retract(C, IsoInvert(g))
      PROVE  Retract(C, IsoInvert(it))
  <2> DEFINE u == IsoInvert(g)
             v == IsoInvert(f)
  <2>1. /\ u[1] = g[2] /\ u[2] = g[1] /\ v[1] = f[2] /\ v[2] = f[1]
        /\ Retract(C, u) /\ Retract(C, v)
    BY <1>5 DEF IsoInvert
  <2> HIDE DEF u, v
  <2>2. C.cod[u[1]] = C.dom[v[1]]
    BY <1>1, <2>1 DEF Meet
  <2>3. Undone(C, o(C, u[2], v[2]), o(C, v[1], u[1]))
    BY <2>1, <2>2, UndoneComposed DEF Retract
  <2>4. Undone(C, it[1], it[2])
    BY <1>2, <2>1, <2>3
  <2>5. IsoInvert(it)[1] = it[2] /\ IsoInvert(it)[2] = it[1]
    BY DEF IsoInvert
  <2> QED BY <1>3, <2>4, <2>5 DEF Retract, Facing, Opposed
<1> QED BY <1>3, <1>4, <1>5

---------------------------------------------------------------------------
(* Paths.                                                                  *)

\* A sequence of edges, each from where the one before it ends.
Chained(p) == \A i \in 1 .. Len(p) - 1 : p[i][2] = p[i + 1][1]

\* m is a path of edges between its two ends.
Path(m) ==
    /\ m[3] \in Seq(Edges) /\ Len(m[3]) > 0
    /\ Chained(m[3])
    /\ m[3][1][1] = m[1] /\ m[3][Len(m[3])][2] = m[2]

\* One edge is a path.
LEMMA EdgePath ==
    ASSUME NEW e \in Edges
    PROVE  Path(FreeEdge(e)) /\ FreeEdge(e)[1] = e[1] /\ FreeEdge(e)[2] = e[2]
<1>1. <<e>> \in Seq(Edges) /\ Len(<<e>>) = 1 /\ <<e>>[1] = e
  OBVIOUS
<1>2. FreeEdge(e)[1] = e[1] /\ FreeEdge(e)[2] = e[2] /\ FreeEdge(e)[3] = <<e>>
  BY DEF FreeEdge
<1>3. Chained(<<e>>)
  BY <1>1 DEF Chained
<1> QED BY <1>1, <1>2, <1>3 DEF Path

\* Two chains whose ends meet are one chain.
LEMMA ChainsJoin ==
    ASSUME NEW s \in Seq(Edges), Len(s) > 0, Chained(s),
           NEW t \in Seq(Edges), Len(t) > 0, Chained(t),
           s[Len(s)][2] = t[1][1]
    PROVE  /\ s \o t \in Seq(Edges) /\ Len(s \o t) > 0
           /\ Chained(s \o t)
           /\ (s \o t)[1] = s[1] /\ (s \o t)[Len(s \o t)] = t[Len(t)]
<1> DEFINE k == Len(s)
           l == Len(t)
           w == s \o t
<1>1. /\ k \in Nat /\ l \in Nat /\ k > 0 /\ l > 0
      /\ w \in Seq(Edges) /\ Len(w) = k + l
      /\ \A i \in 1 .. k + l : w[i] = IF i <= k THEN s[i] ELSE t[i - k]
  OBVIOUS
<1>2. /\ \A i \in 1 .. k - 1 : s[i][2] = s[i + 1][1]
      /\ \A i \in 1 .. l - 1 : t[i][2] = t[i + 1][1]
      /\ s[k][2] = t[1][1]
  BY DEF Chained
<1> HIDE DEF k, l, w
<1>3. ASSUME NEW i \in 1 .. k + l - 1
      PROVE  w[i][2] = w[i + 1][1]
  <2>1. i \in Nat /\ i \in 1 .. k + l /\ i + 1 \in 1 .. k + l
    BY <1>1
  <2>2. CASE i < k
    <3>1. w[i] = s[i] /\ w[i + 1] = s[i + 1] /\ i \in 1 .. k - 1
      BY <1>1, <2>1, <2>2
    <3> QED BY <1>2, <3>1
  <2>3. CASE i = k
    <3>1. w[i] = s[k] /\ w[i + 1] = t[i + 1 - k] /\ i + 1 - k = 1
      BY <1>1, <2>1, <2>3
    <3> QED BY <1>2, <3>1
  <2>4. CASE i > k
    <3>1. /\ w[i] = t[i - k] /\ w[i + 1] = t[i + 1 - k]
          /\ i - k \in 1 .. l - 1 /\ i + 1 - k = (i - k) + 1
      BY <1>1, <2>1, <2>4
    <3>2. t[i - k][2] = t[(i - k) + 1][1]
      BY <1>2, <3>1
    <3> QED BY <3>1, <3>2
  <2> QED BY <1>1, <2>1, <2>2, <2>3, <2>4
<1>4. Chained(w)
  BY <1>1, <1>3 DEF Chained
<1>5. w[1] = s[1] /\ w[k + l] = t[l]
  <2>1. 1 \in 1 .. k + l /\ k + l \in 1 .. k + l /\ 1 <= k /\ ~(k + l <= k) /\ k + l - k = l
    BY <1>1
  <2> QED BY <1>1, <2>1
<1> QED BY <1>1, <1>4, <1>5 DEF w, k, l

\* free_cat_compose.
LEMMA PathsCompose ==
    ASSUME NEW g, Path(g), NEW f, Path(f), f[2] = g[1]
    PROVE  Path(FreeCompose(g, f))
<1> DEFINE s == f[3]
           t == g[3]
           w == s \o t
           join == FreeCompose(g, f)
<1>1. /\ s \in Seq(Edges) /\ Len(s) > 0 /\ Chained(s) /\ s[1][1] = f[1] /\ s[Len(s)][2] = f[2]
      /\ t \in Seq(Edges) /\ Len(t) > 0 /\ Chained(t) /\ t[1][1] = g[1] /\ t[Len(t)][2] = g[2]
  BY DEF Path
<1>2. s # << >> /\ t # << >>
  BY <1>1
<1>3. join = <<f[1], g[2], w>>
  BY <1>2 DEF FreeCompose
<1> HIDE DEF s, t, join
<1>4. s[Len(s)][2] = t[1][1]
  BY <1>1
<1>5. /\ w \in Seq(Edges) /\ Len(w) > 0 /\ Chained(w)
      /\ w[1] = s[1] /\ w[Len(w)] = t[Len(t)]
  BY <1>1, <1>4, ChainsJoin
<1> HIDE DEF w
<1>6. join[1] = f[1] /\ join[2] = g[2] /\ join[3] = w
  BY <1>3
<1>7. Path(join)
  BY <1>1, <1>5, <1>6 DEF Path
<1> QED BY <1>7 DEF join

---------------------------------------------------------------------------
(* The client.                                                             *)

\* A structure of its kind over C is lawful.
StructureOk(C, st) ==
    /\ st.kind = "functor" => Endo(C, st.it)
    /\ st.kind = "nat" => Natural(C, st.it)
    /\ st.kind = "iso" => /\ Facing(C, st.it)
                          /\ Retract(C, st.it) /\ Retract(C, IsoInvert(st.it))
    /\ st.kind = "mono" => Facing(C, st.it) /\ Retract(C, st.it)
    /\ st.kind = "epi" => Facing(C, st.it) /\ Retract(C, IsoInvert(st.it))
    /\ st.kind = "path" => Path(st.it)

\* The category, functors and transformations the structures are built from.
InputsOk ==
    /\ IsCategory(inputs.cat)
    /\ inputs.functors = Functors(inputs.cat)
    /\ inputs.nats = Nats(inputs.cat)

\* The inductive invariant of the structures.
StructInv == InputsOk /\ StructureOk(inputs.cat, structure)

\* One structure of each kind.
LEMMA KindOk ==
    ASSUME NEW C, NEW it
    PROVE  /\ Endo(C, it) => StructureOk(C, [kind |-> "functor", it |-> it])
           /\ Natural(C, it) => StructureOk(C, [kind |-> "nat", it |-> it])
           /\ Facing(C, it) /\ Retract(C, it) /\ Retract(C, IsoInvert(it))
                => StructureOk(C, [kind |-> "iso", it |-> it])
           /\ Facing(C, it) /\ Retract(C, it) => StructureOk(C, [kind |-> "mono", it |-> it])
           /\ Facing(C, it) /\ Retract(C, IsoInvert(it))
                => StructureOk(C, [kind |-> "epi", it |-> it])
           /\ Path(it) => StructureOk(C, [kind |-> "path", it |-> it])
<1>1. ASSUME NEW kind
      PROVE  [kind |-> kind, it |-> it].kind = kind /\ [kind |-> kind, it |-> it].it = it
  OBVIOUS
<1> QED BY <1>1 DEF StructureOk

\* The pairs of a category that pass the checks of check.c.
LEMMA PairsGiven ==
    ASSUME NEW C, IsCategory(C), NEW p
    PROVE  /\ p \in IsoPairs(C) => /\ Facing(C, p)
                                   /\ Retract(C, p) /\ Retract(C, IsoInvert(p))
           /\ p \in SplitMonos(C) => Facing(C, p) /\ Retract(C, p)
           /\ p \in SplitEpis(C) => Facing(C, p) /\ Retract(C, IsoInvert(p))
<1>1. /\ p \in IsoPairs(C) => Facing(C, p) /\ CheckIso(C, p)
      /\ p \in SplitMonos(C) => Facing(C, p) /\ CheckSplitMono(C, p)
      /\ p \in SplitEpis(C) => Facing(C, p) /\ CheckSplitEpi(C, p)
  BY DEF IsoPairs, SplitMonos, SplitEpis, Facing
<1> QED BY <1>1, PairsChecked

\* The client starts with what it has checked.
LEMMA StructInvInit ==
    ASSUME StructInit
    PROVE  StructInv
<1> DEFINE C == inputs.cat
<1>1. InputsOk
  <2>1. PICK D \in Categories :
             inputs = [cat |-> D, functors |-> Functors(D), nats |-> Nats(D)]
    BY DEF StructInit
  <2>2. inputs.cat = D /\ inputs.functors = Functors(D) /\ inputs.nats = Nats(D)
    BY <2>1
  <2>3. PICK b \in Builders : BuilderValid(b) /\ D = Store(b)
    BY DEF Categories
  <2>4. IsCategory(D)
    BY <2>3, BuildersTyped, ValidStore
  <2> QED BY <2>2, <2>4 DEF InputsOk
<1>2. IsCategory(C)
  BY <1>1 DEF InputsOk
<1>3. CASE \E F \in inputs.functors : structure = [kind |-> "functor", it |-> F]
  <2>1. PICK F \in inputs.functors : structure = [kind |-> "functor", it |-> F]
    BY <1>3
  <2>2. Endo(C, F)
    BY <1>1, <1>2, FunctorsEndo DEF InputsOk
  <2> QED BY <1>1, <2>1, <2>2, KindOk DEF StructInv
<1>4. CASE \E n \in inputs.nats : structure = [kind |-> "nat", it |-> n]
  <2>1. PICK n \in inputs.nats : structure = [kind |-> "nat", it |-> n]
    BY <1>4
  <2>2. Natural(C, n)
    BY <1>1, <1>2, NatsNatural DEF InputsOk
  <2> QED BY <1>1, <2>1, <2>2, KindOk DEF StructInv
<1>5. CASE \E F \in inputs.functors : structure = [kind |-> "nat", it |-> IdentityNat(F)]
  <2>1. PICK F \in inputs.functors : structure = [kind |-> "nat", it |-> IdentityNat(F)]
    BY <1>5
  <2>2. Endo(C, F)
    BY <1>1, <1>2, FunctorsEndo DEF InputsOk
  <2>3. Natural(C, IdentityNat(F))
    BY <2>2, IdentityNatural
  <2> QED BY <1>1, <2>1, <2>3, KindOk DEF StructInv
<1>6. CASE \E p \in IsoPairs(C) : structure = [kind |-> "iso", it |-> p]
  BY <1>1, <1>2, <1>6, PairsGiven, KindOk DEF StructInv
<1>7. CASE \E p \in SplitMonos(C) : structure = [kind |-> "mono", it |-> p]
  BY <1>1, <1>2, <1>7, PairsGiven, KindOk DEF StructInv
<1>8. CASE \E p \in SplitEpis(C) : structure = [kind |-> "epi", it |-> p]
  BY <1>1, <1>2, <1>8, PairsGiven, KindOk DEF StructInv
<1>9. CASE \E e \in Edges : structure = [kind |-> "path", it |-> FreeEdge(e)]
  BY <1>1, <1>9, EdgePath, KindOk DEF StructInv
<1> QED BY <1>3, <1>4, <1>5, <1>6, <1>7, <1>8, <1>9 DEF StructInit

\* A lawful structure from the same inputs keeps the invariant.
LEMMA Becomes ==
    ASSUME StructInv, NEW kind, NEW it, UNCHANGED inputs,
           structure' = [kind |-> kind, it |-> it],
           StructureOk(inputs.cat, [kind |-> kind, it |-> it])
    PROVE  StructInv'
BY DEF StructInv, InputsOk

\* Composing functors keeps the invariant.
LEMMA FunctorStep ==
    ASSUME StructInv, structure.kind = "functor", ComposeFunctors
    PROVE  StructInv'
<1> DEFINE C == inputs.cat
<1>1. PICK G \in inputs.functors : Become("functor", FunctorCompose(G, structure.it))
  BY DEF ComposeFunctors
<1>2. Endo(C, G) /\ Endo(C, structure.it)
  BY FunctorsEndo DEF StructInv, InputsOk, StructureOk
<1>3. Endo(C, FunctorCompose(G, structure.it))
  BY <1>2, FunctorComposeEndo
<1> QED BY <1>1, <1>3, KindOk, Becomes DEF Become

\* Composing and whiskering transformations keeps the invariant.
LEMMA NatStep ==
    ASSUME StructInv, structure.kind = "nat", ComposeVertical \/ DoWhiskerLeft \/ DoWhiskerRight
    PROVE  StructInv'
<1> DEFINE C == inputs.cat
           alpha == structure.it
<1>1. /\ IsCategory(C) /\ Natural(C, alpha)
      /\ \A F \in inputs.functors : Endo(C, F)
      /\ \A n \in inputs.nats : Natural(C, n)
  BY FunctorsEndo, NatsNatural DEF StructInv, InputsOk, StructureOk
<1>2. ASSUME NEW n, Natural(C, n), Become("nat", n)
      PROVE  StructInv'
  BY <1>2, KindOk, Becomes DEF Become
<1>3. CASE ComposeVertical
  <2>1. PICK beta \in inputs.nats : beta.src = alpha.tgt /\ Become("nat", Vertical(beta, alpha))
    BY <1>3 DEF ComposeVertical
  <2>2. Natural(C, beta)
    BY <1>1
  <2>3. Natural(C, Vertical(beta, alpha))
    BY <1>1, <2>1, <2>2, VerticalNatural
  <2> QED BY <1>2, <2>1, <2>3
<1>4. CASE DoWhiskerLeft
  <2>1. PICK H \in inputs.functors : Become("nat", WhiskerLeft(H, alpha))
    BY <1>4 DEF DoWhiskerLeft
  <2>2. Endo(C, H)
    BY <1>1
  <2>3. Natural(C, WhiskerLeft(H, alpha))
    BY <1>1, <2>2, WhiskerLeftNatural
  <2> QED BY <1>2, <2>1, <2>3
<1>5. CASE DoWhiskerRight
  <2>1. PICK K \in inputs.functors : Become("nat", WhiskerRight(alpha, K))
    BY <1>5 DEF DoWhiskerRight
  <2>2. Endo(C, K)
    BY <1>1
  <2>3. Natural(C, WhiskerRight(alpha, K))
    BY <1>1, <2>2, WhiskerRightNatural
  <2> QED BY <1>2, <2>1, <2>3
<1> QED BY <1>3, <1>4, <1>5

\* Composing and converting isomorphisms, monos and epis keeps the invariant.
LEMMA PairStep ==
    ASSUME StructInv,
           \/ structure.kind = "iso" /\ (ComposeIsos \/ InvertIso \/ IsoAsSplitMono \/ IsoAsSplitEpi)
           \/ structure.kind = "mono" /\ ComposeMonos
           \/ structure.kind = "epi" /\ ComposeEpis
    PROVE  StructInv'
<1> DEFINE C == inputs.cat
           f == structure.it
<1>1. IsCategory(C) /\ StructureOk(C, structure)
  BY DEF StructInv, InputsOk
<1>2. ASSUME NEW kind \in {"iso", "mono", "epi"}, NEW pairs, ComposePairs(kind, pairs),
             \A g \in pairs : Facing(C, g), Facing(C, f)
      PROVE  \E it : \E g \in pairs :
                /\ Become(kind, it) /\ Facing(C, it)
                /\ Retract(C, f) /\ Retract(C, g) => Retract(C, it)
                /\ Retract(C, IsoInvert(f)) /\ Retract(C, IsoInvert(g))
                     => Retract(C, IsoInvert(it))
  <2>1. PICK g \in pairs :
             LET both == PairCompose(C, g, f)
             IN /\ both[1].st = "ok" /\ both[2].st = "ok"
                /\ Become(kind, <<both[1].mor, both[2].mor>>)
    BY <1>2 DEF ComposePairs
  <2> DEFINE both == PairCompose(C, g, f)
             it == <<both[1].mor, both[2].mor>>
  <2>2. both[1].st = "ok" /\ both[2].st = "ok" /\ Become(kind, it)
    BY <2>1
  <2>3. Facing(C, g)
    BY <1>2
  <2> HIDE DEF both
  <2>4. both = PairCompose(C, g, f)
    BY DEF both
  <2>5. it = <<both[1].mor, both[2].mor>>
    OBVIOUS
  <2> HIDE DEF it
  <2>6. /\ Facing(C, it)
        /\ Retract(C, f) /\ Retract(C, g) => Retract(C, it)
        /\ Retract(C, IsoInvert(f)) /\ Retract(C, IsoInvert(g)) => Retract(C, IsoInvert(it))
    BY <1>1, <1>2, <2>2, <2>3, <2>4, <2>5, PairsComposed
  <2> QED BY <2>2, <2>6
<1>3. ASSUME structure.kind = "iso", ComposeIsos
      PROVE  StructInv'
  <2>1. /\ Facing(C, f) /\ Retract(C, f) /\ Retract(C, IsoInvert(f))
        /\ \A g \in IsoPairs(C) : /\ Facing(C, g)
                                  /\ Retract(C, g) /\ Retract(C, IsoInvert(g))
    BY <1>1, <1>3, PairsGiven DEF StructureOk
  <2>2. PICK it : /\ Become("iso", it) /\ Facing(C, it)
                  /\ Retract(C, it) /\ Retract(C, IsoInvert(it))
    BY <1>2, <1>3, <2>1 DEF ComposeIsos
  <2> QED BY <2>2, KindOk, Becomes DEF Become
<1>4. ASSUME structure.kind = "mono", ComposeMonos
      PROVE  StructInv'
  <2>1. /\ Facing(C, f) /\ Retract(C, f)
        /\ \A g \in SplitMonos(C) : Facing(C, g) /\ Retract(C, g)
    BY <1>1, <1>4, PairsGiven DEF StructureOk
  <2>2. PICK it : Become("mono", it) /\ Facing(C, it) /\ Retract(C, it)
    BY <1>2, <1>4, <2>1 DEF ComposeMonos
  <2> QED BY <2>2, KindOk, Becomes DEF Become
<1>5. ASSUME structure.kind = "epi", ComposeEpis
      PROVE  StructInv'
  <2>1. /\ Facing(C, f) /\ Retract(C, IsoInvert(f))
        /\ \A g \in SplitEpis(C) : Facing(C, g) /\ Retract(C, IsoInvert(g))
    BY <1>1, <1>5, PairsGiven DEF StructureOk
  <2>2. PICK it : Become("epi", it) /\ Facing(C, it) /\ Retract(C, IsoInvert(it))
    BY <1>2, <1>5, <2>1 DEF ComposeEpis
  <2> QED BY <2>2, KindOk, Becomes DEF Become
<1>6. ASSUME structure.kind = "iso", InvertIso \/ IsoAsSplitMono \/ IsoAsSplitEpi
      PROVE  StructInv'
  <2>1. Facing(C, f) /\ Retract(C, f) /\ Retract(C, IsoInvert(f))
    BY <1>1, <1>6 DEF StructureOk
  <2>2. CASE InvertIso
    <3>1. /\ IsoInvert(f)[1] = f[2] /\ IsoInvert(f)[2] = f[1]
          /\ IsoInvert(IsoInvert(f))[1] = f[1] /\ IsoInvert(IsoInvert(f))[2] = f[2]
      BY DEF IsoInvert
    <3>2. Facing(C, IsoInvert(f)) /\ Retract(C, IsoInvert(IsoInvert(f)))
      BY <2>1, <3>1 DEF Retract, Facing, Opposed
    <3> QED BY <2>1, <2>2, <3>2, KindOk, Becomes DEF InvertIso, Become
  <2>3. CASE IsoAsSplitMono
    BY <2>1, <2>3, KindOk, Becomes DEF IsoAsSplitMono
  <2>4. CASE IsoAsSplitEpi
    BY <2>1, <2>4, KindOk, Becomes DEF IsoAsSplitEpi
  <2> QED BY <1>6, <2>2, <2>3, <2>4
<1> QED BY <1>3, <1>4, <1>5, <1>6

\* Composing paths keeps the invariant.
LEMMA PathStep ==
    ASSUME StructInv, ComposePaths
    PROVE  StructInv'
<1> DEFINE p == structure.it
<1>1. Path(p)
  BY DEF StructInv, StructureOk, ComposePaths
<1>2. ASSUME NEW q, Path(q), Become("path", q)
      PROVE  StructInv'
  BY <1>2, KindOk, Becomes DEF Become
<1>3. \A e \in Edges : Path(FreeEdge(e)) /\ FreeEdge(e)[1] = e[1] /\ FreeEdge(e)[2] = e[2]
  BY EdgePath
<1>4. ASSUME NEW e \in Edges, e[1] = p[2], Become("path", FreeCompose(FreeEdge(e), p))
      PROVE  StructInv'
  <2>1. Path(FreeEdge(e)) /\ p[2] = FreeEdge(e)[1]
    BY <1>3, <1>4
  <2>2. Path(FreeCompose(FreeEdge(e), p))
    BY <1>1, <2>1, PathsCompose
  <2> QED BY <1>2, <1>4, <2>2
<1>5. ASSUME NEW e \in Edges, e[2] = p[1], Become("path", FreeCompose(p, FreeEdge(e)))
      PROVE  StructInv'
  <2>1. Path(FreeEdge(e)) /\ FreeEdge(e)[2] = p[1]
    BY <1>3, <1>5
  <2>2. Path(FreeCompose(p, FreeEdge(e)))
    BY <1>1, <2>1, PathsCompose
  <2> QED BY <1>2, <1>5, <2>2
<1> QED BY <1>4, <1>5 DEF ComposePaths

\* Every step keeps the invariant of the structures.
LEMMA StructInvNext ==
    ASSUME StructInv, [StructNext]_structVars
    PROVE  StructInv'
<1>1. CASE UNCHANGED structVars
  BY <1>1 DEF structVars, StructInv, InputsOk
<1>2. CASE StructNext
  BY <1>2, FunctorStep, NatStep, PairStep, PathStep DEF StructNext
<1> QED BY <1>1, <1>2

\* Every structure a client arrives at is lawful in the category it works in.
THEOREM StructInvariance == StructSpec => []StructInv
<1>1. StructInit => StructInv
  BY StructInvInit
<1>2. StructInv /\ [StructNext]_structVars => StructInv'
  BY StructInvNext
<1> QED BY <1>1, <1>2, PTL DEF StructSpec

\* What libcat89 composes from lawful structures is lawful again, although
\* functor.c, nat.c, iso.c, split.c and free.c test no law, and whiskering and
\* vertical composition interchange.
THEOREM StructuresLawfulHolds == StructSpec => []StructuresLawful
<1>1. ASSUME StructInv
      PROVE  StructuresLawful
  <2> DEFINE C == inputs.cat
             it == structure.it
  <2>1. IsCategory(C) /\ StructureOk(C, structure)
    BY <1>1 DEF StructInv, InputsOk
  <2>2. structure.kind = "functor" => Typed(it) /\ CheckFunctor(it)
    BY <2>1, EndoChecked DEF StructureOk
  <2>3. structure.kind = "nat" => TypedNat(it) /\ CheckNaturality(it)
    BY <2>1, NaturalChecked DEF StructureOk
  <2>4. /\ structure.kind = "iso" => CheckIso(C, it)
        /\ structure.kind = "mono" => CheckSplitMono(C, it)
        /\ structure.kind = "epi" => CheckSplitEpi(C, it)
    BY <2>1, PairsChecked DEF StructureOk
  <2>5. structure.kind = "path" =>
          LET p == it[3]
          IN /\ \A i \in 1 .. Len(p) - 1 : p[i][2] = p[i + 1][1]
             /\ p[1][1] = it[1] /\ p[Len(p)][2] = it[2]
    BY <2>1 DEF StructureOk, Path, Chained
  <2>6. CompositesLawful
    BY <2>2, <2>3, <2>4, <2>5 DEF CompositesLawful
  <2>7. Interchange
    <3>1. ASSUME structure.kind = "nat", NEW beta \in inputs.nats
          PROVE  Vertical(WhiskerRight(beta, it.tgt), WhiskerLeft(beta.src, it)) =
                 Vertical(WhiskerLeft(beta.tgt, it), WhiskerRight(beta, it.src))
      <4>1. Natural(C, it)
        BY <2>1, <3>1 DEF StructureOk
      <4>2. Natural(C, beta)
        BY <1>1, <2>1, NatsNatural DEF StructInv, InputsOk
      <4> QED BY <4>1, <4>2, Interchanges
    <3> QED BY <3>1 DEF Interchange
  <2> QED BY <2>6, <2>7 DEF StructuresLawful
<1> QED BY <1>1, StructInvariance, PTL
============================================================================
