-------------------------------- MODULE Cat89 ------------------------------
(***************************************************************************)
(* A client of libcat89's finite backend: it fills a builder, builds a     *)
(* category from it, with or without validation, and calls the exhaustive  *)
(* check, the finders, the limits they return and the constructors of      *)
(* derived categories.  answer is what the last call returned.             *)
(***************************************************************************)
EXTENDS Cat89Wrap

CONSTANTS Boots,     \* where the client starts: a builder and how many more rows it sets
          MaxProduct \* the most morphisms of a category that is paired with itself

ASSUME BootsTyped == \A boot \in Boots : BuilderTyped(boot.builder) /\ boot.budget \in Nat

VARIABLES builder, budget, cat, answer

vars == <<builder, budget, cat, answer>>

NoCategory == [objs |-> {}, mors |-> {}]
NoAnswer == [op |-> "none"]

Init ==
    /\ \E boot \in Boots : builder = boot.builder /\ budget = boot.budget
    /\ cat = NoCategory
    /\ answer = NoAnswer

---------------------------------------------------------------------------
(* Filling the builder *)

Fill(b) ==
    /\ cat = NoCategory /\ answer = NoAnswer /\ budget > 0
    /\ builder' = b
    /\ budget' = budget - 1
    /\ UNCHANGED <<cat, answer>>

DoAddObject == Fill(AddObject(builder))
DoAddMorphism == \E d, c \in Objects(builder) : Fill(AddMorphism(builder, d, c))
DoSetIdentity == \E x \in Objects(builder), m \in Morphisms(builder) : Fill(SetIdentity(builder, x, m))
DoSetComposition == \E g, f, r \in Morphisms(builder) : Fill(SetComposition(builder, g, f, r))

---------------------------------------------------------------------------
(* Building: an unchecked build trusts the client for the identities it reads *)

Build ==
    /\ cat = NoCategory /\ answer = NoAnswer
    /\ IF BuilderValid(builder)
       THEN cat' = Store(builder) /\ answer' = NoAnswer
       ELSE cat' = NoCategory /\ answer' = [op |-> "refused"]
    /\ UNCHANGED <<builder, budget>>

BuildUnchecked ==
    /\ cat = NoCategory /\ answer = NoAnswer
    /\ IdentRefsOk(builder)
    /\ answer' = [op |-> "check", res |-> CheckExhaustive(Store(builder))]
    /\ UNCHANGED <<builder, budget, cat>>

---------------------------------------------------------------------------
(* Calls on a category that passed validation *)

Ask(a) ==
    /\ cat # NoCategory /\ answer = NoAnswer
    /\ answer' = a
    /\ UNCHANGED <<builder, budget, cat>>

AskTerminal == Ask([op |-> "terminal", res |-> FindTerminal(cat)])
AskInitial == Ask([op |-> "initial", res |-> FindInitial(cat)])

\* A finder's answer for the objects or morphisms a and b.
Limit(op, a, b, res) == [op |-> op, a |-> a, b |-> b, res |-> res]

AskProduct == \E a, b \in cat.objs : Ask(Limit("product", a, b, FindProduct(cat, a, b)))
AskCoproduct == \E a, b \in cat.objs : Ask(Limit("coproduct", a, b, FindCoproduct(cat, a, b)))

\* The two morphisms of a finder's argument, or DOMAIN.
Parallel(f, g) == cat.dom[f] = cat.dom[g] /\ cat.cod[f] = cat.cod[g]
AskEqualizer ==
    \E f, g \in cat.mors : Parallel(f, g) /\ Ask(Limit("equalizer", f, g, FindEqualizer(cat, f, g)))
AskCoequalizer ==
    \E f, g \in cat.mors : Parallel(f, g) /\ Ask(Limit("coequalizer", f, g, FindCoequalizer(cat, f, g)))
AskPullback ==
    \E f, g \in cat.mors :
        cat.cod[f] = cat.cod[g] /\ Ask(Limit("pullback", f, g, FindPullback(cat, f, g)))
AskPushout ==
    \E f, g \in cat.mors :
        cat.dom[f] = cat.dom[g] /\ Ask(Limit("pushout", f, g, FindPushout(cat, f, g)))

\* The cones (for a colimit, cocones) a client may hand to a found limit:
\* <<vertex, legs>> over its diagram, without legs for the empty one.
Cones ==
    LET C == cat
        a == answer.a
        b == answer.b
        Op == Opposite(cat)
    IN CASE answer.op \in {"terminal", "initial"} -> {<<x, << >>>> : x \in C.objs}
         [] answer.op = "product" -> {<<s[1], <<s[2], s[3]>>>> : s \in ProductCones(C, a, b)}
         [] answer.op = "coproduct" -> {<<s[1], <<s[2], s[3]>>>> : s \in ProductCones(Op, a, b)}
         [] answer.op = "equalizer" ->
              {<<C.dom[h], <<h, o(C, a, h)>>>> : h \in {h \in C.mors :
                   C.cod[h] = C.dom[a] /\ o(C, a, h) = o(C, b, h)}}
         [] answer.op = "coequalizer" ->
              {<<C.cod[h], <<o(C, h, a), h>>>> : h \in {h \in C.mors :
                   C.dom[h] = C.cod[a] /\ o(C, h, a) = o(C, h, b)}}
         [] answer.op = "pullback" ->
              {<<s[1], <<s[2], s[3], o(C, a, s[2])>>>> : s \in PullbackCones(C, a, b)}
         [] answer.op = "pushout" ->
              {<<s[1], <<o(C, s[2], a), s[2], s[3]>>>> : s \in PullbackCones(Op, a, b)}

FactorOf(cone) ==
    CASE answer.op = "terminal" -> TerminalArrow(cat, answer.res.apex, cone[1])
      [] answer.op = "initial" -> InitialArrow(cat, answer.res.apex, cone[1])
      [] answer.op = "product" -> FactorProduct(cat, answer.res, cone[1], cone[2])
      [] answer.op = "coproduct" -> FactorCoproduct(cat, answer.res, cone[1], cone[2])
      [] answer.op = "equalizer" -> FactorEqualizer(cat, answer.res, cone[1], cone[2])
      [] answer.op = "coequalizer" -> FactorCoequalizer(cat, answer.res, cone[1], cone[2])
      [] answer.op = "pullback" -> FactorPullback(cat, answer.res, cone[1], cone[2])
      [] answer.op = "pushout" -> FactorPushout(cat, answer.res, cone[1], cone[2])

Limits == {"product", "equalizer", "pullback"}
Colimits == {"coproduct", "coequalizer", "pushout"}

\* cat89_limit_factor, cat89_colimit_factor, cat89_terminal_arrow and
\* cat89_initial_arrow on what was found.
Factor ==
    /\ answer.op \in Limits \cup Colimits \cup {"terminal", "initial"} /\ answer.res.st = "ok"
    /\ \E cone \in Cones :
         answer' = [op |-> "factor", of |-> answer, cone |-> cone, res |-> FactorOf(cone)]
    /\ UNCHANGED <<builder, budget, cat>>

Derive(D) == Ask([op |-> "derived", res |-> D])

DeriveOpposite == Derive(Opposite(cat))
DeriveSlice == \E x \in cat.objs : Derive(Slice(cat, x))
DeriveCoslice == \E x \in cat.objs : Derive(Coslice(cat, x))
DeriveProduct == Cardinality(cat.mors) <= MaxProduct /\ Derive(ProductCat(cat, cat))
DeriveArrow == Cardinality(cat.mors) <= MaxProduct /\ Derive(ArrowCat(cat))
DeriveThin ==
    Derive(Thin(cat.objs, {p \in cat.objs \X cat.objs : Hom(cat, p[1], p[2]) # {}}))

Drop ==
    /\ answer # NoAnswer
    /\ answer' = NoAnswer
    /\ UNCHANGED <<builder, budget, cat>>

Next ==
    \/ DoAddObject \/ DoAddMorphism \/ DoSetIdentity \/ DoSetComposition
    \/ Build \/ BuildUnchecked
    \/ AskTerminal \/ AskInitial \/ AskProduct \/ AskCoproduct
    \/ AskEqualizer \/ AskCoequalizer \/ AskPullback \/ AskPushout
    \/ Factor
    \/ DeriveOpposite \/ DeriveSlice \/ DeriveCoslice \/ DeriveProduct \/ DeriveArrow \/ DeriveThin
    \/ Drop

Spec == Init /\ [][Next]_vars

---------------------------------------------------------------------------
(* Properties *)

\* builder_valid and the exhaustive sweep, written against different tables
\* and with different look-ups (last row, first row), accept the same
\* builders: a validated store passes the sweep, and a store built unchecked
\* that passes it, from typed rows without duplicates, would have been
\* validated.
ValidationExact ==
    /\ cat # NoCategory =>
         Lawful(cat) /\ CheckExhaustive(cat) = [st |-> "ok", clean |-> TRUE]
    /\ answer.op = "check" =>
         (BuilderValid(builder) <=>
            /\ answer.res = [st |-> "ok", clean |-> TRUE]
            /\ IdentTypingOk(builder) /\ CompRowsOk(builder)
            /\ Cardinality(DOMAIN StoreComp(builder)) = Len(builder.comps))

\* The universal cones (cocones) of the diagram last asked for.
Universal ==
    LET C == cat
        a == answer.a
        b == answer.b
        Op == Opposite(cat)
    IN CASE answer.op = "product" ->
              {<<s[1], <<s[2], s[3]>>>> : s \in {s \in ProductCones(C, a, b) :
                   UniversalProduct(C, a, b, s[1], s[2], s[3])}}
         [] answer.op = "coproduct" ->
              {<<s[1], <<s[2], s[3]>>>> : s \in {s \in ProductCones(Op, a, b) :
                   UniversalProduct(Op, a, b, s[1], s[2], s[3])}}
         [] answer.op = "equalizer" ->
              {<<C.dom[e], <<e, o(C, a, e)>>>> : e \in {e \in C.mors : C.cod[e] = C.dom[a] /\
                   UniversalEqualizer(C, a, b, C.dom[e], e)}}
         [] answer.op = "coequalizer" ->
              {<<C.cod[e], <<o(C, e, a), e>>>> : e \in {e \in C.mors : C.dom[e] = C.cod[a] /\
                   UniversalEqualizer(Op, a, b, C.cod[e], e)}}
         [] answer.op = "pullback" ->
              {<<s[1], <<s[2], s[3], o(C, a, s[2])>>>> : s \in {s \in PullbackCones(C, a, b) :
                   UniversalPullback(C, a, b, s[1], s[2], s[3])}}
         [] answer.op = "pushout" ->
              {<<s[1], <<o(C, s[2], a), s[2], s[3]>>>> : s \in {s \in PullbackCones(Op, a, b) :
                   UniversalPullback(Op, a, b, s[1], s[2], s[3])}}

\* A finder that answers OK returns a universal cone, and one that answers
\* NOT_FOUND leaves none behind, although it only counts hom-sets and looks for
\* some mediator of each cone.
FinderExact ==
    answer.op \in Limits \cup Colimits =>
        IF answer.res.st = "ok" THEN <<answer.res.apex, answer.res.legs>> \in Universal
        ELSE Universal = {}

\* A found limit factors every cone over its diagram, through a morphism that
\* commutes with all the legs: the client of cat89_limit_factor never meets
\* NOT_FOUND.
FactorTotal ==
    answer.op = "factor" =>
        LET legs == answer.of.res.legs
            cone == answer.cone
        IN /\ answer.res.st = "ok"
           /\ \A i \in DOMAIN legs :
                IF answer.of.op \in Limits THEN o(cat, legs[i], answer.res.mor) = cone[2][i]
                ELSE o(cat, answer.res.mor, legs[i]) = cone[2][i]

\* The shape and the arrows of the diagram a finder's result is a limit of.
ShapeOf == [product |-> "pair", coproduct |-> "pair", equalizer |-> "parallel",
            coequalizer |-> "parallel", pullback |-> "span", pushout |-> "cospan"]

\* The colimit finders answer what the limit finders answer in the opposite
\* category, to the same candidate, and every found limit passes the cone
\* (cocone) check of its shape.
Duality ==
    /\ answer.op = "initial" => answer.res = FindTerminal(Opposite(cat))
    /\ answer.op = "coproduct" => answer.res = FindProduct(Opposite(cat), answer.a, answer.b)
    /\ answer.op = "coequalizer" /\ answer.res.st = "ok" =>
         LET dual == FindEqualizer(Opposite(cat), answer.a, answer.b)
         IN answer.res.apex = dual.apex /\ answer.res.legs = <<dual.legs[2], dual.legs[1]>>
    /\ answer.op = "pushout" /\ answer.res.st = "ok" =>
         LET dual == FindPullback(Opposite(cat), answer.a, answer.b)
         IN answer.res.apex = dual.apex /\ answer.res.legs = <<dual.legs[3], dual.legs[1], dual.legs[2]>>
    /\ answer.op \in Limits /\ answer.res.st = "ok" =>
         CheckCone(cat, ShapeOf[answer.op], <<answer.a, answer.b>>, answer.res.legs)
    /\ answer.op \in Colimits /\ answer.res.st = "ok" =>
         CheckCocone(cat, ShapeOf[answer.op], <<answer.a, answer.b>>, answer.res.legs)

\* Together: what a finder returns is what it is to look for, whichever way the
\* client uses it.
FindersExact == FinderExact /\ FactorTotal /\ Duality

\* Whatever is derived from a validated category is again a category, although
\* the callbacks of the derived one compose without testing any square.
DerivedLawful == answer.op = "derived" => Lawful(answer.res)
============================================================================
