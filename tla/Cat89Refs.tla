------------------------------ MODULE Cat89Refs ----------------------------
(***************************************************************************)
(* Ownership in libcat89.  Every object is reference counted; what it      *)
(* retains it releases when its own count falls to zero, in a fixed order. *)
(* The order matters: a morphism is released THROUGH its category, which   *)
(* must still be alive.  Constructors retain what they keep one thing at a *)
(* time, any of these steps may fail (an exhausted counter, no memory),    *)
(* and a failing one gives back what it has taken.  The six limit finders  *)
(* are the longest such sequences, the exhaustive check the one call whose *)
(* failure path releases a morphism twice.  The client takes and drops     *)
(* handles in any order.  One object of each kind exists; a kit is what    *)
(* one client uses.                                                        *)
(***************************************************************************)
EXTENDS Naturals, Sequences, FiniteSets, FiniteSetsExt

CONSTANTS Kits  \* the sets of objects a client works with

VARIABLES refs,    \* the count of each object, 0 when it is not allocated
          own,     \* what each object releases when it dies, in order
          handles, \* the references the client holds
          call     \* the finder call or exhaustive check in progress

vars == <<refs, own, handles, call>>

\* What a constructor retains, in order; what its failure paths give back, in
\* order; and what the object releases when it dies, in order.
Make(takes, undo, drops) == [takes |-> takes, undo |-> undo, drops |-> drops]

\* Mutant: an isomorphism releases its category before its morphisms.
IsoMakeEarly == Make(<<"cat", "m", "n">>, <<"n", "m", "cat">>, <<"cat", "m", "n">>)

IsoMake == Make(<<"cat", "m", "n">>, <<"n", "m", "cat">>, <<"m", "n", "cat">>)

\* Mutant: a product morphism whose allocation fails keeps the left component.
PmorMakeLeaks == Make(<<"prod", "m", "om">>, <<"om", "prod">>, <<"m", "om", "prod">>)

PmorMake == Make(<<"prod", "m", "om">>, <<"om", "m", "prod">>, <<"m", "om", "prod">>)

CategoryMake == Make(<<"store">>, <<"store">>, <<"store">>)
MorMake == Make(<<"store">>, <<"store">>, <<"store">>)
EqMake == Make(<<"cat">>, <<"cat">>, <<"cat">>)
EnumMake == Make(<<"cat">>, <<"cat">>, <<"cat">>)
OppositeMake == Make(<<"cat">>, <<"cat">>, <<"cat">>)
OmMake == Make(<<"opp", "m">>, <<"m", "opp">>, <<"m", "opp">>)
ProductMake == Make(<<"cat", "opp">>, <<"opp", "cat">>, <<"cat", "opp">>)
SliceMake == Make(<<"cat", "eq">>, <<"eq", "cat">>, <<"eq", "cat">>)
SmorMake == Make(<<"slice", "m">>, <<"m", "slice">>, <<"m", "slice">>)
CosliceMake == Make(<<"cat", "eq">>, <<"eq", "cat">>, <<"eq", "cat">>)
CnmorMake == Make(<<"coslice", "m">>, <<"m", "coslice">>, <<"m", "coslice">>)
CommaMake == Make(<<"functor", "functor", "eq">>, <<"functor", "functor", "eq">>,
                  <<"functor", "functor", "eq">>)
CmorMake == Make(<<"comma", "m", "n">>, <<"n", "m", "comma">>, <<"m", "n", "comma">>)
SplitMake == Make(<<"cat", "m", "n">>, <<"n", "m", "cat">>, <<"m", "n", "cat">>)
FunctorMake == Make(<<"cat", "cat">>, <<"cat", "cat">>, <<"cat", "cat">>)
FunctorComposeMake ==
    Make(<<"functor", "functor", "cat", "cat">>, <<"cat", "cat", "functor", "functor">>,
         <<"functor", "functor", "cat", "cat">>)
NatMake == Make(<<"functor", "functor">>, <<"functor", "functor">>, <<"functor", "functor">>)
VerticalMake ==
    Make(<<"nat", "nat", "functor", "functor">>, <<"functor", "functor", "nat", "nat">>,
         <<"nat", "nat", "functor", "functor">>)

Constructors ==
    [cat |-> CategoryMake, m |-> MorMake, n |-> MorMake, eq |-> EqMake, enum |-> EnumMake,
     opp |-> OppositeMake, om |-> OmMake, prod |-> ProductMake, pm |-> PmorMake,
     slice |-> SliceMake, sm |-> SmorMake, coslice |-> CosliceMake, cnm |-> CnmorMake, comma |-> CommaMake, cm |-> CmorMake,
     iso |-> IsoMake, split |-> SplitMake, functor |-> FunctorMake, fcomp |-> FunctorComposeMake,
     nat |-> NatMake, vcomp |-> VerticalMake]

Made == DOMAIN Constructors
Internal == {"store", "shape", "shapenum", "dx", "diagram", "rx", "cone", "limit", "leg",
             "row1", "row2", "mor1", "mor2", "hg", "lhs", "gf", "rhs"}
Things == Made \cup Internal

\* The category a morphism is released through.
Via == [m |-> "cat", n |-> "cat", leg |-> "cat", row1 |-> "cat", row2 |-> "cat", mor1 |-> "cat", mor2 |-> "cat",
        hg |-> "cat", lhs |-> "cat", gf |-> "cat", rhs |-> "cat", om |-> "opp", pm |-> "prod", sm |-> "slice",
        cnm |-> "coslice", cm |-> "comma"]

---------------------------------------------------------------------------
(* Counting: h is [refs, own, bad], bad once something dead was touched *)

Heap == [refs |-> refs, own |-> own, bad |-> FALSE]

Dead(h, x) == h.refs[x] = 0 \/ (x \in DOMAIN Via /\ h.refs[Via[x]] = 0)

Retain(h, x) == IF Dead(h, x) THEN [h EXCEPT !.bad = TRUE] ELSE [h EXCEPT !.refs[x] = @ + 1]

RECURSIVE Release(_, _), ReleaseAll(_, _)
Release(h, x) ==
    IF Dead(h, x) THEN [h EXCEPT !.bad = TRUE]
    ELSE LET g == [h EXCEPT !.refs[x] = @ - 1]
         IN IF g.refs[x] > 0 THEN g ELSE [ReleaseAll(g, g.own[x]) EXCEPT !.own[x] = << >>]

ReleaseAll(h, s) == IF s = << >> THEN h ELSE ReleaseAll(Release(h, Head(s)), Tail(s))

\* Mutant: cat89_mor_release does not ask whether the category has the morphism.
ReleaseUnasked(h, x) == Release(h, x)

\* cat89_mor_release: a morphism that is not one of its category's live ones is
\* let alone.
ReleaseOwned(h, x) == IF h.refs[x] = 0 /\ h.refs[Via[x]] > 0 THEN h ELSE Release(h, x)

RECURSIVE ReleaseAllOwned(_, _)
ReleaseAllOwned(h, s) ==
    IF s = << >> THEN h ELSE ReleaseAllOwned(ReleaseOwned(h, Head(s)), Tail(s))

RECURSIVE RetainAll(_, _)
RetainAll(h, s) == IF s = << >> THEN h ELSE RetainAll(Retain(h, Head(s)), Tail(s))

Allocate(h, x, drops) == [h EXCEPT !.refs[x] = 1, !.own[x] = drops]

Commit(h) == ~h.bad /\ refs' = h.refs /\ own' = h.own

Faulted == [bad |-> TRUE]

---------------------------------------------------------------------------
(* The client *)

NoCall == [kind |-> "none"]

Init ==
    /\ refs = [x \in Things |-> IF x \in {"store", "cat"} THEN 1 ELSE 0]
    /\ own = [x \in Things |-> IF x = "cat" THEN <<"store">> ELSE << >>]
    /\ handles \in {[x \in kit |-> IF x = "cat" THEN 1 ELSE 0] : kit \in Kits}
    /\ call = NoCall

Kit == DOMAIN handles
Mine(x) == x \in Kit /\ handles[x] > 0

\* The steps of a constructor end at the first that fails: stop counts the
\* references taken before it.
TakenSoFar(k, stop) == SubSeq(Constructors[k].takes, 1, stop)
Occurrences(s, x) == Cardinality({i \in DOMAIN s : s[i] = x})
\* The undo list, restricted to what was taken.
UndoOf(k, stop) ==
    LET taken == TakenSoFar(k, stop)
        undo == Constructors[k].undo
        kept == {i \in DOMAIN undo :
                    Occurrences(SubSeq(undo, 1, i), undo[i]) <= Occurrences(taken, undo[i])}
    IN SelectSeq([i \in DOMAIN undo |-> <<undo[i], i \in kept>>], LAMBDA p : p[2])

Finish(h) == IF h.bad THEN call' = Faulted /\ UNCHANGED <<refs, own>> ELSE Commit(h) /\ UNCHANGED call

New(k) ==
    /\ call = NoCall /\ k \in Kit \ {"cat"} /\ refs[k] = 0
    /\ \A i \in DOMAIN Constructors[k].takes :
          LET x == Constructors[k].takes[i] IN IF x = "store" THEN Mine("cat") ELSE Mine(x)
    /\ \/ /\ Finish(Allocate(RetainAll(Heap, Constructors[k].takes), k, Constructors[k].drops))
          /\ handles' = [handles EXCEPT ![k] = 1]
       \/ \E stop \in 0 .. Len(Constructors[k].takes) :
            LET undo == UndoOf(k, stop)
            IN /\ Finish(ReleaseAll(RetainAll(Heap, TakenSoFar(k, stop)),
                                    [i \in DOMAIN undo |-> undo[i][1]]))
               /\ UNCHANGED handles

\* A slice or comma object retains the morphism it interns, for as long as the
\* category lives.
InternNode(k) ==
    /\ call = NoCall /\ k \in {"slice", "coslice", "comma"} /\ Mine(k) /\ Mine("m")
    /\ Head(own[k]) # "m"
    /\ LET h == Retain(Heap, "m") IN Finish([h EXCEPT !.own[k] = <<"m">> \o @])
    /\ UNCHANGED handles

\* The client releases a morphism of the finite backend while the category it
\* passes is alive; a derived morphism keeps its own category alive.
Drop(x) ==
    /\ call = NoCall /\ Mine(x)
    /\ x = "cat" => ~Mine("m") /\ ~Mine("n")
    /\ handles' = [handles EXCEPT ![x] = @ - 1]
    /\ Finish(Release(Heap, x))

---------------------------------------------------------------------------
(* The finders: census, shape, diagram, legs, cone, limit *)

\* A step: take a new object or another reference to an object, or give one up.
Step(do, x) == [do |-> do, x |-> x]

\* census_build: the enumeration hands out a new reference to every morphism;
\* row1 and row2 are the two that become legs.
CensusSteps == <<Step("row", "row1"), Step("row", "row2")>>

\* The diagram over a new shape category, which only the diagram keeps.
DiagramSteps ==
    <<Step("shape", "shape"), Step("grab", "shapenum"), Step("new", "dx"),
      Step("diagram", "diagram"), Step("give", "shape"), Step("give", "shapenum"),
      Step("new", "rx"), Step("keep", "enum"), Step("keep", "eq")>>

\* "leg" is composed by the finder itself, which gives its own reference up
\* once the result holds one.
LegSteps(x) == <<Step("keep", x)>> \o (IF x = "leg" THEN <<Step("give", "leg")>> ELSE << >>)

ResultSteps ==
    <<Step("cone", "cone"), Step("give", "diagram"), Step("limit", "limit"), Step("give", "cone"),
      Step("give", "row1"), Step("give", "row2")>>

ProductPlan ==
    CensusSteps \o DiagramSteps \o LegSteps("row1") \o LegSteps("row2") \o ResultSteps
CoproductPlan ==
    CensusSteps \o DiagramSteps \o LegSteps("row1") \o LegSteps("row2") \o ResultSteps
EqualizerPlan ==
    CensusSteps \o <<Step("compose", "leg")>> \o DiagramSteps
        \o LegSteps("row1") \o LegSteps("leg") \o ResultSteps
CoequalizerPlan ==
    CensusSteps \o <<Step("compose", "leg")>> \o DiagramSteps
        \o LegSteps("leg") \o LegSteps("row1") \o ResultSteps
PullbackPlan ==
    CensusSteps \o <<Step("compose", "leg")>> \o DiagramSteps
        \o LegSteps("row1") \o LegSteps("row2") \o LegSteps("leg") \o ResultSteps
PushoutPlan ==
    CensusSteps \o <<Step("compose", "leg")>> \o DiagramSteps
        \o LegSteps("leg") \o LegSteps("row1") \o LegSteps("row2") \o ResultSteps

Plans == [product |-> ProductPlan, coproduct |-> CoproductPlan, equalizer |-> EqualizerPlan,
          coequalizer |-> CoequalizerPlan, pullback |-> PullbackPlan, pushout |-> PushoutPlan]

\* What the failure paths release, in order, each unless it is NULL.
BuildRelease == <<"rx", "diagram", "dx", "shape", "shapenum", "cone", "row1", "row2">>
ColBuildRelease == <<"rx", "diagram", "dx", "shape", "shapenum", "cone", "row1", "row2">>
EqzAbort == BuildRelease \o <<"leg">>
CoeqAbort == ColBuildRelease \o <<"leg">>

\* Mutant: an abort passes no shape enumeration.
P3ReleaseForgetsShapenum == <<"rx", "leg", "diagram", "dx", "shape", "cone", "row1", "row2">>

P3BuildRelease == <<"rx", "leg", "diagram", "dx", "shape", "shapenum", "cone", "row1", "row2">>

P3ColRelease == <<"rx", "leg", "diagram", "dx", "shape", "shapenum", "cone", "row1", "row2">>

Aborts == [product |-> BuildRelease, coproduct |-> ColBuildRelease, equalizer |-> EqzAbort,
           coequalizer |-> CoeqAbort, pullback |-> P3BuildRelease, pushout |-> P3ColRelease]

\* What a step does to the heap and to the locals that are not NULL.
After(h, s) ==
    CASE s.do \in {"row", "compose"} -> Allocate(Retain(h, "store"), s.x, <<"store">>)
      [] s.do = "shape" -> [Allocate(Allocate(h, "shape", << >>), "shapenum", <<"shape">>)
                               EXCEPT !.refs["shape"] = 2]
      [] s.do \in {"grab", "mors", "ends", "law"} -> h
      [] s.do = "new" -> Allocate(h, s.x, << >>)
      [] s.do = "diagram" -> Allocate(RetainAll(h, <<"shape", "cat">>), "diagram", <<"dx", "shape", "cat">>)
      [] s.do = "keep" -> [Retain(h, s.x) EXCEPT !.own["rx"] = Append(@, s.x)]
      [] s.do = "cone" -> Allocate(Retain(h, "diagram"), "cone", <<"rx", "diagram">>)
      [] s.do = "limit" -> Allocate(Retain(h, "cone"), "limit", <<"cone">>)
      [] s.do = "give" -> Release(h, s.x)

Locals(locals, s) ==
    CASE s.do \in {"row", "compose", "new", "diagram", "cone", "limit"} ->
            (locals \cup {s.x}) \ (IF s.do = "diagram" THEN {"dx"} ELSE IF s.do = "cone" THEN {"rx"} ELSE {})
      [] s.do = "shape" -> locals \cup {"shape", "shapenum"}
      [] s.do = "give" -> locals \ {s.x}
      [] OTHER -> locals

Find(kind) ==
    /\ call = NoCall /\ "limit" \in Kit
    /\ refs["limit"] = 0 /\ Mine("cat") /\ Mine("enum") /\ Mine("eq")
    /\ call' = [kind |-> kind, at |-> 1, locals |-> {}]
    /\ UNCHANGED <<refs, own, handles>>

InCall == call \notin {NoCall, Faulted}

FindStep ==
    /\ InCall /\ call.kind \in DOMAIN Plans
    /\ LET plan == Plans[call.kind]
           h == After(Heap, plan[call.at])
           last == call.at = Len(plan)
       IN IF h.bad THEN call' = Faulted /\ UNCHANGED <<refs, own, handles>>
          ELSE /\ Commit(h)
               /\ call' = IF last THEN NoCall
                          ELSE [call EXCEPT !.at = @ + 1, !.locals = Locals(@, plan[call.at])]
               /\ handles' = IF last THEN [handles EXCEPT !["limit"] = 1] ELSE handles

\* A step other than giving a reference up may fail: the call ends with an
\* error and everything it holds is released.
FindFails ==
    /\ InCall /\ call.kind \in DOMAIN Plans
    /\ Plans[call.kind][call.at].do # "give"
    /\ LET h == ReleaseAll(Heap, SelectSeq(Aborts[call.kind], LAMBDA x : x \in call.locals))
       IN IF h.bad THEN call' = Faulted /\ UNCHANGED <<refs, own>>
          ELSE Commit(h) /\ call' = NoCall
    /\ UNCHANGED handles

---------------------------------------------------------------------------
(* The exhaustive check: a census in three parallel vectors, then the laws *)

\* A morphism goes into the vector of morphisms before those of its ends grow.
FillSteps(row) == <<Step("row", row), Step("mors", row), Step("ends", row)>>

IdentitySteps ==
    <<Step("compose", "hg"), Step("compose", "lhs"), Step("give", "lhs"), Step("give", "hg"),
      Step("law", "cat")>>

AssociativitySteps ==
    <<Step("compose", "hg"), Step("compose", "lhs"), Step("give", "hg"), Step("compose", "gf"),
      Step("compose", "rhs"), Step("give", "gf"), Step("give", "lhs"), Step("give", "rhs"),
      Step("law", "cat")>>

CheckPlan ==
    FillSteps("mor1") \o FillSteps("mor2") \o IdentitySteps \o AssociativitySteps
        \o <<Step("give", "mor1"), Step("give", "mor2")>>

\* What a failure at step k of the plan releases: what the law's check holds, or
\* the morphism that was to be filed, and then the vector of morphisms, in which
\* that one may be already.
CheckAbort(k) ==
    LET filed == {CheckPlan[j].x : j \in {j \in 1 .. k - 1 : CheckPlan[j].do = "mors"}}
    IN (IF CheckPlan[k].do \in {"mors", "ends"} THEN <<CheckPlan[k].x>>
        ELSE SelectSeq(<<"hg", "gf", "lhs">>, LAMBDA x : x \in call.locals))
       \o SelectSeq(<<"mor1", "mor2">>, LAMBDA x : x \in filed)

Check ==
    /\ call = NoCall /\ {"enum", "eq"} \subseteq Kit
    /\ Mine("cat") /\ Mine("enum") /\ Mine("eq")
    /\ call' = [kind |-> "check", at |-> 1, locals |-> {}]
    /\ UNCHANGED <<refs, own, handles>>

CheckStep ==
    /\ InCall /\ call.kind = "check"
    /\ LET h == After(Heap, CheckPlan[call.at])
       IN IF h.bad THEN call' = Faulted /\ UNCHANGED <<refs, own>>
          ELSE /\ Commit(h)
               /\ call' = IF call.at = Len(CheckPlan) THEN NoCall
                          ELSE [call EXCEPT !.at = @ + 1, !.locals = Locals(@, CheckPlan[call.at])]
    /\ UNCHANGED handles

CheckFails ==
    /\ InCall /\ call.kind = "check"
    /\ CheckPlan[call.at].do # "give"
    /\ LET h == ReleaseAllOwned(Heap, CheckAbort(call.at))
       IN IF h.bad THEN call' = Faulted /\ UNCHANGED <<refs, own>>
          ELSE Commit(h) /\ call' = NoCall
    /\ UNCHANGED handles

Next ==
    \/ \E k \in Made : New(k)
    \/ \E k \in {"slice", "coslice", "comma"} : InternNode(k)
    \/ \E x \in Things : Drop(x)
    \/ \E kind \in DOMAIN Plans : Find(kind)
    \/ FindStep
    \/ FindFails
    \/ Check
    \/ CheckStep
    \/ CheckFails

Spec == Init /\ [][Next]_vars

---------------------------------------------------------------------------
(* Properties *)

\* Nothing is retained or released after it died, and no morphism is released
\* through a category that died before it.  The one release of a dead morphism
\* in the code, in the census of the exhaustive check (exc_fill_step,
\* exc_fill_abort), is turned away by its category (ReleaseOwned).
NothingDeadTouched == call # Faulted

References(x) ==
    (IF x \in Kit THEN handles[x] ELSE 0)
        + (IF InCall /\ x \in call.locals THEN 1 ELSE 0)
        + FoldSet(LAMBDA y, n : n + Occurrences(own[y], x), 0, {y \in Things : refs[y] > 0})

\* Each count is the number of references there are: a failed call gave back
\* exactly what it took, and when the client has dropped every handle nothing
\* is left.
CountsExact ==
    /\ call # Faulted => \A x \in Things : refs[x] = References(x)
    /\ call = NoCall /\ (\A x \in Kit : handles[x] = 0) => \A x \in Things : refs[x] = 0
============================================================================
