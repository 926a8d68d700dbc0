----------------------------- MODULE MCLibraries ---------------------------
(***************************************************************************)
(* The libraries that do not interact with one another, checked in one     *)
(* run: library says whose client is at work, and never changes.  The      *)
(* variables of Cat89 and of Cat89Struct are their own; the others share   *)
(* s1 to s4.                                                               *)
(***************************************************************************)
EXTENDS Cat89, Cat89Struct, Integers

---------------------------------------------------------------------------
(* The categories the instances of libcat89's modules start from, and the  *)
(* objects each client of Cat89Refs works with.                            *)

Listed(S) == FoldSet(LAMBDA x, s : Append(s, x), << >>, S)

\* The complete builder of a category given by its morphisms <<dom, cod, ...>>.
BuilderOf(objs, mors, id(_), comp(_, _)) ==
    LET os == Listed(objs)
        ms == Listed(mors)
        num(s, x) == CHOOSE i \in DOMAIN s : s[i] = x
        rows == Listed({p \in mors \X mors : p[2][2] = p[1][1]})
    IN [ident |-> [i \in DOMAIN os |-> num(ms, id(os[i]))],
        mors |-> [i \in DOMAIN ms |-> [dom |-> num(os, ms[i][1]), cod |-> num(os, ms[i][2])]],
        comps |-> [i \in DOMAIN rows |->
                      [g |-> num(ms, rows[i][1]), f |-> num(ms, rows[i][2]),
                       r |-> num(ms, comp(rows[i][1], rows[i][2]))]]]

\* The sets of 0, 1 and 2 elements and the eleven functions between them.
FinSet ==
    BuilderOf(0 .. 2, UNION {{<<m, n, f>> : f \in [1 .. m -> 1 .. n]} : m \in 0 .. 2, n \in 0 .. 2},
              LAMBDA n : <<n, n, [i \in 1 .. n |-> i]>>,
              LAMBDA g, f : <<f[1], g[2], [i \in 1 .. f[1] |-> g[3][f[3][i]]]>>)

Poset(leq) ==
    BuilderOf(1 .. 4, {p \in (1 .. 4) \X (1 .. 4) : p[1] = p[2] \/ p \in leq},
              LAMBDA x : <<x, x>>, LAMBDA g, f : <<f[1], g[2]>>)

Diamond == Poset({<<1, 2>>, <<1, 3>>, <<1, 4>>, <<2, 4>>, <<3, 4>>})
\* Two lower and two upper bounds: no product, no coproduct.
Bowtie == Poset({<<1, 3>>, <<1, 4>>, <<2, 3>>, <<2, 4>>})

Row(g, f, r) == [g |-> g, f |-> f, r |-> r]
Arrow(d, c) == [dom |-> d, cod |-> c]

\* One object, an identity and two more morphisms, every table of products.
Monoid(t) ==
    [ident |-> <<1>>, mors |-> [i \in 1 .. 3 |-> Arrow(1, 1)],
     comps |-> <<Row(1, 1, 1), Row(1, 2, 2), Row(2, 1, 2), Row(1, 3, 3), Row(3, 1, 3),
                 Row(2, 2, t[1]), Row(2, 3, t[2]), Row(3, 2, t[3]), Row(3, 3, t[4])>>]

\* One object and two morphisms with one product left to set.
Unfinished ==
    [ident |-> <<1>>, mors |-> <<Arrow(1, 1), Arrow(1, 1)>>,
     comps |-> <<Row(1, 1, 1), Row(1, 2, 2), Row(2, 1, 2)>>]

CatBoots ==
    {[builder |-> EmptyBuilder, budget |-> 5], [builder |-> Unfinished, budget |-> 2]}
        \cup {[builder |-> b, budget |-> 0] :
                 b \in {FinSet, Diamond, Bowtie}
                          \cup {ShapeBuilder(kind) : kind \in DOMAIN ShapeArrows}
                          \cup {Monoid(t) : t \in (1 .. 3) \X (1 .. 3) \X (1 .. 3) \X (1 .. 3)}}

\* An object that is a retract of another, and two isomorphic objects.
Retract ==
    [ident |-> <<1, 2>>, mors |-> <<Arrow(1, 1), Arrow(2, 2), Arrow(1, 2), Arrow(2, 1), Arrow(2, 2)>>,
     comps |-> <<Row(1, 1, 1), Row(2, 2, 2), Row(3, 1, 3), Row(2, 3, 3), Row(1, 4, 4), Row(4, 2, 4),
                 Row(4, 3, 1), Row(3, 4, 5), Row(5, 5, 5), Row(5, 2, 5), Row(2, 5, 5), Row(5, 3, 3),
                 Row(4, 5, 4)>>]
Isomorphic ==
    [ident |-> <<1, 2>>, mors |-> <<Arrow(1, 1), Arrow(2, 2), Arrow(1, 2), Arrow(2, 1)>>,
     comps |-> <<Row(1, 1, 1), Row(2, 2, 2), Row(3, 1, 3), Row(2, 3, 3), Row(1, 4, 4), Row(4, 2, 4),
                 Row(4, 3, 1), Row(3, 4, 2)>>]

CatBuilders == {Retract, Isomorphic, ShapeBuilder("parallel")}
CatEdges == {<<1, 2, "a">>, <<1, 2, "b">>, <<2, 1, "c">>}

CatKits ==
    {{"cat", "m", "eq", "enum", "limit"}, {"cat", "m", "opp", "om", "prod", "pm"},
     {"cat", "m", "eq", "coslice", "cnm"},
     {"cat", "m", "n", "eq", "slice", "sm", "functor", "comma", "cm"},
     {"cat", "m", "n", "iso", "split", "functor", "fcomp", "nat", "vcomp"}}

---------------------------------------------------------------------------
(* The rules and facts libdl89 is checked with.                            *)

V(x) == [kind |-> "var", var |-> x]
C(n) == [kind |-> "const", val |-> n]
DlAtom(rel, terms) == [rel |-> rel, terms |-> terms]
DlRule(head, body) == [head |-> head, body |-> body]

DlBase == DlRule(DlAtom("path", <<V("x"), V("y")>>), <<DlAtom("edge", <<V("x"), V("y")>>)>>)
DlTrans == DlRule(DlAtom("path", <<V("x"), V("z")>>), <<DlAtom("path", <<V("x"), V("y")>>), DlAtom("path", <<V("y"), V("z")>>)>>)
DlLoop == DlRule(DlAtom("loop", <<>>), <<DlAtom("path", <<V("x"), V("x")>>)>>)
DlBack == DlRule(DlAtom("path", <<V("y"), C(1)>>), <<DlAtom("loop", <<>>), DlAtom("edge", <<C(1), V("y")>>)>>)
DlGround == DlRule(DlAtom("edge", <<C(2), C(1)>>), <<>>)

\* Two that may be rejected: an unbound head variable, another arity of path.
DlUnsafe == DlRule(DlAtom("path", <<V("x"), V("w")>>), <<DlAtom("edge", <<V("x"), V("x")>>)>>)
DlClash == DlRule(DlAtom("path", <<V("x")>>), <<DlAtom("edge", <<V("x"), V("x")>>)>>)

DlRules == {DlBase, DlTrans, DlLoop, DlBack, DlGround, DlUnsafe, DlClash}
DlFacts == {<<"edge", <<1, 2>>>>}

---------------------------------------------------------------------------
(* The constructors libadt89 is checked with. The first type is a          *)
(* recursive one, the second has a parameter.                              *)

AdtParam(i) == [kind |-> "param", index |-> i]
AdtApply(t) == [kind |-> "apply", type |-> t]     \* 0: a type that is no datatype

\* The last two: a name the first type may have taken, a variable that is no parameter.
AdtOffers ==
    {<<1, "zero", <<>>>>,
     <<1, "succ", <<AdtApply(1)>>>>,
     <<2, "some", <<AdtParam(1)>>>>,
     <<2, "pair", <<AdtApply(1), AdtApply(1)>>>>,
     <<2, "succ", <<AdtApply(0)>>>>,
     <<2, "loose", <<AdtParam(2)>>>>}

---------------------------------------------------------------------------
(* The libraries.                                                          *)

VARIABLES library, s1, s2, s3, s4

shared == <<s1, s2, s3, s4>>

Idle == "idle"

Refs == INSTANCE Cat89Refs WITH Kits <- CatKits, refs <- s1, own <- s2, handles <- s3, call <- s4

Link == INSTANCE Wasm89Linking WITH MaxTypes <- 3, MaxLinked <- 4,
                                    exporter <- s1, importer <- s2, role <- s3
Num == INSTANCE Wasm89NumCalls WITH IntWidths <- {4, 8}, Edges <- {0, 1, 2, 3, 4, 5, 7, 8, 9, 15, 16, 17, 127, 128, 129, 254, 255},
                                    width <- s1, args <- s2
WasmInputs == INSTANCE MCWasm89
Wasm == INSTANCE Wasm89Machine WITH Themes <- WasmInputs!WasmThemes, Budgets <- {1}, Fuel <- 24, MaxOperands <- 6, MaxExns <- 2,
                                    theme <- s1, code <- s2, run <- s3, ref <- s4
Linked == INSTANCE Wasm89Instantiate WITH Modules <- WasmInputs!InstModules, Names <- {"a"},
                                         Failures <- {<<"none", 0>>, <<"memory", 1>>, <<"elem", 1>>},
                                         MaxInsts <- 3, MaxCalls <- 2, StartFuel <- 24,
                                         store <- s1, registry <- s2, calls <- s3, last <- s4
Datalog == INSTANCE Dl89 WITH Consts <- {1, 2}, Rules <- DlRules, Facts <- DlFacts,
                              MaxRules <- 3, MaxRuns <- 2, MaxFaults <- 1,
                              program <- s1, store <- s2, run <- s3, count <- s4

Infer == INSTANCE Hm89 WITH Names <- {"f"}, Consts <- {"int"}, MaxVars <- 3, MaxPool <- 4, MaxScopes <- 2, MaxOps <- 6,
                           graph <- s1, pool <- s2, env <- s3, last <- s4
Adt == INSTANCE Adt89 WITH Params <- <<0, 1>>, Offers <- AdtOffers, MaxTypes <- 2, MaxClauses <- 2, MaxDepth <- 2,
                           MaxCtors <- 2, MaxFaults <- 1, AllocFaults <- {0, 5, 6, 8, 11},
                           ctx <- s1, env <- s2, clauses <- s3, answer <- s4

\* The clients of Cat89, of Cat89Struct and of the others while they do not work.
CatIdle == builder = EmptyBuilder /\ budget = 0 /\ cat = NoCategory /\ answer = NoAnswer
StructIdle == inputs = << >> /\ structure = [kind |-> "none"]
OthersIdle == s1 = Idle /\ s2 = Idle /\ s3 = Idle /\ s4 = Idle

OthersInit ==
    \/ library = "refs" /\ Refs!Init
    \/ library = "link" /\ Link!Init /\ s4 = Idle
    \/ library = "num" /\ Num!Init /\ s3 = Idle /\ s4 = Idle
    \/ library = "wasm" /\ Wasm!Init
    \/ library = "store" /\ Linked!Init
    \/ library = "datalog" /\ Datalog!Init
    \/ library = "hm" /\ Infer!Init
    \/ library = "adt" /\ Adt!Init

LibrariesInit ==
    \/ library = "cat" /\ Init /\ StructIdle /\ OthersIdle
    \/ library = "struct" /\ StructInit /\ CatIdle /\ OthersIdle
    \/ OthersInit /\ CatIdle /\ StructIdle

OthersNext ==
    \/ library = "refs" /\ Refs!Next
    \/ library = "link" /\ Link!Next /\ UNCHANGED s4
    \/ library = "num" /\ Num!Next /\ UNCHANGED <<s3, s4>>
    \/ library = "wasm" /\ Wasm!Next
    \/ library = "store" /\ Linked!Next
    \/ library = "datalog" /\ Datalog!Next
    \/ library = "hm" /\ Infer!Next
    \/ library = "adt" /\ Adt!Next

LibrariesNext ==
    /\ \/ library = "cat" /\ Next /\ UNCHANGED <<structVars, shared>>
       \/ library = "struct" /\ StructNext /\ UNCHANGED <<vars, shared>>
       \/ OthersNext /\ UNCHANGED <<vars, structVars>>
    /\ UNCHANGED library

LibrariesSpec == LibrariesInit /\ [][LibrariesNext]_<<library, vars, structVars, shared>>

---------------------------------------------------------------------------
(* Properties: those of Cat89 and Cat89Struct, and of each other library   *)
(* while the shared variables are its own.                                 *)

\* Whichever step of a constructor, of a limit finder or of the exhaustive check
\* of a category fails, libcat89 never touches an object it has freed, nor
\* releases a morphism through a freed category, and its reference counts are
\* exact afterwards. The check's census releases a morphism twice on one path;
\* the category's ownership test turns the second release away.
CatOwnershipExact == library = "refs" => Refs!NothingDeadTouched /\ Refs!CountsExact

\* wasm89's equality of types is equality of their closed forms and subtyping a
\* preorder that respects structure; two modules are linked as if their types
\* stood in one, and an import that is accepted lets neither see a value or a
\* size it does not expect.
WasmTypesExact == library = "link" => Link!CanonExact /\ Link!MatchSound /\ Link!LinkAgrees /\ Link!ImportSound

\* wasm89's integer instructions compute what their definitions on bits and signed
\* numbers say, and its float comparisons, minima, roundings and truncations are
\* those of the numbers their operands stand for, signed zeros and NaNs included.
WasmNumericsExact == library = "num" => Num!IntegersExact /\ Num!FloatsExact

\* No body wasm89's validator accepts makes the evaluator underflow, miss a label
\* or confuse a number with a reference, and its results have the declared types;
\* on the way the levels own disjoint, ordered parts of the operands and the
\* call budget counts the open functions, whichever way others were left.
WasmValidatedRunsSafe == library = "wasm" => Wasm!ValidatedRunsSafe /\ Wasm!LevelsNested /\ Wasm!BudgetBalanced

\* wasm89's iterative evaluator computes what its reference stepper computes.
WasmEvaluatorAgrees == library = "wasm" => Wasm!EvaluatorAgrees

\* Every global and table of a wasm89 store holds values of its declared type; a
\* function a client can reach belongs to an instance that is whole, even if the
\* instantiation that published it failed; and a failed instantiation leaves whole
\* segments in what was there before, or nothing.
WasmStoreSound == library = "store" => Linked!StoreTyped /\ Linked!ReachableWhole /\ Linked!FailureContained

\* libdl89 computes the least fixed point, after runs that failed too: what follows
\* from the facts older than the delta is there already, the bindings of every
\* tuple are undone, every scan is closed, also when a call below it fails, and
\* the registry has the arities of what was accepted and no other.
DlRunsExact ==
    library = "datalog" =>
        /\ Datalog!LeastFixedPoint /\ Datalog!DeltaCoversNew
        /\ Datalog!BindingsExact /\ Datalog!ScansClosed /\ Datalog!RegistryExact

\* libhm89's unification keeps exactly the solutions of its two sides and never
\* links a type into itself, and no call reaches the quantified variables of a
\* scheme it has generalised, as long as no free variable of an environment was
\* passed over for want of memory.
HmInferenceSound == library = "hm" => Infer!UnifyExact /\ Infer!LinksAcyclic /\ Infer!SchemesClosed

\* libadt89 calls a match exhaustive exactly when it covers every value and a clause
\* redundant exactly when it matches nothing new, and an allocation that fails
\* makes it approve of no match that misses a value.  This is claimed of analyses
\* that end (AdtAnalysisEnds), of sealed types, and of patterns that have no
\* constructor below a field whose type is a parameter, where the analysis
\* ignores it.
AdtAnalysisExact == library = "adt" => Adt!ExhaustiveExact /\ Adt!RedundantExact /\ Adt!FailureConservative

\* A constructor's name means one constructor of a sealed libadt89 type.
AdtNamesResolve == library = "adt" => Adt!NamesResolve

\* libadt89's analysis of a match ends, for recursive types as well.
AdtAnalysisEnds == library = "adt" => Adt!AnalysisEnds
============================================================================
