------------------------------- MODULE Adt89 -------------------------------
(***************************************************************************)
(* libadt89: datatypes are declared, given constructors and sealed; the    *)
(* constructors are bound in an environment; clauses are built and asked   *)
(* whether they are exhaustive and which of them are redundant.            *)
(*                                                                         *)
(* A type is its index in ctx.types, a constructor the pair of its type    *)
(* and its index there, a pattern Wild or a constructor with patterns. A   *)
(* field type is a parameter of the owner or a named constructor; names    *)
(* that no declaration has (a number type, say) have no family. Refused    *)
(* calls change nothing but the last error, and are left out.              *)
(***************************************************************************)
EXTENDS Integers, Sequences, FiniteSets, SequencesExt

CONSTANTS
    Params,         \* the parameter counts of the types a client declares, in order
    Offers,         \* the constructors it may add: <<owner, name, field types>>
    MaxTypes,       \* how many types it declares
    MaxClauses,     \* how many clauses a match has
    MaxDepth,       \* how deep a pattern is
    MaxFaults,      \* how many calls run out of memory
    MaxCtors,       \* how many constructors it gives a type
    AllocFaults     \* which allocation of a query fails (0: none)

VARIABLES
    ctx,            \* the context: its types and the process's counter of identities
    env,            \* the environment: the bindings <<name, scheme>>, latest first
    clauses,        \* the patterns of the match
    answer          \* the last query: what was asked and what it answered

vars == <<ctx, env, clauses, answer>>

None == [kind |-> "none"]
Wild == [ctor |-> <<>>, args |-> <<>>]
Param(i) == [kind |-> "param", index |-> i]
Con(name) == [kind |-> "con", name |-> name]    \* 0: a name that is no datatype's

---------------------------------------------------------------------------
(* Declarations *)

Types == DOMAIN ctx.types
Ctors(t) == ctx.types[t].ctors
CtorOf(c) == Ctors(c[1])[c[2]]
FieldCount(c) == Len(CtorOf(c).fields)

NewCtx == [types |-> <<>>, ids |-> 0, faults |-> 0]

\* The identity is taken before anything is allocated and is never given back.
TypeNew(ok) ==
    [ctx EXCEPT !.ids = @ + 1,
                !.faults = IF ok THEN @ ELSE @ + 1,
                !.types = IF ok THEN Append(@, [hm |-> ctx.ids + 1, params |-> Params[Len(@) + 1],
                                                ctors |-> <<>>, sealed |-> FALSE])
                          ELSE @]

\* Mutant: the names of sealed types are not looked at.
HasCtorNameOpen(name) == \E t \in Types : ~ctx.types[t].sealed /\ \E i \in DOMAIN Ctors(t) : Ctors(t)[i].name = name

HasCtorName(name) == \E t \in Types : \E i \in DOMAIN Ctors(t) : Ctors(t)[i].name = name

CtorAddable(offer) ==
    /\ offer[1] \in Types
    /\ \A i \in DOMAIN offer[3] : offer[3][i].kind = "apply" => offer[3][i].type \in Types \cup {0}
    /\ ~ctx.types[offer[1]].sealed
    /\ ~HasCtorName(offer[2])

\* A field that applies a declared type carries that type's identity.
TypeApply(field) ==
    IF field.kind = "param" THEN field ELSE Con(IF field.type = 0 THEN 0 ELSE ctx.types[field.type].hm)

CtorAdd(offer) ==
    [ctx EXCEPT !.types[offer[1]].ctors =
        Append(@, [name |-> offer[2], fields |-> [i \in DOMAIN offer[3] |-> TypeApply(offer[3][i])], scheme |-> None])]

\* Every variable of a field is a parameter of the owner.
Validate(t) ==
    \A i \in DOMAIN Ctors(t) : \A j \in DOMAIN Ctors(t)[i].fields :
        LET field == Ctors(t)[i].fields[j] IN field.kind = "param" => field.index \in 1..ctx.types[t].params

SchemeOf(t, i) == [kind |-> "scheme", quantified |-> ctx.types[t].params, from |-> Ctors(t)[i].fields, to |-> ctx.types[t].hm]

\* Sealing gives schemes to the constructors in order; the first done of them
\* have theirs when memory runs out, and the type stays open.
Seal(t, done) ==
    [ctx EXCEPT !.types[t].ctors = [i \in DOMAIN @ |-> IF i <= done THEN [@[i] EXCEPT !.scheme = SchemeOf(t, i)] ELSE @[i]],
                !.types[t].sealed = done = Len(Ctors(t)),
                !.faults = IF done = Len(Ctors(t)) THEN @ ELSE @ + 1]

\* The bindings of the first done constructors of t, the last one first.
Bindings(t, done) == [i \in 1..done |-> <<Ctors(t)[done + 1 - i].name, Ctors(t)[done + 1 - i].scheme>>]

\* All types in order until one is open or memory runs out at a constructor.
RECURSIVE BindFrom(_, _, _)
BindFrom(t, left, e) ==
    IF t > Len(ctx.types) \/ ~ctx.types[t].sealed THEN e
    ELSE IF left < Len(Ctors(t)) THEN Bindings(t, left) \o e
    ELSE BindFrom(t + 1, left - Len(Ctors(t)), Bindings(t, Len(Ctors(t))) \o e)

Lookup(name) ==
    LET found == {i \in DOMAIN env : env[i][1] = name}
    IN IF found = {} THEN None ELSE env[CHOOSE i \in found : \A j \in found : i <= j][2]

---------------------------------------------------------------------------
(* Families and rows. No family is 0. *)

IsWild(p) == p = Wild

FamilyForName(name) ==
    LET named == {t \in Types : ctx.types[t].hm = name}
    IN IF named = {} THEN 0 ELSE CHOOSE t \in named : \A u \in named : t <= u

FieldFamily(c, i) ==
    LET field == CtorOf(c).fields[i] IN IF field.kind = "con" THEN FamilyForName(field.name) ELSE 0

\* The columns under constructor c: its arguments, then the other columns.
FillRow(row, c) ==
    (IF IsWild(row[1]) THEN [i \in 1..FieldCount(c) |-> Wild] ELSE row[1].args) \o Tail(row)

\* Mutant: a wildcard head is specialised for the first constructor only.
SpecMatchesFirst(row, c) == (IsWild(row[1]) /\ c[2] = 1) \/ row[1].ctor = c

SpecMatches(row, c) == IsWild(row[1]) \/ row[1].ctor = c

\* What specialising the rows returns: the rows that match c, and how many
\* allocations it made after the n before. The one that is numbered fault
\* fails: a row that loses its own is left out like one that does not match.
RECURSIVE SpecCollect(_, _, _, _, _)
SpecCollect(rows, c, n, fault, out) ==
    IF rows = <<>> THEN [rows |-> out, n |-> n]
    ELSE LET row == Head(rows)
             fits == SpecMatches(row, c)
             used == IF n + 1 = fault \/ ~fits THEN 1 ELSE 2
             kept == fits /\ fault \notin {n + 1, n + 2}
         IN SpecCollect(Tail(rows), c, n + used, fault, IF kept THEN Append(out, FillRow(row, c)) ELSE out)

ConcatFams(c, fams) == [i \in 1..FieldCount(c) |-> FieldFamily(c, i)] \o Tail(fams)

DropCol(rows) == [i \in DOMAIN rows |-> Tail(rows[i])]

CtorCovered(rows) == \E i \in DOMAIN rows : \A k \in DOMAIN rows[i] : IsWild(rows[i][k])

---------------------------------------------------------------------------
(* Usefulness: does q match a value that no row matches? The result is     *)
(* "yes", "no", "nomem", or "never" when a call meets itself again among   *)
(* the open calls, so that the recursion has no end; with it comes the     *)
(* number of allocations made so far.                                      *)

Result(r, n) == [r |-> r, n |-> n]

RECURSIVE Useful(_, _, _, _, _, _)
RECURSIVE UsefulCtor(_, _, _, _, _, _, _)
RECURSIVE UsefulEnumerate(_, _, _, _, _, _, _, _)

UsefulCtor(rows, q, fams, c, n, fault, open) ==
    LET spec == SpecCollect(rows, c, n + 1, fault, <<>>)
    IN CASE n + 1 = fault -> Result("nomem", n + 1)
         [] fault \in {spec.n + 1, spec.n + 2} -> Result("nomem", spec.n + 2)
         [] OTHER -> Useful(spec.rows, FillRow(q, c), ConcatFams(c, fams), spec.n + 2, fault, open)

\* The constructors of a family in order, until one is useful or fails.
UsefulEnumerate(rows, q, fams, i, n, fault, open, fam) ==
    IF i > Len(Ctors(fam)) THEN Result("no", n)
    ELSE LET one == UsefulCtor(rows, q, fams, <<fam, i>>, n, fault, open)
         IN IF one.r = "no" THEN UsefulEnumerate(rows, q, fams, i + 1, one.n, fault, open, fam) ELSE one

\* A wildcard over a column without a family drops the column from every row,
\* whatever the rows have there.
Useful(rows, q, fams, n, fault, open) ==
    LET deeper == open \cup {<<rows, q, fams>>} IN
    CASE <<rows, q, fams>> \in open -> Result("never", n)
      [] CtorCovered(rows) -> Result("no", n)
      [] q = <<>> -> Result("yes", n)
      [] ~IsWild(q[1]) -> UsefulCtor(rows, q, fams, q[1].ctor, n, fault, deeper)
      [] fams[1] = 0 -> Useful(DropCol(rows), Tail(q), Tail(fams), n, fault, deeper)
      [] OTHER -> UsefulEnumerate(rows, q, fams, 1, n, fault, deeper, fams[1])

\* What a query says: a result, and the marks of the clauses.
Said(r, marks) == [r |-> r, marks |-> marks]

Rows(patterns) == [i \in DOMAIN patterns |-> <<patterns[i]>>]

\* Mutant: an allocation that fails in the analysis ends it as covered.
MatchExhaustiveFault(t, fault) ==
    LET out == Useful(Rows(clauses), <<Wild>>, <<t>>, 3, fault, {})
    IN Said(IF fault \in 1..3 THEN "nomem" ELSE IF out.r = "nomem" THEN "no" ELSE out.r, <<>>)

\* Three allocations come first; every clause is wild or of the type.
MatchExhaustive(t, fault) ==
    LET out == Useful(Rows(clauses), <<Wild>>, <<t>>, 3, fault, {})
    IN Said(IF fault \in 1..3 THEN "nomem" ELSE out.r, <<>>)

\* Each clause against the ones before it, two allocations for each.
RECURSIVE RedundantFrom(_, _, _, _, _)
RedundantFrom(fam, i, n, fault, marks) ==
    IF i > Len(clauses) THEN Said("marks", marks)
    ELSE LET out == Useful(Rows(SubSeq(clauses, 1, i - 1)), <<clauses[i]>>, <<fam>>, n + 2, fault, {})
         IN CASE fault \in {n + 1, n + 2} \/ out.r = "nomem" -> Said("nomem", marks)
              [] out.r = "never" -> Said("never", marks)
              [] OTHER -> RedundantFrom(fam, i + 1, out.n, fault, Append(marks, out.r = "no"))

\* Mutant: the first clause is taken to be useful without asking.
MatchRedundantSecond(fault) ==
    LET ctors == {i \in DOMAIN clauses : ~IsWild(clauses[i])}
    IN IF ctors = {} THEN Said("marks", [i \in DOMAIN clauses |-> i # 1])
       ELSE RedundantFrom(clauses[CHOOSE i \in ctors : \A j \in ctors : i >= j].ctor[1], 2, 0, fault, <<FALSE>>)

\* The family is that of the first constructor; without one, every clause
\* after the first is redundant.
MatchRedundant(fault) ==
    LET ctors == {i \in DOMAIN clauses : ~IsWild(clauses[i])}
    IN IF ctors = {} THEN Said("marks", [i \in DOMAIN clauses |-> i # 1])
       ELSE RedundantFrom(clauses[CHOOSE i \in ctors : \A j \in ctors : i <= j].ctor[1], 1, 0, fault, <<>>)

---------------------------------------------------------------------------
(* What a client builds: patterns that have a type. Type parameters stand  *)
(* for the first declared type, and type 0 for the types without patterns. *)

FieldType(c, i) ==
    LET field == CtorOf(c).fields[i] IN IF field.kind = "param" THEN 1 ELSE FamilyForName(field.name)

RECURSIVE Patterns(_, _)
Patterns(t, depth) ==
    {Wild} \cup
    IF t = 0 \/ depth = 0 \/ ~ctx.types[t].sealed THEN {}
    ELSE UNION {LET c == <<t, i>> IN
                {[ctor |-> c, args |-> a] : a \in
                    {f \in [1..FieldCount(c) -> UNION {Patterns(FieldType(c, k), depth - 1) : k \in 1..FieldCount(c)}] :
                        \A k \in 1..FieldCount(c) : f[k] \in Patterns(FieldType(c, k), depth - 1)}} :
                i \in DOMAIN Ctors(t)}

\* Every clause is a wildcard or a pattern of type t.
OfType(t) == \A i \in DOMAIN clauses : ~IsWild(clauses[i]) => clauses[i].ctor[1] = t

---------------------------------------------------------------------------
Init == ctx = NewCtx /\ env = <<>> /\ clauses = <<>> /\ answer = None

\* A client declares, and then binds or matches: a bound on the runs, which the
\* code does not ask for. Binding and matching read different things.
Declaring == clauses = <<>>

DeclareType ==
    /\ Declaring /\ Len(ctx.types) < MaxTypes
    /\ \E ok \in BOOLEAN : (ok \/ ctx.faults < MaxFaults) /\ ctx' = TypeNew(ok)
    /\ UNCHANGED <<env, clauses, answer>>

AddCtor ==
    /\ Declaring
    /\ \E offer \in Offers : CtorAddable(offer) /\ Len(Ctors(offer[1])) < MaxCtors /\ ctx' = CtorAdd(offer)
    /\ UNCHANGED <<env, clauses, answer>>

SealType ==
    /\ Declaring
    /\ \E t \in Types, done \in 0..Cardinality(Offers) :
        /\ ~ctx.types[t].sealed /\ Validate(t)
        /\ done <= Len(Ctors(t)) /\ (done < Len(Ctors(t)) => ctx.faults < MaxFaults)
        /\ ctx' = Seal(t, done)
    /\ UNCHANGED <<env, clauses, answer>>

BindAll ==
    /\ Declaring /\ env = <<>> /\ Types # {}
    /\ \E done \in 1..Cardinality(Offers) : env' = BindFrom(1, done, <<>>)
    /\ UNCHANGED <<ctx, clauses, answer>>

BuildClause ==
    /\ Len(clauses) < MaxClauses /\ env = <<>>
    /\ \E t \in Types : \E p \in Patterns(t, MaxDepth) :
        /\ ~IsWild(p) => OfType(t)
        /\ clauses' = Append(clauses, p)
    /\ answer' = None
    /\ UNCHANGED <<ctx, env>>

AskExhaustive ==
    /\ clauses # <<>> /\ answer = None
    /\ \E t \in Types, fault \in AllocFaults :
        /\ ctx.types[t].sealed /\ (fault # 0 => ctx.faults < MaxFaults)
        /\ OfType(t)
        /\ answer' = [kind |-> "exhaustive", of |-> t, fault |-> fault, said |-> MatchExhaustive(t, fault)]
    /\ UNCHANGED <<ctx, env, clauses>>

AskRedundant ==
    /\ clauses # <<>> /\ answer = None
    /\ \E fault \in AllocFaults :
        /\ fault # 0 => ctx.faults < MaxFaults
        /\ answer' = [kind |-> "redundant", fault |-> fault, said |-> MatchRedundant(fault)]
    /\ UNCHANGED <<ctx, env, clauses>>

Next == DeclareType \/ AddCtor \/ SealType \/ BindAll \/ BuildClause \/ AskExhaustive \/ AskRedundant

Spec == Init /\ [][Next]_vars

---------------------------------------------------------------------------
(* The reference: the values of a type, and which of them a pattern   *)
(* matches. What has no family has one value, which wildcards match.        *)

\* The sequences that take their k-th element from the k-th set.
OneOfEach(sets) == {f \in [DOMAIN sets -> UNION Range(sets)] : \A k \in DOMAIN sets : f[k] \in sets[k]}

RECURSIVE Values(_, _)
Values(t, depth) ==
    CASE t = 0 -> {<<"opaque">>}
      [] depth = 0 -> {}
      [] OTHER ->
           UNION {LET c == <<t, i>>
                  IN {<<c>> \o a : a \in OneOfEach([k \in 1..FieldCount(c) |-> Values(FieldFamily(c, k), depth - 1)])} :
                  i \in DOMAIN Ctors(t)}

RECURSIVE Matches(_, _)
Matches(p, v) ==
    IsWild(p) \/ (p.ctor = v[1] /\ \A i \in DOMAIN p.args : Matches(p.args[i], v[i + 1]))

\* No constructor stands below a field that the analysis has no family for.
RECURSIVE Plain(_)
Plain(p) ==
    IsWild(p) \/ \A i \in DOMAIN p.args : Plain(p.args[i]) /\ (FieldFamily(p.ctor, i) = 0 => IsWild(p.args[i]))

\* The types the analysis can reach from t: all sealed, or only looked at early.
RECURSIVE Reach(_, _)
Reach(ts, n) ==
    IF n = 0 THEN ts
    ELSE Reach(ts \cup {FieldFamily(<<t, i>>, k) : <<t, i, k>> \in
                        {x \in (ts \ {0}) \X (1..Cardinality(Offers)) \X (1..2) :
                            x[2] \in DOMAIN Ctors(x[1]) /\ x[3] \in 1..FieldCount(<<x[1], x[2]>>)}}, n - 1)
Settled(t) == \A u \in Reach({t}, MaxTypes) \ {0} : ctx.types[u].sealed

\* Following first constructors from any type ends: the depth at which it has.
RECURSIVE Grounded(_, _)
Grounded(t, n) ==
    \/ t = 0
    \/ /\ n > 0 /\ Ctors(t) # <<>>
       /\ \A k \in 1..FieldCount(<<t, 1>>) : Grounded(FieldFamily(<<t, 1>>, k), n - 1)

AsksAbout == IF answer.kind = "exhaustive" THEN answer.of
             ELSE LET ctors == {i \in DOMAIN clauses : ~IsWild(clauses[i])}
                  IN IF ctors = {} THEN 0 ELSE clauses[CHOOSE i \in ctors : TRUE].ctor[1]

Covered(v, upto) == \E i \in 1..upto : Matches(clauses[i], v)

\* How deep values need be to tell any two clauses apart.
Deep == MaxDepth + 2

\* adt_match_exhaustive answers exactly: the clauses cover all values of the
\* type or it says they do not. The constructors stand at fields of declared,
\* sealed types.
ExhaustiveExact ==
    (answer.kind = "exhaustive" /\ answer.fault = 0 /\ answer.said.r # "never" /\ Settled(answer.of)
        /\ \A i \in DOMAIN clauses : Plain(clauses[i]))
    => (answer.said.r = "no" <=> \A v \in Values(answer.of, Deep) : Covered(v, Len(clauses)))

\* adt_match_redundant marks exactly the clauses that match no value the
\* clauses before them leave, under the same conditions.
RedundantExact ==
    (answer.kind = "redundant" /\ answer.fault = 0 /\ answer.said.r # "never" /\ Settled(AsksAbout)
        /\ \A i \in DOMAIN clauses : Plain(clauses[i]))
    => \A i \in DOMAIN clauses :
         answer.said.marks[i] <=>
            IF AsksAbout = 0 THEN i # 1
            ELSE \A v \in Values(AsksAbout, Deep) : Matches(clauses[i], v) => Covered(v, i - 1)

\* Whichever allocation fails, no match that misses a value is called
\* exhaustive and no clause that is needed is called redundant, although a
\* row that could not be copied is silently left out.
FailureConservative ==
    (answer.kind # "none" /\ answer.fault # 0 /\ AsksAbout # 0 /\ Settled(AsksAbout)
        /\ \A i \in DOMAIN clauses : Plain(clauses[i]))
    => IF answer.kind = "exhaustive"
       THEN answer.said.r = "no" => \A v \in Values(AsksAbout, Deep) : Covered(v, Len(clauses))
       ELSE answer.said.r = "marks" =>
                \A i \in DOMAIN clauses :
                    answer.said.marks[i] => \A v \in Values(AsksAbout, Deep) : Matches(clauses[i], v) => Covered(v, i - 1)

\* The analysis ends when following first constructors does, recursive types included.
AnalysisEnds ==
    (answer.kind # "none" /\ \A t \in Types : Grounded(t, MaxTypes)) => answer.said.r # "never"

\* A name means one constructor: what the environment answers for it is the
\* scheme of the only constructor of that name, whose type is sealed and
\* whose scheme returns that type, however sealing and binding failed before.
NamesResolve ==
    \A i \in DOMAIN env :
        LET owners == {c \in Types \X (1..Cardinality(Offers)) : c[2] \in DOMAIN Ctors(c[1]) /\ CtorOf(c).name = env[i][1]}
        IN \E c \in owners :
            /\ owners = {c} /\ ctx.types[c[1]].sealed
            /\ Lookup(env[i][1]) = SchemeOf(c[1], c[2])
            /\ \A j \in DOMAIN Ctors(c[1]) : Ctors(c[1])[j].scheme # None
============================================================================
