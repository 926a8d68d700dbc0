---------------------------- MODULE Wasm89Linking --------------------------
(***************************************************************************)
(* The type sections of an exporting and an importing module, grown group  *)
(* by group, validated, and linked (src/wasm89/src/validate.c and the end  *)
(* of eval.c).                                                             *)
(***************************************************************************)
EXTENDS Wasm89Types

CONSTANTS
    MaxTypes,  \* the number of types of a module
    MaxLinked  \* the number of types of two linked modules

VARIABLES exporter, importer, role

vars == <<exporter, importer, role>>

Count(rectypes) == Len(TypeenvBuild(rectypes).types)

(* The groups that may follow n types.  The unknown index n + 2 and the   *)
(* supertype n + 1, the type itself, are there to be rejected.            *)
Singles(n) ==
    {<<Subtype(fin, <<>>, c)>> : fin \in BOOLEAN,
        c \in {StructType(<<>>), FuncType(<<NumType("i32")>>, <<AbsType(TRUE, "func")>>)}
             \cup {StructType(<<Field("no", mu, RefType(TRUE, x))>>) : mu \in BOOLEAN, x \in 1 .. n + 1}}
    \cup {<<Subtype(FALSE, <<s>>, c)>> : s \in 1 .. n + 1,
        c \in {StructType(<<Field("no", FALSE, t)>>) : t \in {RefType(TRUE, 1), RefType(FALSE, n + 1), RefType(TRUE, n + 2)}}
             \cup {FuncType(<<NumType("i32")>>, <<AbsType(TRUE, "nofunc")>>)}}

Twins(n) ==
    {<<Subtype(FALSE, s1, StructType(<<Field("no", FALSE, RefType(TRUE, x))>>)), Subtype(FALSE, s2, c2)>> :
        s1 \in {<<>>, <<1>>}, s2 \in {<<>>, <<n + 1>>}, x \in {n + 1, n + 2},
        c2 \in {StructType(<<Field("no", FALSE, RefType(TRUE, n + 1))>>),
                FuncType(<<RefType(FALSE, n + 1)>>, <<RefType(TRUE, 1)>>)}}

Grow(rectypes) == {Append(rectypes, g) : g \in Singles(Count(rectypes)) \cup Twins(Count(rectypes))}
Accepted(rectypes) == ValidateTypeSection(TypeenvBuild(rectypes))

Init == exporter = <<>> /\ importer = <<>> /\ role = "exporter"

\* A group is decoded and its section validated; a rejected module is given up.
AddToExporter ==
    /\ role = "exporter" /\ Count(exporter) < MaxTypes
    /\ \E e \in Grow(exporter) : Count(e) <= MaxTypes /\ Accepted(e) /\ exporter' = e
    /\ UNCHANGED <<importer, role>>

Publish == role = "exporter" /\ exporter # <<>> /\ role' = "importer" /\ UNCHANGED <<exporter, importer>>

AddToImporter ==
    /\ role = "importer" /\ Count(exporter) + Count(importer) < MaxLinked
    /\ \E i \in Grow(importer) : Count(exporter) + Count(i) <= MaxLinked /\ Accepted(i) /\ importer' = i
    /\ UNCHANGED <<exporter, role>>

Next == AddToExporter \/ Publish \/ AddToImporter

Spec == Init /\ [][Next]_vars

---------------------------------------------------------------------------
(* Reference: the closed form of a type.  A reference into its own group is *)
(* replaced by its position, any other by the closed form it stands for.    *)

RECURSIVE Closed(_, _)
Closed(env, x) ==
    LET g == env.types[x].recgroup
        Use(y) == IF env.types[y].recgroup = g THEN <<"own", env.types[y].recpos>>
                                               ELSE <<"other", Closed(env, y)>>
        Vt(t) == IF t.idx = 0 THEN <<"plain", t>> ELSE <<"index", t.nullable, Use(t.idx)>>
        Fd(f) == IF f.packed = "no" THEN <<"value", Vt(f.vt)>> ELSE <<"packed", f.packed>>
        Close(s) == <<s.final, [j \in DOMAIN s.supers |-> Use(s.supers[j])], s.comp.kind,
                      [i \in DOMAIN s.comp.params |-> Vt(s.comp.params[i])],
                      [i \in DOMAIN s.comp.results |-> Vt(s.comp.results[i])],
                      [i \in DOMAIN s.comp.fields |-> Fd(s.comp.fields[i])]>>
    IN <<[k \in 1 .. env.recs[g].nsubs |-> Close(SubOf(env, env.recs[g].first + k - 1))],
         env.types[x].recpos>>

\* One module that holds the types of both, the second ones renumbered.
Merged(a, b) ==
    LET n == Count(a)
        Vt(t) == IF t.idx = 0 THEN t ELSE [t EXCEPT !.idx = @ + n]
        Move(s) == [s EXCEPT !.supers = [j \in DOMAIN s.supers |-> s.supers[j] + n],
                             !.comp.params = [i \in DOMAIN s.comp.params |-> Vt(s.comp.params[i])],
                             !.comp.results = [i \in DOMAIN s.comp.results |-> Vt(s.comp.results[i])],
                             !.comp.fields = [i \in DOMAIN s.comp.fields |->
                                                [s.comp.fields[i] EXCEPT !.vt = Vt(@)]]]
    IN TypeenvBuild(a \o [g \in DOMAIN b |-> [k \in DOMAIN b[g] |-> Move(b[g][k])]])

\* Canonical equality, computed pair by pair without unrolling, holds exactly
\* between types with the same closed form (mutability of fields aside).
CanonExact ==
    role = "exporter" =>
        LET env == TypeenvBuild(exporter)
            closed == [x \in DOMAIN env.types |-> Closed(env, x)]
        IN \A x, y \in DOMAIN env.types : TypeCanonEq(env, x, y) <=> closed[x] = closed[y]

\* In an accepted section subtyping is a preorder, and a subtype has the
\* structure of a type equal to its supertype: declared chains cannot hide a
\* mismatch, whichever later types of a group they pass through.
MatchSound ==
    role = "exporter" =>
        LET env == TypeenvBuild(exporter)
            all == DOMAIN env.types
        IN \A x, y \in all : MatchDeftype(env, x, y) =>
              /\ \E z \in all : /\ TypeCanonEq(env, z, y)
                                /\ MatchComptype(env, SubOf(env, x).comp, SubOf(env, z).comp)
              /\ \A z \in all : MatchDeftype(env, y, z) => MatchDeftype(env, x, z)

\* Linking two modules decides as if their types stood in one module, in both
\* directions: the copy of the algorithms for two environments agrees with the
\* one validation uses.
LinkAgrees ==
    role = "importer" =>
        LET ee == TypeenvBuild(exporter)
            ie == TypeenvBuild(importer)
            one == Merged(exporter, importer)
            n == Count(exporter)
        IN \A x \in DOMAIN ee.types, y \in DOMAIN ie.types :
              /\ MatchDeftypeX(ee, x, ie, y) <=> MatchDeftype(one, x, n + y)
              /\ MatchDeftypeX(ie, y, ee, x) <=> MatchDeftype(one, n + y, x)

Shapes == {Limits(FALSE, mn, mx) : mn \in {0, 1}, mx \in {NoMax, 1}} \cup {Limits(TRUE, 0, NoMax)}
Refs(types) == {RefType(nl, x) : nl \in BOOLEAN, x \in types} \cup {AbsType(TRUE, "nofunc"), AbsType(TRUE, "func")}
Exports(types) ==
    {ExternType(k, x, Bot, FALSE, Limits(FALSE, 0, NoMax)) : k \in {"func", "tag"}, x \in types}
    \cup {ExternType("global", 0, t, mu, Limits(FALSE, 0, NoMax)) : mu \in BOOLEAN, t \in Refs(types)}
    \cup {ExternType("table", 0, AbsType(TRUE, "func"), FALSE, l) : l \in Shapes}
    \cup {ExternType("table", 0, t, FALSE, Limits(FALSE, 0, NoMax)) : t \in Refs(types)}

\* What two modules that share an import do to each other: what one may write
\* the other may read, a function or an exception arrives with values of the
\* expected types, and a table grown within the exporter's limits stays within
\* the importer's.
ImportSound ==
    role = "exporter" =>
        LET env == TypeenvBuild(exporter)
            refs == Refs(DOMAIN env.types)
            Below(t) == {v \in refs : MatchValtype(env, v, t)}
            below == [t \in refs |-> Below(t)]
            Sizes(l) == l.min .. (IF l.max = NoMax THEN 3 ELSE l.max)
        IN \A a, b \in Exports(DOMAIN env.types) : MatchExterntype(env, a, env, b) =>
              CASE a.kind = "global" -> /\ below[a.vt] \subseteq below[b.vt]
                                        /\ b.mut => below[b.vt] \subseteq below[a.vt]
                [] a.kind = "table"  -> below[a.vt] = below[b.vt] /\ Sizes(a.limits) \subseteq Sizes(b.limits)
                [] a.kind = "func"   -> \A x \in DOMAIN env.types :
                                           MatchDeftype(env, x, a.typeidx) => MatchDeftype(env, x, b.typeidx)
                [] a.kind = "tag"    -> \A x \in DOMAIN env.types :
                                           MatchDeftype(env, x, a.typeidx) <=> MatchDeftype(env, x, b.typeidx)
============================================================================
