----------------------------- MODULE Wasm89Types ---------------------------
(***************************************************************************)
(* The types of a WebAssembly module (src/wasm89): recursive groups, the   *)
(* canonical equality of defined types, subtyping, and the validation of   *)
(* the type section.  Linking compares types of two modules with a second  *)
(* copy of the same algorithms, the operators that end in X.  Types are    *)
(* numbered from 1, and 0 stands for "no index".                           *)
(***************************************************************************)
EXTENDS Integers, Sequences, SequencesExt, FiniteSets

(* Value types: num is a number type, "bot" for the unknown type, or "ref" *)
NumType(n) == [num |-> n, nullable |-> FALSE, idx |-> 0, abs |-> "none"]
RefType(null, x) == [num |-> "ref", nullable |-> null, idx |-> x, abs |-> "none"]
AbsType(null, h) == [num |-> "ref", nullable |-> null, idx |-> 0, abs |-> h]
Bot == NumType("bot")
BotRef == AbsType(FALSE, "bot")

FuncType(ps, rs) == [kind |-> "func", params |-> ps, results |-> rs, fields |-> <<>>]
StructType(fs) == [kind |-> "struct", params |-> <<>>, results |-> <<>>, fields |-> fs]
ArrayType(f) == [kind |-> "array", params |-> <<>>, results |-> <<>>, fields |-> <<f>>]
Field(pk, mu, t) == [packed |-> pk, mut |-> mu, vt |-> t]
Subtype(fin, sup, c) == [final |-> fin, supers |-> sup, comp |-> c]

(* The type environment of a module: its groups flattened *)
AddGroup(env, group) ==
    LET g == Len(env.recs) + 1
    IN [types |-> env.types \o [k \in DOMAIN group |-> [sub |-> group[k], recgroup |-> g, recpos |-> k]],
        recs  |-> Append(env.recs, [first |-> Len(env.types) + 1, nsubs |-> Len(group)])]

TypeenvBuild(rectypes) == FoldLeft(AddGroup, [types |-> <<>>, recs |-> <<>>], rectypes)

EmptyEnv == TypeenvBuild(<<>>)
SubOf(env, x) == env.types[x].sub

---------------------------------------------------------------------------
(* Canonical equality within one module *)

RECURSIVE TypeCanonEq(_, _, _)

TypeuseCanonEq(env, x, y, ga, gb) ==
    LET In(z, g) == z <= Len(env.types) /\ env.types[z].recgroup = g
    IN IF In(x, ga) /\ In(y, gb)
       THEN env.types[x].recpos = env.types[y].recpos
       ELSE ~In(x, ga) /\ ~In(y, gb) /\ TypeCanonEq(env, x, y)

HtCanonEq(env, a, b, ga, gb) ==
    /\ (a.idx # 0) = (b.idx # 0)
    /\ IF a.idx # 0 THEN TypeuseCanonEq(env, a.idx, b.idx, ga, gb) ELSE a.abs = b.abs

VtCanonEq(env, a, b, ga, gb) ==
    /\ a.num = b.num
    /\ a.num = "ref" => a.nullable = b.nullable /\ HtCanonEq(env, a, b, ga, gb)

\* Mutability is not compared.
FieldCanonEq(env, a, b, ga, gb) ==
    /\ a.packed = b.packed
    /\ a.packed = "no" => VtCanonEq(env, a.vt, b.vt, ga, gb)

ComptypeCanonEq(env, a, b, ga, gb) ==
    LET Same(s, t) == Len(s) = Len(t) /\ \A i \in DOMAIN s : VtCanonEq(env, s[i], t[i], ga, gb)
    IN /\ a.kind = b.kind
       /\ CASE a.kind = "func"   -> Same(a.params, b.params) /\ Same(a.results, b.results)
            [] a.kind = "struct" -> /\ Len(a.fields) = Len(b.fields)
                                    /\ \A i \in DOMAIN a.fields :
                                          FieldCanonEq(env, a.fields[i], b.fields[i], ga, gb)
            [] a.kind = "array"  -> FieldCanonEq(env, a.fields[1], b.fields[1], ga, gb)

\* Mutant: the supertypes of two groups are not compared.
RecgroupCanonEqNoSupers(env, ga, gb) ==
    \/ ga = gb
    \/ LET ra == env.recs[ga] rb == env.recs[gb]
       IN /\ ra.nsubs = rb.nsubs
          /\ \A k \in 0 .. ra.nsubs - 1 :
                LET sa == SubOf(env, ra.first + k) sb == SubOf(env, rb.first + k)
                IN /\ sa.final = sb.final
                   /\ Len(sa.supers) = Len(sb.supers)
                   /\ ComptypeCanonEq(env, sa.comp, sb.comp, ga, gb)

RecgroupCanonEq(env, ga, gb) ==
    \/ ga = gb
    \/ LET ra == env.recs[ga] rb == env.recs[gb]
       IN /\ ra.nsubs = rb.nsubs
          /\ \A k \in 0 .. ra.nsubs - 1 :
                LET sa == SubOf(env, ra.first + k) sb == SubOf(env, rb.first + k)
                IN /\ sa.final = sb.final
                   /\ Len(sa.supers) = Len(sb.supers)
                   /\ \A j \in DOMAIN sa.supers :
                         TypeuseCanonEq(env, sa.supers[j], sb.supers[j], ga, gb)
                   /\ ComptypeCanonEq(env, sa.comp, sb.comp, ga, gb)

TypeCanonEq(env, a, b) ==
    \/ a = b
    \/ /\ a <= Len(env.types) /\ b <= Len(env.types)
       /\ env.types[a].recpos = env.types[b].recpos
       /\ RecgroupCanonEq(env, env.types[a].recgroup, env.types[b].recgroup)

---------------------------------------------------------------------------
(* Subtyping within one module *)

KindMatchesAbstract(kind, hb) ==
    CASE kind = "func"   -> hb = "func"
      [] kind = "struct" -> hb \in {"any", "eq", "struct"}
      [] kind = "array"  -> hb \in {"any", "eq", "array"}

AbstractLtAbstract(ha, hb) ==
    \/ ha = hb
    \/ ha = "eq" /\ hb = "any"
    \/ ha \in {"struct", "array", "i31"} /\ hb \in {"any", "eq"}
    \/ ha = "none" /\ hb \in {"any", "eq", "struct", "array", "i31"}
    \/ ha = "nofunc" /\ hb = "func"
    \/ ha = "noexn" /\ hb = "exn"
    \/ ha = "noextern" /\ hb = "extern"

AbstractLtType(env, ha, x) ==
    LET kind == SubOf(env, x).comp.kind
    IN \/ ha = "none" /\ kind \in {"struct", "array"}
       \/ ha = "nofunc" /\ kind = "func"

RECURSIVE MatchDeftype(_, _, _)

HtMatch(env, a, b) ==
    IF a.idx = 0 /\ a.abs = "bot" THEN TRUE
    ELSE IF a.idx # 0
         THEN IF b.idx # 0 THEN MatchDeftype(env, a.idx, b.idx)
              ELSE KindMatchesAbstract(SubOf(env, a.idx).comp.kind, b.abs)
         ELSE IF b.idx # 0 THEN AbstractLtType(env, a.abs, b.idx)
              ELSE AbstractLtAbstract(a.abs, b.abs)

MatchReftype(env, a, b) == ~(a.nullable /\ ~b.nullable) /\ HtMatch(env, a, b)

MatchValtype(env, a, b) ==
    \/ a = Bot
    \/ /\ a.num = b.num
       /\ a.num = "ref" => MatchReftype(env, a, b)

MatchResulttype(env, s, t) ==
    Len(s) = Len(t) /\ \A i \in DOMAIN s : MatchValtype(env, s[i], t[i])

MatchStoragetype(env, a, b) ==
    /\ a.packed = b.packed
    /\ a.packed = "no" => MatchValtype(env, a.vt, b.vt)

MatchFieldtype(env, a, b) ==
    /\ a.mut = b.mut
    /\ MatchStoragetype(env, a, b)
    /\ a.mut => MatchStoragetype(env, b, a)

MatchComptype(env, a, b) ==
    /\ a.kind = b.kind
    /\ CASE a.kind = "func"   -> /\ MatchResulttype(env, b.params, a.params)
                                 /\ MatchResulttype(env, a.results, b.results)
         [] a.kind = "struct" -> /\ Len(a.fields) >= Len(b.fields)
                                 /\ \A i \in DOMAIN b.fields : MatchFieldtype(env, a.fields[i], b.fields[i])
         [] a.kind = "array"  -> MatchFieldtype(env, a.fields[1], b.fields[1])

MatchDeftype(env, a, b) ==
    \/ TypeCanonEq(env, a, b)
    \/ \E j \in DOMAIN SubOf(env, a).supers : MatchDeftype(env, SubOf(env, a).supers[j], b)

---------------------------------------------------------------------------
(* Validation of the type section *)

VtValid(t, bound) == t.num = "ref" /\ t.idx # 0 => t.idx < bound

IndicesKnown(env, i) ==
    LET st == SubOf(env, i)
        rec == env.recs[env.types[i].recgroup]
        bound == rec.first + rec.nsubs
    IN /\ \A j \in DOMAIN st.supers : st.supers[j] < bound
       /\ \A t \in Range(st.comp.params) \cup Range(st.comp.results) : VtValid(t, bound)
       /\ \A f \in Range(st.comp.fields) : f.packed = "no" => VtValid(f.vt, bound)

\* Mutant: the structure of a declared subtype is not compared with its supertype's.
SupersOkDeclared(env, i) ==
    \A j \in DOMAIN SubOf(env, i).supers :
        LET s == SubOf(env, i).supers[j] IN s < i /\ ~SubOf(env, s).final

SupersOk(env, i) ==
    \A j \in DOMAIN SubOf(env, i).supers :
        LET s == SubOf(env, i).supers[j]
        IN s < i /\ ~SubOf(env, s).final /\ MatchComptype(env, SubOf(env, i).comp, SubOf(env, s).comp)

ValidateTypeSection(env) ==
    /\ \A i \in DOMAIN env.types : IndicesKnown(env, i)
    /\ \A i \in DOMAIN env.types : SupersOk(env, i)

---------------------------------------------------------------------------
(* The second copy, across two modules *)

RECURSIVE DeftypeCanonEqX(_, _, _, _)

TypeuseCanonEqX(ae, ga, be, gb, x, y) ==
    LET In(env, z, g) == z <= Len(env.types) /\ env.types[z].recgroup = g
    IN IF In(ae, x, ga) /\ In(be, y, gb)
       THEN ae.types[x].recpos = be.types[y].recpos
       ELSE ~In(ae, x, ga) /\ ~In(be, y, gb) /\ DeftypeCanonEqX(ae, x, be, y)

VtCanonEqX(ae, a, ga, be, b, gb) ==
    /\ a.num = b.num
    /\ a.num = "ref" =>
          /\ a.nullable = b.nullable
          /\ (a.idx # 0) = (b.idx # 0)
          /\ IF a.idx # 0 THEN TypeuseCanonEqX(ae, ga, be, gb, a.idx, b.idx) ELSE a.abs = b.abs

FieldCanonEqX(ae, a, ga, be, b, gb) ==
    /\ a.packed = b.packed
    /\ a.packed = "no" => VtCanonEqX(ae, a.vt, ga, be, b.vt, gb)

ComptypeCanonEqX(ae, a, ga, be, b, gb) ==
    LET Same(s, t) == Len(s) = Len(t) /\ \A i \in DOMAIN s : VtCanonEqX(ae, s[i], ga, be, t[i], gb)
    IN /\ a.kind = b.kind
       /\ IF a.kind = "func"
          THEN Same(a.params, b.params) /\ Same(a.results, b.results)
          ELSE /\ Len(a.fields) = Len(b.fields)
               /\ \A i \in DOMAIN a.fields : FieldCanonEqX(ae, a.fields[i], ga, be, b.fields[i], gb)

RecgroupCanonEqX(ae, ga, be, gb) ==
    LET ra == ae.recs[ga] rb == be.recs[gb]
    IN /\ ra.nsubs = rb.nsubs
       /\ \A k \in 0 .. ra.nsubs - 1 :
             LET sa == SubOf(ae, ra.first + k) sb == SubOf(be, rb.first + k)
             IN /\ sa.final = sb.final
                /\ Len(sa.supers) = Len(sb.supers)
                /\ \A j \in DOMAIN sa.supers :
                      TypeuseCanonEqX(ae, ga, be, gb, sa.supers[j], sb.supers[j])
                /\ ComptypeCanonEqX(ae, sa.comp, ga, be, sb.comp, gb)

DeftypeCanonEqX(ae, a, be, b) ==
    /\ a <= Len(ae.types) /\ b <= Len(be.types)
    /\ ae.types[a].recpos = be.types[b].recpos
    /\ RecgroupCanonEqX(ae, ae.types[a].recgroup, be, be.types[b].recgroup)

RECURSIVE MatchDeftypeX(_, _, _, _)
\* Mutant: the supertypes are looked up in the other module's environment.
MatchDeftypeSwapped(ae, a, be, b) ==
    /\ a <= Len(ae.types) /\ b <= Len(be.types)
    /\ \/ DeftypeCanonEqX(ae, a, be, b)
       \/ \E j \in DOMAIN SubOf(ae, a).supers :
             LET s == SubOf(ae, a).supers[j] IN s <= Len(be.types) /\ MatchDeftype(be, s, b)

MatchDeftypeX(ae, a, be, b) ==
    /\ a <= Len(ae.types) /\ b <= Len(be.types)
    /\ \/ DeftypeCanonEqX(ae, a, be, b)
       \/ \E j \in DOMAIN SubOf(ae, a).supers : MatchDeftypeX(ae, SubOf(ae, a).supers[j], be, b)

HtMatchX(ae, a, be, b) ==
    IF a.idx = 0 /\ a.abs = "bot" THEN TRUE
    ELSE IF a.idx # 0
         THEN IF b.idx # 0 THEN MatchDeftypeX(ae, a.idx, be, b.idx)
              ELSE KindMatchesAbstract(SubOf(ae, a.idx).comp.kind, b.abs)
         ELSE IF b.idx # 0 THEN AbstractLtType(be, a.abs, b.idx)
              ELSE AbstractLtAbstract(a.abs, b.abs)

MatchValtypeX(ae, a, be, b) ==
    \/ a = Bot
    \/ /\ a.num = b.num
       /\ a.num = "ref" => ~(a.nullable /\ ~b.nullable) /\ HtMatchX(ae, a, be, b)

MatchFtX(ae, a, be, b) ==
    /\ Len(a.params) = Len(b.params) /\ Len(a.results) = Len(b.results)
    /\ \A i \in DOMAIN a.params : MatchValtypeX(be, b.params[i], ae, a.params[i])
    /\ \A i \in DOMAIN a.results : MatchValtypeX(ae, a.results[i], be, b.results[i])
---------------------------------------------------------------------------
(* What a module may import: limits and external types *)

Limits(a64, mn, mx) == [addr64 |-> a64, min |-> mn, max |-> mx]
NoMax == -1

MatchLimits(a, b) ==
    /\ a.addr64 = b.addr64
    /\ a.min >= b.min
    /\ b.max # NoMax => a.max # NoMax /\ a.max <= b.max

\* An external type: its kind and the part of it that kind has.
ExternType(kind, x, t, mu, lim) ==
    [kind |-> kind, typeidx |-> x, vt |-> t, mut |-> mu, limits |-> lim]

\* Mutant: a mutable global may be imported at a wider type.
MatchExterntypeCovariant(ae, a, be, b) ==
    /\ a.kind = b.kind
    /\ CASE a.kind = "func"   -> MatchDeftypeX(ae, a.typeidx, be, b.typeidx)
         [] a.kind = "tag"    -> /\ MatchDeftypeX(ae, a.typeidx, be, b.typeidx)
                                 /\ MatchDeftypeX(be, b.typeidx, ae, a.typeidx)
         [] a.kind = "global" -> a.mut = b.mut /\ MatchValtypeX(ae, a.vt, be, b.vt)
         [] a.kind = "table"  -> /\ MatchValtypeX(ae, a.vt, be, b.vt)
                                 /\ MatchValtypeX(be, b.vt, ae, a.vt)
                                 /\ MatchLimits(a.limits, b.limits)
         [] a.kind = "memory" -> MatchLimits(a.limits, b.limits)

MatchExterntype(ae, a, be, b) ==
    /\ a.kind = b.kind
    /\ CASE a.kind = "func"   -> MatchDeftypeX(ae, a.typeidx, be, b.typeidx)
         [] a.kind = "tag"    -> /\ MatchDeftypeX(ae, a.typeidx, be, b.typeidx)
                                 /\ MatchDeftypeX(be, b.typeidx, ae, a.typeidx)
         [] a.kind = "global" -> /\ a.mut = b.mut
                                 /\ MatchValtypeX(ae, a.vt, be, b.vt)
                                 /\ a.mut => MatchValtypeX(be, b.vt, ae, a.vt)
         [] a.kind = "table"  -> /\ MatchValtypeX(ae, a.vt, be, b.vt)
                                 /\ MatchValtypeX(be, b.vt, ae, a.vt)
                                 /\ MatchLimits(a.limits, b.limits)
         [] a.kind = "memory" -> MatchLimits(a.limits, b.limits)
============================================================================
