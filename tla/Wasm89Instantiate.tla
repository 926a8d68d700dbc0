-------------------------- MODULE Wasm89Instantiate ------------------------
(***************************************************************************)
(* The validation of modules, the store, the registry and instantiation    *)
(* (src/wasm89/src/instantiate.c).  The store owns every instance, failed  *)
(* ones included, since functions of theirs may already stand in a table   *)
(* of another.                                                             *)
(*                                                                         *)
(* An instantiation in progress w has the store s, the index i of the new  *)
(* instance, its module, the registry and its status; fail is the          *)
(* allocation that finds no memory, as <<stage, item>>.                    *)
(***************************************************************************)
EXTENDS Wasm89Iter

CONSTANTS Modules,   \* the modules a client has decoded
          Names,     \* the names it registers instances under
          Failures,  \* the allocations that may fail, NoFailure among them
          MaxInsts,  \* the most instances of a store
          MaxCalls,  \* the most calls of exported functions
          StartFuel  \* the most steps of a call

VARIABLES store,    \* instances, functions, tags and what they share
          registry, \* name -> instance, 0 for none
          calls,    \* the number of calls made
          last      \* the last instantiation: how it ended and what it found

ivars == <<store, registry, calls, last>>

NoFailure == <<"none", 0>>

---------------------------------------------------------------------------
(***************************************************************************)
(* The validation of a decoded module (the end of src/wasm89/src/          *)
(* validate.c): its fields in the order in which the code looks at them,   *)
(* each against the index spaces the fields before it have filled.         *)
(*                                                                         *)
(* A module mod has rectypes, imports, tags, funcs, mems, tables, globals, *)
(* datas, elems, exports and start (0 for none).  A segment's mode is      *)
(* "active", "passive" or "declared"; its items are constant expressions,  *)
(* a function index being the expression ref.func.                         *)
(***************************************************************************)
CheckLimits(lim, range) ==
    /\ lim.min <= range
    /\ lim.max # NoMax => lim.max <= range /\ lim.min <= lim.max

CheckMemorytype(lim) == CheckLimits(lim, MaxPages(lim))
CheckTabletype(m, t) == TypeKnown(m, t.rt) /\ CheckLimits(t.limits, 2 ^ (IF t.limits.addr64 THEN W64 ELSE W32) - 1)

---------------------------------------------------------------------------
(* Constant expressions *)

IsConstInstr(m, in) ==
    \/ in.op \in {"const", "ref.null", "ref.func"}
    \/ in.op = "bin" /\ in.f \in {"add", "sub", "mul"} /\ in.vt \in {I32, I64}
    \/ in.op = "global.get" /\ in.x \in DOMAIN m.globals /\ ~m.globals[in.x].mut

CheckConst(m, expr, t) ==
    LET c == [ok |-> TRUE, stk |-> <<>>, sbase |-> 0, ell |-> FALSE, labels |-> <<>>, locals |-> <<>>,
              results |-> <<>>, init |-> <<>>]
    IN /\ \A j \in DOMAIN expr : IsConstInstr(m, expr[j])
       /\ BodyEnd(m, expr, 0, <<t>>, CheckInstrs(m, expr, c, 1)).ok

---------------------------------------------------------------------------
(* Fields: m is the context so far, m.ok says whether it is still valid *)

TagTypeOk(m, t) == FuncTypeOk(m, t) /\ Results(m, t) = <<>>

CheckImport(m, im) ==
    LET x == im.ext
    IN CASE x.kind = "func"   -> [m EXCEPT !.ok = FuncTypeOk(m, x.typeidx), !.funcs = Append(@, x.typeidx)]
         [] x.kind = "table"  -> LET t == [rt |-> x.vt, limits |-> x.limits]
                                 IN [m EXCEPT !.ok = CheckTabletype(m, t), !.tables = Append(@, t)]
         [] x.kind = "memory" -> [m EXCEPT !.ok = CheckMemorytype(x.limits), !.mems = Append(@, x.limits)]
         [] x.kind = "global" -> [m EXCEPT !.ok = TypeKnown(m, x.vt), !.globals = Append(@, [vt |-> x.vt, mut |-> x.mut])]
         [] x.kind = "tag"    -> [m EXCEPT !.ok = TagTypeOk(m, x.typeidx), !.tags = Append(@, x.typeidx)]

CheckTag(m, t) == [m EXCEPT !.ok = TagTypeOk(m, t), !.tags = Append(@, t)]
CheckFunc(m, f) == [m EXCEPT !.ok = FuncTypeOk(m, f.typeidx), !.funcs = Append(@, f.typeidx)]
CheckMemory(m, lim) == [m EXCEPT !.ok = CheckMemorytype(lim), !.mems = Append(@, lim)]

\* A table without an initial value gets a null, which its type must admit.
CheckTable(m, t) ==
    [m EXCEPT !.ok = /\ CheckTabletype(m, t)
                     /\ IF t.init # <<>> THEN CheckConst(m, t.init, t.rt) ELSE t.rt.nullable,
              !.tables = Append(@, [rt |-> t.rt, limits |-> t.limits])]

CheckGlobal(m, g) ==
    [m EXCEPT !.ok = TypeKnown(m, g.vt) /\ CheckConst(m, g.init, g.vt),
              !.globals = Append(@, [vt |-> g.vt, mut |-> g.mut])]

CheckData(m, d) ==
    [m EXCEPT !.ok = d.mode = "active" =>
                        d.x \in DOMAIN m.mems /\ CheckConst(m, d.offset, AddrNum(m.mems[d.x])),
              !.ndatas = @ + 1]

\* Each item is a constant of the segment's type.
CheckElemItems(m, e) ==
    TypeKnown(m, e.rt) /\ \A j \in DOMAIN e.items : CheckConst(m, e.items[j], e.rt)

\* Mutant: the segment's type is not compared with the table's.
CheckElemAny(m, e) ==
    [m EXCEPT !.ok = /\ CheckElemItems(m, e)
                     /\ e.mode = "active" =>
                           e.x \in DOMAIN m.tables /\ CheckConst(m, e.offset, AddrNum(m.tables[e.x].limits)),
              !.elems = Append(@, e.rt)]

CheckElem(m, e) ==
    [m EXCEPT !.ok = /\ CheckElemItems(m, e)
                     /\ e.mode = "active" =>
                           /\ e.x \in DOMAIN m.tables
                           /\ MatchReftype(m.env, e.rt, m.tables[e.x].rt)
                           /\ CheckConst(m, e.offset, AddrNum(m.tables[e.x].limits)),
              !.elems = Append(@, e.rt)]

---------------------------------------------------------------------------
(* The module *)

\* The functions a reference may be taken of: named outside the bodies.
Declared(mod) ==
    LET RefFuncs(expr) == {expr[j].x : j \in {i \in DOMAIN expr : expr[i].op = "ref.func"}}
    IN UNION ({RefFuncs(g.init) : g \in Range(mod.globals)} \cup {RefFuncs(t.init) : t \in Range(mod.tables)}
                \cup UNION {{RefFuncs(e.offset)} \cup {RefFuncs(i) : i \in Range(e.items)} : e \in Range(mod.elems)})
       \cup {x.index : x \in {y \in Range(mod.exports) : y.kind = "func"}}

CheckField(m, f) ==
    CASE f.kind = "import" -> CheckImport(m, f.field)
      [] f.kind = "tag"    -> CheckTag(m, f.field)
      [] f.kind = "func"   -> CheckFunc(m, f.field)
      [] f.kind = "memory" -> CheckMemory(m, f.field)
      [] f.kind = "table"  -> CheckTable(m, f.field)
      [] f.kind = "global" -> CheckGlobal(m, f.field)
      [] f.kind = "data"   -> CheckData(m, f.field)
      [] f.kind = "elem"   -> CheckElem(m, f.field)

\* The fields in the order in which they are looked at.
Fields(mod) ==
    LET Of(kind, fields) == [j \in DOMAIN fields |-> [kind |-> kind, field |-> fields[j]]]
    IN FlattenSeq(<<Of("import", mod.imports), Of("tag", mod.tags), Of("func", mod.funcs), Of("memory", mod.mems),
                    Of("table", mod.tables), Of("global", mod.globals), Of("data", mod.datas), Of("elem", mod.elems)>>)

EmptyContext(mod, env) ==
    [ok |-> ValidateTypeSection(env), env |-> env, funcs |-> <<>>, tables |-> <<>>, mems |-> <<>>,
     globals |-> <<>>, tags |-> <<>>, elems |-> <<>>, ndatas |-> 0, declared |-> Declared(mod)]

ContextOf(mod) ==
    FoldLeft(LAMBDA m, f : IF m.ok THEN CheckField(m, f) ELSE m,
             EmptyContext(mod, TypeenvBuild(mod.rectypes)), Fields(mod))

CheckStart(m, start) ==
    start # 0 => FuncOk(m, start) /\ Params(m, m.funcs[start]) = <<>> /\ Results(m, m.funcs[start]) = <<>>

CheckExport(m, x) ==
    CASE x.kind = "func"   -> FuncOk(m, x.index)
      [] x.kind = "table"  -> x.index \in DOMAIN m.tables
      [] x.kind = "memory" -> x.index \in DOMAIN m.mems
      [] x.kind = "global" -> x.index \in DOMAIN m.globals
      [] x.kind = "tag"    -> x.index \in DOMAIN m.tags

\* The rest is checked in the context of all fields.
CheckIn(m, mod) ==
    /\ m.ok
    /\ \A f \in Range(mod.funcs) : CheckFuncBody(m, f, f.typeidx)
    /\ CheckStart(m, mod.start)
    /\ \A x \in Range(mod.exports) : CheckExport(m, x)
    /\ IsInjective([j \in DOMAIN mod.exports |-> mod.exports[j].name])

---------------------------------------------------------------------------
(* Lookup and linking *)

\* The last registration of a name counts.
RegistryFind(reg, name) == IF name \in DOMAIN reg THEN reg[name] ELSE 0

FindExport(inst, name) == {x \in Range(inst.exports) : x.name = name}

\* The external type of what an export names, with the environment of its owner.
ExterntypeOfInst(s, x) ==
    LET f == s.funcs[x.addr] t == s.st.tables[x.addr] g == s.st.globals[x.addr]
    IN CASE x.kind = "func"   -> [env |-> EnvOf(s, f.inst), ext |-> ExternType("func", f.typeidx, I32, FALSE, 0)]
         [] x.kind = "table"  -> [env |-> t.env, ext |-> ExternType("table", 0, t.rt, FALSE, t.limits)]
         [] x.kind = "memory" -> [env |-> EmptyEnv, ext |-> ExternType("memory", 0, I32, FALSE, s.st.mems[x.addr].limits)]
         [] x.kind = "global" -> [env |-> g.env, ext |-> ExternType("global", 0, g.vt, g.mut, 0)]
         [] x.kind = "tag"    -> [env |-> s.tags[x.addr].env, ext |-> ExternType("tag", s.tags[x.addr].typeidx, I32, FALSE, 0)]

Imports(s, env, x, ext) ==
    LET a == ExterntypeOfInst(s, x) IN MatchExterntype(a.env, a.ext, env, ext)

InstAppend(w, kind, addr) ==
    CASE kind = "func"   -> [w EXCEPT !.s.insts[w.i].funcs = Append(@, addr)]
      [] kind = "table"  -> [w EXCEPT !.s.insts[w.i].tables = Append(@, addr)]
      [] kind = "memory" -> [w EXCEPT !.s.insts[w.i].mems = Append(@, addr)]
      [] kind = "global" -> [w EXCEPT !.s.insts[w.i].globals = Append(@, addr)]
      [] kind = "tag"    -> [w EXCEPT !.s.insts[w.i].tags = Append(@, addr)]

Failed(w, why) == [w EXCEPT !.status = why]

Import(w, k) ==
    LET im == w.mod.imports[k]
        src == RegistryFind(w.reg, im.from)
        found == IF src = 0 THEN {} ELSE FindExport(w.s.insts[src], im.name)
        x == CHOOSE y \in found : TRUE
    IN IF found = {} THEN Failed(w, "unknown")
       ELSE IF ~Imports(w.s, w.s.insts[w.i].m.env, x, im.ext) THEN Failed(w, "incompatible")
       ELSE InstAppend(w, x.kind, x.addr)

---------------------------------------------------------------------------
(* The parts of an instance *)

Inst(w) == w.s.insts[w.i]
Env(w) == Inst(w).m.env

\* The single value of a constant expression.
EvalConst(w, expr) ==
    LET r == FoldLeft(LAMBDA q, in : IF q.status = "run" THEN StepPlain(Inst(w), in, q, FALSE) ELSE q,
                      [status |-> "run", vs |-> <<>>, locals |-> <<>>, st |-> w.s.st], expr)
    IN [ok |-> r.status = "run" /\ Len(r.vs) = 1, val |-> Last(r.vs)]

AddTag(w, k) ==
    InstAppend([w EXCEPT !.s.tags = Append(@, [env |-> Env(w), typeidx |-> w.mod.tags[k]])], "tag", Len(w.s.tags) + 1)

AddFunc(w, k) ==
    LET f == w.mod.funcs[k]
    IN InstAppend([w EXCEPT !.s.funcs = Append(@, WasmFunc(w.i, f.typeidx, f.locals, f.code))], "func", Len(w.s.funcs) + 1)

AllocGlobal(w, g, v) ==
    LET new == [mut |-> g.mut, vt |-> g.vt, env |-> Env(w), val |-> v.val]
    IN IF ~v.ok THEN Failed(w, "invalid")
       ELSE InstAppend([w EXCEPT !.s.st.globals = Append(@, new)], "global", Len(w.s.st.globals) + 1)

AddGlobal(w, k) == AllocGlobal(w, w.mod.globals[k], EvalConst(w, w.mod.globals[k].init))

AllocTable(w, t, v) ==
    LET new == [limits |-> t.limits, rt |-> t.rt, env |-> Env(w), elems |-> [j \in 1 .. t.limits.min |-> v.val]]
    IN IF ~v.ok THEN Failed(w, "invalid")
       ELSE InstAppend([w EXCEPT !.s.st.tables = Append(@, new)], "table", Len(w.s.st.tables) + 1)

AddTable(w, k) ==
    LET t == w.mod.tables[k]
    IN AllocTable(w, t, IF t.init = <<>> THEN [ok |-> TRUE, val |-> Null] ELSE EvalConst(w, t.init))

AddMemory(w, k) ==
    LET lim == w.mod.mems[k]
        new == [limits |-> lim, bytes |-> [j \in 1 .. lim.min * PageSize |-> 0]]
    IN InstAppend([w EXCEPT !.s.st.mems = Append(@, new)], "memory", Len(w.s.st.mems) + 1)

AddData(w, k) ==
    [w EXCEPT !.s.st.datas = Append(@, w.mod.datas[k].bytes),
              !.s.insts[w.i].datas = Append(@, Len(w.s.st.datas) + 1)]

\* The items of a segment are evaluated when it is allocated, not when it is used.
AllocElem(w, vs) ==
    IF \E j \in DOMAIN vs : ~vs[j].ok \/ ~IsRef(vs[j].val) THEN Failed(w, "invalid")
    ELSE [w EXCEPT !.s.st.elems = Append(@, [j \in DOMAIN vs |-> vs[j].val]),
                   !.s.insts[w.i].elems = Append(@, Len(w.s.st.elems) + 1)]

AddElem(w, k) ==
    LET items == w.mod.elems[k].items IN AllocElem(w, [j \in DOMAIN items |-> EvalConst(w, items[j])])

AddExport(w, k) ==
    LET x == w.mod.exports[k]
        space == CASE x.kind = "func" -> Inst(w).funcs [] x.kind = "table" -> Inst(w).tables
                   [] x.kind = "memory" -> Inst(w).mems [] x.kind = "global" -> Inst(w).globals
                   [] x.kind = "tag" -> Inst(w).tags
    IN IF x.index \notin DOMAIN space THEN Failed(w, "invalid")
       ELSE [w EXCEPT !.s.insts[w.i].exports = Append(@, [name |-> x.name, kind |-> x.kind, addr |-> space[x.index]])]

---------------------------------------------------------------------------
(* Segments and start *)

\* Mutant: what fits of the segment is copied before the rest is found not to.
PutElemsPartly(w, x, a, off) ==
    LET refs == w.s.st.elems[a]
        t == Inst(w).tables[x]
        v == [w EXCEPT !.s.st.tables[t].elems = Overwrite(@, off.val.val, refs)]
    IN IF off.val.val + Len(refs) > Len(w.s.st.tables[t].elems) THEN Failed(v, "bounds")
       ELSE [v EXCEPT !.s.st.elems[a] = <<>>, !.ran = @ + 1]

\* An active segment is copied whole and dropped, or fails the instantiation.
PutElems(w, x, a, off) ==
    LET refs == w.s.st.elems[a]
        t == Inst(w).tables[x]
    IN IF ~off.ok \/ x \notin DOMAIN Inst(w).tables THEN Failed(w, "invalid")
       ELSE IF off.val.val + Len(refs) > Len(w.s.st.tables[t].elems) THEN Failed(w, "bounds")
       ELSE [w EXCEPT !.s.st.tables[t].elems = Overwrite(@, off.val.val, refs),
                      !.s.st.elems[a] = <<>>, !.ran = @ + 1]

RunElemSegment(w, k) ==
    LET e == w.mod.elems[k]
        a == Inst(w).elems[k]
    IN CASE e.mode = "passive"  -> w
         [] e.mode = "declared" -> [w EXCEPT !.s.st.elems[a] = <<>>]
         [] e.mode = "active"   -> PutElems(w, e.x, a, EvalConst(w, e.offset))

PutData(w, x, a, off) ==
    LET bytes == w.s.st.datas[a]
        m == Inst(w).mems[x]
    IN IF ~off.ok \/ x \notin DOMAIN Inst(w).mems THEN Failed(w, "invalid")
       ELSE IF off.val.val + Len(bytes) > Len(w.s.st.mems[m].bytes) THEN Failed(w, "bounds")
       ELSE [w EXCEPT !.s.st.mems[m].bytes = Overwrite(@, off.val.val, bytes),
                      !.s.st.datas[a] = <<>>, !.ran = @ + 1]

RunDataSegment(w, k) ==
    LET d == w.mod.datas[k]
    IN IF d.mode = "passive" THEN w ELSE PutData(w, d.x, Inst(w).datas[k], EvalConst(w, d.offset))

RECURSIVE RunToEnd(_, _, _)
RunToEnd(p, c, fuel) ==
    IF c.status # "run" \/ fuel = 0 THEN c ELSE RunToEnd(p, IterStep(p, c, FALSE), fuel - 1)

CallFunc(s, f) == RunToEnd(s, IterInit(s, f, <<>>, s.st, 2), StartFuel)

Started(w, c) ==
    LET v == [w EXCEPT !.s.st = c.st] IN IF c.status = "ok" THEN v ELSE Failed(v, "start")

RunStart(w, k) == Started(w, CallFunc(w.s, Inst(w).funcs[w.mod.start]))

---------------------------------------------------------------------------
(* w89_instantiate *)

ItemOf(w, stage, k) ==
    CASE stage = "import" -> Import(w, k)
      [] stage = "tag"    -> AddTag(w, k)
      [] stage = "func"   -> AddFunc(w, k)
      [] stage = "global" -> AddGlobal(w, k)
      [] stage = "table"  -> AddTable(w, k)
      [] stage = "memory" -> AddMemory(w, k)
      [] stage = "data"   -> AddData(w, k)
      [] stage = "elem"   -> AddElem(w, k)
      [] stage = "export" -> AddExport(w, k)
      [] stage = "run elem" -> RunElemSegment(w, k)
      [] stage = "run data" -> RunDataSegment(w, k)
      [] stage = "start"  -> RunStart(w, k)

CountOf(mod, stage) ==
    CASE stage = "import" -> Len(mod.imports)
      [] stage = "tag"    -> Len(mod.tags)
      [] stage = "func"   -> Len(mod.funcs)
      [] stage = "global" -> Len(mod.globals)
      [] stage = "table"  -> Len(mod.tables)
      [] stage = "memory" -> Len(mod.mems)
      [] stage \in {"data", "run data"} -> Len(mod.datas)
      [] stage \in {"elem", "run elem"} -> Len(mod.elems)
      [] stage = "export" -> Len(mod.exports)
      [] stage = "start"  -> IF mod.start = 0 THEN 0 ELSE 1

\* Mutant: the elements are put into the tables before the memories exist.
StagesEarly == <<"import", "tag", "func", "global", "table", "elem", "run elem", "memory", "data", "export", "run data", "start">>

\* Everything is allocated before the first segment shows a function to others.
Stages == <<"import", "tag", "func", "global", "table", "memory", "data", "elem", "export", "run elem", "run data", "start">>

Returned(w) == IF w.status = "run" THEN [w EXCEPT !.status = "ok", !.s.insts[w.i].returned = TRUE] ELSE w

\* The instance keeps the context m its module was validated in.
InstantiateModule(s, reg, mod, m, fail) ==
    LET inst == [m |-> m, funcs |-> <<>>, tables |-> <<>>, mems |-> <<>>, globals |-> <<>>, tags |-> <<>>,
                 elems |-> <<>>, datas |-> <<>>, exports |-> <<>>, returned |-> FALSE]
        w0 == [s |-> [s EXCEPT !.insts = Append(@, inst)], i |-> Len(s.insts) + 1, mod |-> mod, reg |-> reg,
               status |-> "run", fail |-> fail, ran |-> 0]
        items == FlattenSeq([j \in DOMAIN Stages |-> [k \in 1 .. CountOf(mod, Stages[j]) |-> <<Stages[j], k>>]])
    IN Returned(FoldLeft(LAMBDA v, it : IF v.status # "run" THEN v
                                        ELSE IF it = fail THEN Failed(v, "nomem")
                                        ELSE ItemOf(v, it[1], it[2]), w0, items))

---------------------------------------------------------------------------
(* The client *)

EmptyStore ==
    [insts |-> <<>>, funcs |-> <<>>, tags |-> <<>>,
     st |-> [globals |-> <<>>, tables |-> <<>>, mems |-> <<>>, elems |-> <<>>, datas |-> <<>>, exns |-> <<>>]]

Init ==
    /\ store = EmptyStore
    /\ registry = [n \in Names |-> 0]
    /\ calls = 0
    /\ last = [status |-> "none"]

Instantiate(mod) ==
    /\ Len(store.insts) < MaxInsts
    /\ \E m \in {ContextOf(mod)}, fail \in Failures :
          /\ CheckIn(m, mod)
          /\ \E w \in {InstantiateModule(store, registry, mod, m, fail)} :
             /\ store' = w.s
             /\ last' = [status |-> w.status, mod |-> mod, before |-> store.st, ran |-> w.ran]
    /\ UNCHANGED <<registry, calls>>

Register(name, i) ==
    /\ store.insts[i].returned /\ registry[name] # i
    /\ registry' = [registry EXCEPT ![name] = i]
    /\ last' = [status |-> "none"]
    /\ UNCHANGED <<store, calls>>

Call(i, x) ==
    /\ calls < MaxCalls
    /\ store.insts[i].returned /\ x.kind = "func" /\ ParamsN(store, x.addr) = 0
    /\ store' = [store EXCEPT !.st = CallFunc(store, x.addr).st]
    /\ calls' = calls + 1
    /\ last' = [status |-> "none"]
    /\ UNCHANGED registry

Next ==
    \/ \E mod \in Modules : Instantiate(mod)
    \/ \E name \in Names, i \in DOMAIN store.insts : Register(name, i)
    \/ \E i \in DOMAIN store.insts : \E x \in Range(store.insts[i].exports) : Call(i, x)

---------------------------------------------------------------------------
(* Properties *)

FitsType(v, t, env) ==
    \/ v.kind = "num" /\ t.num # "ref"
    \/ v.kind = "null" /\ t.num = "ref" /\ t.nullable
    \/ /\ v.kind = "func" /\ t.num = "ref"
       /\ \/ t.abs = "func"
          \/ t.idx # 0 /\ MatchDeftypeX(EnvOf(store, store.funcs[v.val].inst), store.funcs[v.val].typeidx, env, t.idx)

\* Whatever modules were linked and called, every global and every element of a
\* table holds a value of its declared type, and the sizes in the types that
\* later imports are compared with are the actual ones.
StoreTyped ==
    /\ \A g \in Range(store.st.globals) : FitsType(g.val, g.vt, g.env)
    /\ \A t \in Range(store.st.tables) :
          /\ \A j \in DOMAIN t.elems : FitsType(t.elems[j], t.rt, t.env)
          /\ t.limits.min = Len(t.elems)
    /\ \A m \in Range(store.st.mems) : m.limits.min * PageSize = Len(m.bytes)

\* The instances a client can run code of: the ones it was given, and the ones
\* whose functions they reach through their index spaces.
FuncsOf(i) ==
    LET inst == store.insts[i]
        vals == {store.st.globals[g].val : g \in Range(inst.globals)}
                  \cup UNION {Range(store.st.tables[t].elems) : t \in Range(inst.tables)}
                  \cup UNION {Range(store.st.elems[e]) : e \in Range(inst.elems)}
    IN Range(inst.funcs) \cup {v.val : v \in {u \in vals : u.kind = "func"}}

RECURSIVE Reach(_)
Reach(S) ==
    LET more == S \cup UNION {{store.funcs[f].inst : f \in FuncsOf(i)} : i \in S}
    IN IF more = S THEN S ELSE Reach(more)

Whole(i) ==
    LET inst == store.insts[i]
        m == inst.m
        Is(kind, addr, ext) == Imports(store, m.env, [kind |-> kind, addr |-> addr], ext)
    IN /\ Len(inst.funcs) = Len(m.funcs) /\ Len(inst.tables) = Len(m.tables) /\ Len(inst.mems) = Len(m.mems)
       /\ Len(inst.globals) = Len(m.globals) /\ Len(inst.tags) = Len(m.tags)
       /\ Len(inst.elems) = Len(m.elems) /\ Len(inst.datas) = m.ndatas
       /\ \A x \in DOMAIN m.funcs : Is("func", inst.funcs[x], ExternType("func", m.funcs[x], I32, FALSE, 0))
       /\ \A x \in DOMAIN m.tables : Is("table", inst.tables[x], ExternType("table", 0, m.tables[x].rt, FALSE, m.tables[x].limits))
       /\ \A x \in DOMAIN m.mems : Is("memory", inst.mems[x], ExternType("memory", 0, I32, FALSE, m.mems[x]))
       /\ \A x \in DOMAIN m.globals : Is("global", inst.globals[x], ExternType("global", 0, m.globals[x].vt, m.globals[x].mut, 0))

\* A function the client can reach belongs to an instance that has all its index
\* spaces, each entry of the type its module was validated with, even if the
\* instantiation that put the function into a shared table failed afterwards.
ReachableWhole ==
    \A i \in Reach({j \in DOMAIN store.insts : store.insts[j].returned}) : Whole(i)

\* The active segments in the order they run, each with its target and contents.
Active(ss, kind) == SelectSeq([k \in DOMAIN ss |-> [seg |-> ss[k], kind |-> kind]], LAMBDA a : a.seg.mode = "active")

\* A failed instantiation leaves in the memories and tables that were there
\* exactly the active segments before the one that failed, each of them whole;
\* one that fails before its segments leaves them as they were.
FailureContained ==
    last.status \in {"ok", "unknown", "incompatible", "nomem", "bounds", "invalid"} /\ last.mod.start = 0 =>
        LET inst == Last(store.insts)
            ran == SubSeq(Active(last.mod.elems, "elem") \o Active(last.mod.datas, "data"), 1, last.ran)
            At(a) == a.seg.offset[1].n
            Covers(a, kind, addr, j) ==
                /\ a.kind = kind
                /\ addr = (IF kind = "elem" THEN inst.tables ELSE inst.mems)[a.seg.x]
                /\ j - At(a) \in 1 .. Len(IF kind = "elem" THEN a.seg.items ELSE a.seg.bytes)
            Writers(kind, addr, j) == {k \in DOMAIN ran : Covers(ran[k], kind, addr, j)}
            LastOf(S) == CHOOSE k \in S : \A l \in S : k >= l
        IN /\ last.status \in {"ok", "unknown", "incompatible", "nomem", "bounds"}
           /\ last.status \in {"unknown", "incompatible", "nomem"} => last.ran = 0
           /\ \A a \in DOMAIN last.before.mems : \A j \in DOMAIN last.before.mems[a].bytes :
                 LET ks == Writers("data", a, j) k == LastOf(ks)
                 IN store.st.mems[a].bytes[j] =
                       IF ks = {} THEN last.before.mems[a].bytes[j] ELSE ran[k].seg.bytes[j - At(ran[k])]
           /\ \A a \in DOMAIN last.before.tables : \A j \in DOMAIN last.before.tables[a].elems :
                 LET ks == Writers("elem", a, j) k == LastOf(ks)
                 IN store.st.tables[a].elems[j] =
                       IF ks = {} THEN last.before.tables[a].elems[j]
                       ELSE FuncRef(inst.funcs[ran[k].seg.items[j - At(ran[k])][1].x])
           /\ \A a \in DOMAIN last.before.globals : store.st.globals[a] = last.before.globals[a]
============================================================================
