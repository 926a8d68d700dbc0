--------------------------- MODULE Wasm89Validate --------------------------
(***************************************************************************)
(* The validation of a function body (src/wasm89/src/validate.c): an       *)
(* abstract operand stack of value types, polymorphic after a branch, is   *)
(* carried through the flat code the decoder delivers.                     *)
(*                                                                         *)
(* An instruction is a record with its name op and its immediates: x and y *)
(* are indices (from 1; labels from 0), ts a block type, and so on.  A     *)
(* module m is a record of its index spaces, a context c the state of the  *)
(* traversal.  Machine integers are scaled down: a byte has one bit, so    *)
(* i32 has 4 bits, i64 has 8, and a 32-bit memory has at most 16 bytes.    *)
(***************************************************************************)
EXTENDS Wasm89Types

I32 == NumType("i32")
I64 == NumType("i64")
V128 == NumType("v128")
Space32 == 16 \* the number of addresses of a memory without 64-bit addresses

Least(a, b) == IF a < b THEN a ELSE b

---------------------------------------------------------------------------
(* Index spaces *)

FuncTypeOk(m, t) == t \in DOMAIN m.env.types /\ SubOf(m.env, t).comp.kind = "func"
Params(m, t) == SubOf(m.env, t).comp.params
Results(m, t) == SubOf(m.env, t).comp.results
FuncOk(m, x) == x \in DOMAIN m.funcs /\ FuncTypeOk(m, m.funcs[x])
TagOk(m, x) == x \in DOMAIN m.tags /\ FuncTypeOk(m, m.tags[x])
LabelOk(c, l) == l < Len(c.labels)
LabelAt(c, l) == c.labels[l + 1]
TypeKnown(m, t) == t.num = "ref" /\ t.idx # 0 => t.idx \in DOMAIN m.env.types
AddrNum(lim) == IF lim.addr64 THEN I64 ELSE I32

---------------------------------------------------------------------------
(* The operand stack *)

Height(c) == Len(c.stk) - c.sbase
Peek(c, i) == IF i >= Height(c) THEN Bot ELSE c.stk[Len(c.stk) - i]
PeekRefOk(c, i) == Peek(c, i).num = "ref" \/ Peek(c, i) = Bot
PeekRef(c, i) == IF Peek(c, i).num = "ref" THEN Peek(c, i) ELSE BotRef

\* The type of an instruction; ell marks one after which nothing is reached.
Invalid == [ok |-> FALSE, ell |-> FALSE, ins |-> <<>>, outs |-> <<>>]
It(ins, outs) == [ok |-> TRUE, ell |-> FALSE, ins |-> ins, outs |-> outs]
ItEnds(ins) == [ok |-> TRUE, ell |-> TRUE, ins |-> ins, outs |-> <<>>]
When(cond, it) == IF cond THEN it ELSE Invalid

PopInputs(m, c, it) ==
    LET n == Least(Len(it.ins), Height(c))
        gap == IF c.ell THEN Len(it.ins) - n ELSE 0
        top == Len(c.stk) - n
    IN [c EXCEPT !.ok = /\ gap + n = Len(it.ins)
                        /\ \A j \in 1 .. n : MatchValtype(m.env, c.stk[top + j], it.ins[gap + j]),
                 !.stk = SubSeq(c.stk, 1, IF it.ell THEN c.sbase ELSE top)]

PushOuts(c, it) == [c EXCEPT !.ell = @ \/ it.ell, !.stk = @ \o it.outs]

ApplyIt(m, c, it) ==
    IF ~it.ok THEN [c EXCEPT !.ok = FALSE]
    ELSE LET d == PopInputs(m, c, it) IN IF d.ok THEN PushOuts(d, it) ELSE d

---------------------------------------------------------------------------
(* The types of the instructions without a body *)

ParametricType(m, c, in) ==
    CASE in.op = "unreachable" -> ItEnds(<<>>)
      [] in.op = "nop"    -> It(<<>>, <<>>)
      [] in.op = "drop"   -> It(<<Peek(c, 0)>>, <<>>)
      [] in.op = "select" -> LET t == Peek(c, 1) IN When(t.num # "ref", It(<<t, t, I32>>, <<t>>))
      [] in.op = "select_t" -> When(TypeKnown(m, in.vt), It(<<in.vt, in.vt, I32>>, <<in.vt>>))

BrTableType(m, c, in) ==
    LET n == Len(LabelAt(c, in.x))
        sc == [j \in 1 .. n |-> Peek(c, n - j + 1)]
    IN When(\A l \in Range(in.labels) \cup {in.x} :
                LabelOk(c, l) /\ MatchResulttype(m.env, sc, LabelAt(c, l)),
            ItEnds(Append(sc, I32)))

BranchType(m, c, in) ==
    CASE in.op = "br"       -> When(LabelOk(c, in.x), ItEnds(LabelAt(c, in.x)))
      [] in.op = "br_if"    -> When(LabelOk(c, in.x), It(Append(LabelAt(c, in.x), I32), LabelAt(c, in.x)))
      [] in.op = "br_table" -> IF LabelOk(c, in.x) THEN BrTableType(m, c, in) ELSE Invalid
      [] in.op = "return"   -> ItEnds(c.results)
      [] in.op = "throw"    -> IF TagOk(m, in.x) THEN ItEnds(Params(m, m.tags[in.x])) ELSE Invalid
      [] in.op = "throw_ref" -> ItEnds(<<AbsType(TRUE, "exn")>>)

\* A call of type t with one more operand (an address or a reference), or none.
CallIt(m, t, more) == It(Params(m, t) \o more, Results(m, t))

\* Mutant: the callee of a tail call may return anything.
TailItAny(m, c, t, more) == ItEnds(Params(m, t) \o more)

TailIt(m, c, t, more) ==
    When(MatchResulttype(m.env, Results(m, t), c.results), ItEnds(Params(m, t) \o more))

FuncTable(m, x) == x \in DOMAIN m.tables /\ MatchReftype(m.env, m.tables[x].rt, AbsType(TRUE, "func"))

CallType(m, c, in) ==
    CASE in.op = "call" -> IF FuncOk(m, in.x) THEN CallIt(m, m.funcs[in.x], <<>>) ELSE Invalid
      [] in.op = "call_indirect" ->
            IF FuncTypeOk(m, in.y) /\ FuncTable(m, in.x)
            THEN CallIt(m, in.y, <<AddrNum(m.tables[in.x].limits)>>) ELSE Invalid
      [] in.op = "call_ref" -> IF FuncTypeOk(m, in.x) THEN CallIt(m, in.x, <<RefType(TRUE, in.x)>>) ELSE Invalid

TailType(m, c, in) ==
    CASE in.op = "return_call" -> IF FuncOk(m, in.x) THEN TailIt(m, c, m.funcs[in.x], <<>>) ELSE Invalid
      [] in.op = "return_call_indirect" ->
            IF FuncTypeOk(m, in.y) /\ FuncTable(m, in.x)
            THEN TailIt(m, c, in.y, <<AddrNum(m.tables[in.x].limits)>>) ELSE Invalid
      [] in.op = "return_call_ref" ->
            IF FuncTypeOk(m, in.x) THEN TailIt(m, c, in.x, <<RefType(TRUE, in.x)>>) ELSE Invalid

VariableType(m, c, in) ==
    CASE in.op = "local.get"  -> IF in.x \in DOMAIN c.locals /\ c.init[in.x]
                                 THEN It(<<>>, <<c.locals[in.x]>>) ELSE Invalid
      [] in.op = "local.set"  -> IF in.x \in DOMAIN c.locals THEN It(<<c.locals[in.x]>>, <<>>) ELSE Invalid
      [] in.op = "local.tee"  -> IF in.x \in DOMAIN c.locals
                                 THEN It(<<c.locals[in.x]>>, <<c.locals[in.x]>>) ELSE Invalid
      [] in.op = "global.get" -> IF in.x \in DOMAIN m.globals THEN It(<<>>, <<m.globals[in.x].vt>>) ELSE Invalid
      [] in.op = "global.set" -> IF in.x \in DOMAIN m.globals /\ m.globals[in.x].mut
                                 THEN It(<<m.globals[in.x].vt>>, <<>>) ELSE Invalid

\* A local that was assigned may be read, in the code that follows.
MarkInit(c, in) ==
    IF in.op \in {"local.set", "local.tee"} /\ in.x \in DOMAIN c.locals
    THEN [c EXCEPT !.init[in.x] = TRUE] ELSE c

CheckMemop(m, in) ==
    /\ 2 ^ in.align <= in.size
    /\ in.x \in DOMAIN m.mems
    /\ ~m.mems[in.x].addr64 => in.offset < Space32

MemoryType(m, in) ==
    IF ~(IF in.op \in {"load", "store"} THEN CheckMemop(m, in) ELSE in.x \in DOMAIN m.mems) THEN Invalid
    ELSE LET addr == AddrNum(m.mems[in.x])
         IN CASE in.op = "load"  -> It(<<addr>>, <<in.vt>>)
              [] in.op = "store" -> It(<<addr, in.vt>>, <<>>)
              [] in.op = "memory.size" -> It(<<>>, <<addr>>)
              [] in.op = "memory.grow" -> It(<<addr>>, <<addr>>)

\* The length of a copy is as wide as the narrower of its two addresses.
CopyLen(a, b) == IF a.addr64 /\ b.addr64 THEN I64 ELSE I32

BulkMemoryType(m, in) ==
    CASE in.op = "data.drop"   -> When(in.x \in 1 .. m.ndatas, It(<<>>, <<>>))
      [] in.op = "memory.init" -> IF in.x \in DOMAIN m.mems /\ in.y \in 1 .. m.ndatas
                                  THEN It(<<AddrNum(m.mems[in.x]), I32, I32>>, <<>>) ELSE Invalid
      [] in.op = "memory.fill" -> IF in.x \in DOMAIN m.mems
                                  THEN It(<<AddrNum(m.mems[in.x]), I32, AddrNum(m.mems[in.x])>>, <<>>) ELSE Invalid
      [] in.op = "memory.copy" -> IF in.x \in DOMAIN m.mems /\ in.y \in DOMAIN m.mems
                                  THEN It(<<AddrNum(m.mems[in.y]), AddrNum(m.mems[in.x]),
                                            CopyLen(m.mems[in.y], m.mems[in.x])>>, <<>>) ELSE Invalid

TableType(m, in) ==
    IF in.x \notin DOMAIN m.tables THEN Invalid
    ELSE LET addr == AddrNum(m.tables[in.x].limits) rt == m.tables[in.x].rt
         IN CASE in.op = "table.get"  -> It(<<addr>>, <<rt>>)
              [] in.op = "table.set"  -> It(<<addr, rt>>, <<>>)
              [] in.op = "table.grow" -> It(<<rt, addr>>, <<addr>>)
              [] in.op = "table.size" -> It(<<>>, <<addr>>)
              [] in.op = "table.fill" -> It(<<addr, rt, addr>>, <<>>)

BulkTableType(m, in) ==
    CASE in.op = "elem.drop"  -> When(in.x \in DOMAIN m.elems, It(<<>>, <<>>))
      [] in.op = "table.init" -> IF /\ in.x \in DOMAIN m.tables /\ in.y \in DOMAIN m.elems
                                    /\ MatchReftype(m.env, m.elems[in.y], m.tables[in.x].rt)
                                 THEN It(<<AddrNum(m.tables[in.x].limits), I32, I32>>, <<>>) ELSE Invalid
      [] in.op = "table.copy" -> IF /\ in.x \in DOMAIN m.tables /\ in.y \in DOMAIN m.tables
                                    /\ MatchReftype(m.env, m.tables[in.x].rt, m.tables[in.y].rt)
                                 THEN It(<<AddrNum(m.tables[in.y].limits), AddrNum(m.tables[in.x].limits),
                                           CopyLen(m.tables[in.y].limits, m.tables[in.x].limits)>>, <<>>)
                                 ELSE Invalid

RefInstrType(m, c, in) ==
    LET rt == PeekRef(c, 0)
        Null(t) == [t EXCEPT !.nullable = TRUE]
        NonNull(t) == [t EXCEPT !.nullable = FALSE]
    IN CASE in.op = "ref.null"    -> When(TypeKnown(m, in.vt), It(<<>>, <<Null(in.vt)>>))
         [] in.op = "ref.is_null" -> When(PeekRefOk(c, 0), It(<<Null(rt)>>, <<I32>>))
         [] in.op = "ref.func"    -> IF FuncOk(m, in.x) /\ in.x \in m.declared
                                     THEN It(<<>>, <<RefType(FALSE, m.funcs[in.x])>>) ELSE Invalid
         [] in.op = "ref.eq"      -> It(<<AbsType(TRUE, "eq"), AbsType(TRUE, "eq")>>, <<I32>>)
         [] in.op = "ref.as_non_null" -> When(PeekRefOk(c, 0), It(<<Null(rt)>>, <<NonNull(rt)>>))
         [] in.op = "br_on_null"  -> IF LabelOk(c, in.x) /\ PeekRefOk(c, 0)
                                     THEN It(Append(LabelAt(c, in.x), Null(rt)), Append(LabelAt(c, in.x), NonNull(rt)))
                                     ELSE Invalid
         [] in.op = "br_on_non_null" ->
               IF LabelOk(c, in.x) /\ LabelAt(c, in.x) # <<>> /\ Last(LabelAt(c, in.x)).num = "ref"
               THEN It(Append(Front(LabelAt(c, in.x)), Null(Last(LabelAt(c, in.x)))), Front(LabelAt(c, in.x)))
               ELSE Invalid

\* Constants and the numeric instructions, by the kind the opcode tables give.
NumericType(in) ==
    CASE in.op = "const" -> It(<<>>, <<in.vt>>)
      [] in.op = "test"  -> It(<<in.vt>>, <<I32>>)
      [] in.op = "rel"   -> It(<<in.vt, in.vt>>, <<I32>>)
      [] in.op = "un"    -> It(<<in.vt>>, <<in.vt>>)
      [] in.op = "bin"   -> It(<<in.vt, in.vt>>, <<in.vt>>)
      [] in.op = "cvt"   -> It(<<in.vt>>, <<in.to>>)

Parametric == {"unreachable", "nop", "drop", "select", "select_t"}
Branches == {"br", "br_if", "br_table", "return", "throw", "throw_ref"}
Calls == {"call", "call_indirect", "call_ref"}
TailCalls == {"return_call", "return_call_indirect", "return_call_ref"}
Variables == {"local.get", "local.set", "local.tee", "global.get", "global.set"}
Memories == {"load", "store", "memory.size", "memory.grow"}
BulkMemories == {"data.drop", "memory.init", "memory.fill", "memory.copy"}
Tables == {"table.get", "table.set", "table.grow", "table.size", "table.fill"}
BulkTables == {"elem.drop", "table.init", "table.copy"}
RefInstrs == {"ref.null", "ref.is_null", "ref.func", "ref.eq", "ref.as_non_null", "br_on_null", "br_on_non_null"}
Numerics == {"const", "test", "rel", "un", "bin", "cvt"}

InstrType(m, c, in) ==
    CASE in.op \in Parametric   -> ParametricType(m, c, in)
      [] in.op \in Branches     -> BranchType(m, c, in)
      [] in.op \in Calls        -> CallType(m, c, in)
      [] in.op \in TailCalls    -> TailType(m, c, in)
      [] in.op \in Variables    -> VariableType(m, c, in)
      [] in.op \in Memories     -> MemoryType(m, in)
      [] in.op \in BulkMemories -> BulkMemoryType(m, in)
      [] in.op \in Tables       -> TableType(m, in)
      [] in.op \in BulkTables   -> BulkTableType(m, in)
      [] in.op \in RefInstrs    -> RefInstrType(m, c, in)
      [] in.op \in Numerics     -> NumericType(in)

---------------------------------------------------------------------------
(* Blocks *)

Openers == {"block", "loop", "if", "try_table"}
Closers == {"else", "end"}

\* A block type is a type index, or no or one result.
CheckBlocktype(m, bt) ==
    IF bt.x # 0 THEN FuncTypeOk(m, bt.x) ELSE \A j \in DOMAIN bt.ts : TypeKnown(m, bt.ts[j])
Ts1(m, bt) == IF bt.x # 0 THEN Params(m, bt.x) ELSE <<>>
Ts2(m, bt) == IF bt.x # 0 THEN Results(m, bt.x) ELSE bt.ts

\* What a catch clause hands to its label.  The labels are the surrounding ones.
CatchBody(m, cc) ==
    (IF cc.kind \in {"catch", "catch_ref"} THEN Params(m, m.tags[cc.tag]) ELSE <<>>)
    \o (IF cc.kind \in {"catch_ref", "catch_all_ref"} THEN <<AbsType(FALSE, "exn")>> ELSE <<>>)

CheckCatch(m, c, cc) ==
    /\ LabelOk(c, cc.label)
    /\ cc.kind \in {"catch", "catch_ref"} => TagOk(m, cc.tag)
    /\ MatchResulttype(m.env, CatchBody(m, cc), LabelAt(c, cc.label))

\* What lies above base at the end of a body must be the results, all of them
\* unless the end is not reached, and nothing else in either case.
CheckBlockResult(m, c, base, ts2) ==
    LET rel == Len(c.stk) - base
    IN /\ rel <= Len(ts2)
       /\ ~c.ell => rel = Len(ts2)
       /\ \A j \in 1 .. rel : MatchValtype(m.env, c.stk[base + j], ts2[Len(ts2) - rel + j])

RECURSIVE CheckInstrs(_, _, _, _)

\* How a body ends whose instructions have led to r.
BodyEnd(m, code, base, ts2, r) ==
    [ok |-> r.c.ok /\ CheckBlockResult(m, r.c, base, ts2),
     term |-> r.at,
     isElse |-> r.at <= Len(code) /\ code[r.at].op = "else"]

\* The body from position start up to its else or end; the context of the
\* surrounding code is the same before and after.
CheckBlockBody(m, code, c, start, ts1, ts2, loop) ==
    LET base == Len(c.stk)
        inner == [c EXCEPT !.stk = @ \o ts1, !.ell = FALSE, !.sbase = base,
                           !.labels = <<IF loop THEN ts1 ELSE ts2>> \o @]
    IN BodyEnd(m, code, base, ts2, CheckInstrs(m, code, inner, start))

OneBody(body) == [ok |-> body.ok /\ ~body.isElse, term |-> body.term]

\* An if without else is checked as if it had an empty one.
CheckElse(m, code, c, i, ts1, ts2, arm) ==
    IF ~arm.ok THEN [ok |-> FALSE, term |-> i]
    ELSE IF arm.isElse THEN OneBody(CheckBlockBody(m, code, c, arm.term + 1, ts1, ts2, FALSE))
    ELSE [ok |-> CheckBlockBody(m, code, c, arm.term, ts1, ts2, FALSE).ok, term |-> arm.term]

CheckArms(m, code, c, i, ts1, ts2) ==
    LET body == CheckBlockBody(m, code, c, i + 1, ts1, ts2, code[i].op = "loop")
    IN IF code[i].op = "if" THEN CheckElse(m, code, c, i, ts1, ts2, body) ELSE OneBody(body)

\* Behind a block whose arms are r.
AfterBlock(m, c, i, in, r) ==
    LET ok == /\ CheckBlocktype(m, in.bt)
              /\ in.op = "try_table" => \A j \in DOMAIN in.catches : CheckCatch(m, c, in.catches[j])
              /\ r.ok
        ins == Ts1(m, in.bt) \o (IF in.op = "if" THEN <<I32>> ELSE <<>>)
    IN IF ~ok THEN [at |-> i, c |-> [c EXCEPT !.ok = FALSE]]
       ELSE [at |-> r.term + 1, c |-> ApplyIt(m, c, It(ins, Ts2(m, in.bt)))]

CheckBlock(m, code, c, i) ==
    AfterBlock(m, c, i, code[i], CheckArms(m, code, c, i, Ts1(m, code[i].bt), Ts2(m, code[i].bt)))

CheckInstr(m, code, c, i) ==
    IF code[i].op \in Openers THEN CheckBlock(m, code, c, i)
    ELSE [at |-> i + 1, c |-> MarkInit(ApplyIt(m, c, InstrType(m, c, code[i])), code[i])]

CheckRest(m, code, r) == IF r.c.ok THEN CheckInstrs(m, code, r.c, r.at) ELSE r

CheckInstrs(m, code, c, i) ==
    IF i > Len(code) \/ code[i].op \in Closers THEN [at |-> i, c |-> c]
    ELSE CheckRest(m, code, CheckInstr(m, code, c, i))

\* Parameters are initialised, and so are the locals that have a default.
Defaultable(t) == t.num = "ref" => t.nullable

CheckFuncBody(m, f, t) ==
    /\ FuncTypeOk(m, t)
    /\ \A j \in DOMAIN f.locals : TypeKnown(m, f.locals[j])
    /\ LET locals == Params(m, t) \o f.locals
           c == [ok |-> TRUE, stk |-> <<>>, sbase |-> 0, ell |-> FALSE, labels |-> <<>>,
                 locals |-> locals, results |-> Results(m, t),
                 init |-> [j \in DOMAIN locals |-> j <= Len(Params(m, t)) \/ Defaultable(locals[j])]]
       IN CheckBlockBody(m, f.code, c, 1, <<>>, Results(m, t), FALSE).ok
============================================================================
