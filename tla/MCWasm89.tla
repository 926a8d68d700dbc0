----------------------------- MODULE MCWasm89 ------------------------------
(***************************************************************************)
(* The modules and stores the wasm89 evaluator is checked in.              *)
(***************************************************************************)
EXTENDS Wasm89Iter

Instr(op) ==
    [op |-> op, x |-> 0, y |-> 0, vt |-> I32, to |-> I32, labels |-> <<>>, catches |-> <<>>,
     bt |-> [x |-> 0, ts |-> <<>>], align |-> 0, size |-> 1, offset |-> 0, sext |-> FALSE, f |-> "none", n |-> 0]
At(op, x) == [Instr(op) EXCEPT !.x = x]
At2(op, x, y) == [Instr(op) EXCEPT !.x = x, !.y = y]
Const(n) == [Instr("const") EXCEPT !.n = n]
Const64(n) == [Instr("const") EXCEPT !.n = n, !.vt = I64]
Bin(f) == [Instr("bin") EXCEPT !.f = f]
Block(op, x, ts) == [Instr(op) EXCEPT !.bt = [x |-> x, ts |-> ts]]
Try(x, ts, cs) == [Block("try_table", x, ts) EXCEPT !.catches = cs]
Catch(kind, tag, label) == [kind |-> kind, tag |-> tag, label |-> label]
Load(t, size, sext, off) == [Instr("load") EXCEPT !.vt = t, !.size = size, !.sext = sext, !.offset = off, !.x = 1]
Store(t, size, off) == [Instr("store") EXCEPT !.vt = t, !.size = size, !.offset = off, !.x = 1]
NullOf(t) == [Instr("ref.null") EXCEPT !.vt = t]
Basic == {Instr(op) : op \in {"else", "end", "unreachable"}}

ExnT == AbsType(TRUE, "exn")
FuncT == AbsType(TRUE, "func")

\* Types: 1 [] -> [], 2 [i32] -> [i32], 3 [] -> [i32], 4 [i32 i32] -> [i32], 5 [i32] -> [], 6 [] -> [exnref]
Type(ps, rs) == <<Subtype(TRUE, <<>>, FuncType(ps, rs))>>
TypeSection == <<Type(<<>>, <<>>), Type(<<I32>>, <<I32>>), Type(<<>>, <<I32>>),
                 Type(<<I32, I32>>, <<I32>>), Type(<<I32>>, <<>>), Type(<<>>, <<ExnT>>)>>
Env == TypeenvBuild(TypeSection)

Lim(a64, mn, mx) == Limits(a64, mn, mx)

\* The first module: function 1 is the one that is written, of type t.
Module1(t, a64) ==
    [env |-> Env, funcs |-> <<t, 2, 2, 2, 1, 2, 3, 1>>,
     tables |-> <<[rt |-> FuncT, limits |-> Lim(a64, 2, 3)], [rt |-> RefType(TRUE, 2), limits |-> Lim(FALSE, 1, NoMax)]>>,
     mems |-> <<Lim(a64, 1, 2)>>,
     globals |-> <<[vt |-> I32, mut |-> TRUE], [vt |-> FuncT, mut |-> FALSE]>>,
     tags |-> <<5, 1>>, elems |-> <<RefType(FALSE, 2)>>, ndatas |-> 1, declared |-> {1, 2, 6}]

Module2 ==
    [env |-> Env, funcs |-> <<2>>, tables |-> <<>>, mems |-> <<>>, globals |-> <<[vt |-> I32, mut |-> TRUE]>>,
     tags |-> <<5>>, elems |-> <<>>, ndatas |-> 0, declared |-> {}]

Insts(t, a64) ==
    <<[m |-> Module1(t, a64), funcs |-> [j \in 1 .. 8 |-> j], tables |-> <<1, 2>>, mems |-> <<1>>, globals |-> <<1, 2>>,
       tags |-> <<1, 2>>, elems |-> <<1>>, datas |-> <<1>>],
      [m |-> Module2, funcs |-> <<6>>, tables |-> <<>>, mems |-> <<>>, globals |-> <<3>>, tags |-> <<1>>,
       elems |-> <<>>, datas |-> <<>>]>>

\* 2 is the identity, 3 throws its argument, 4 and 5 are the host's, 6 belongs to
\* the second instance, 7 calls function 1 above an operand, 8 does nothing.
Library(t, locals, args) ==
    <<WasmFunc(1, t, locals, <<>>),
      WasmFunc(1, 2, <<>>, <<At("local.get", 1)>>),
      WasmFunc(1, 2, <<I32, I32>>, <<At("local.get", 1), At("throw", 1)>>),
      HostFunc(FuncType(<<I32>>, <<I32>>), FALSE, <<Number(9)>>),
      HostFunc(FuncType(<<>>, <<>>), TRUE, <<>>),
      WasmFunc(2, 2, <<>>, <<At("local.get", 1), At("global.get", 1), Bin("add")>>),
      WasmFunc(1, 3, <<>>, <<Const(7)>> \o args \o <<At("call", 1)>> \o
                           (CASE Results(Module1(t, FALSE), t) = <<I32>> -> <<Bin("sub")>>
                              [] Results(Module1(t, FALSE), t) = <<ExnT>> -> <<Instr("drop")>>
                              [] OTHER -> <<>>)),
      WasmFunc(1, 1, <<>>, <<>>)>>

Store0(a64) ==
    [globals |-> <<[mut |-> TRUE, val |-> Number(1)], [mut |-> FALSE, val |-> Null], [mut |-> TRUE, val |-> Number(5)]>>,
     tables |-> <<[limits |-> Lim(a64, 2, 3), elems |-> <<FuncRef(2), Null>>],
                  [limits |-> Lim(FALSE, 1, NoMax), elems |-> <<FuncRef(2)>>]>>,
     mems |-> <<[limits |-> Lim(a64, 1, 2), bytes |-> <<1, 0, 1, 1>>]>>,
     elems |-> <<<<FuncRef(2), FuncRef(6)>>>>, datas |-> <<<<1, 1>>>>, exns |-> <<>>]

Theme(t, a64, locals, max, pieces) ==
    LET nparams == Len(Params(Module1(t, a64), t))
    IN [insts |-> Insts(t, a64), funcs |-> Library(t, locals, [j \in 1 .. nparams |-> Const(2)]),
        st |-> Store0(a64), basic |-> Basic, max |-> max, pieces |-> pieces, nomem |-> {FALSE},
        entries |-> {[fun |-> 1, args |-> [j \in 1 .. nparams |-> Number(2)]], [fun |-> 7, args |-> <<>>]}]

One(op, x) == <<At(op, x)>>
E == <<Instr("end")>>

Control ==
    << <<Const(1)>>, <<Const(0)>>, <<Instr("drop")>>, E, <<Instr("else")>>, <<Instr("return")>>,
       <<Block("block", 0, <<>>)>>, <<Block("block", 0, <<I32>>)>>, <<Block("block", 2, <<>>)>>,
       <<Block("loop", 2, <<>>)>>, <<Block("if", 0, <<>>)>>, <<Block("if", 2, <<>>)>>,
       One("br", 0), One("br", 1), One("br_if", 0), One("br_if", 1),
       <<[At("br_table", 1) EXCEPT !.labels = <<0>>]>>, <<Instr("unreachable")>> >>

CallPieces ==
    << <<Const(1)>>, <<Instr("drop")>>, E, <<Block("block", 0, <<I32>>)>>,
       One("call", 1), One("call", 2), One("call", 4), One("call", 5), One("call", 6),
       One("return_call", 1), One("return_call", 2), One("return_call", 4), One("return_call", 6), One("return_call", 8),
       <<At2("call_indirect", 1, 2)>>, <<At2("return_call_indirect", 1, 2)>>,
       <<At("ref.func", 2), At("call_ref", 2)>>, <<At("ref.func", 2), At("return_call_ref", 2)>>,
       <<At("local.get", 1)>>, <<Instr("return")>> >>

DeepCallPieces ==
    << <<Const(1)>>, <<Instr("drop")>>, E, <<Block("block", 0, <<I32>>)>>, <<At("local.get", 1)>>,
       One("call", 1), One("call", 2), One("return_call", 1), One("return_call", 4), One("return_call", 6),
       <<At2("return_call_indirect", 1, 2)>> >>

ExnPieces ==
    << <<Const(1)>>, E, One("throw", 1), One("throw", 2), One("call", 3), <<Instr("throw_ref")>>, <<Instr("drop")>>,
       <<Block("block", 0, <<I32>>)>>, <<Block("block", 0, <<ExnT>>)>>, <<Block("loop", 5, <<>>)>>,
       <<Try(0, <<I32>>, <<Catch("catch", 1, 0)>>)>>, <<Try(0, <<I32>>, <<Catch("catch_all", 0, 0)>>)>>,
       <<Try(0, <<I32>>, <<Catch("catch", 1, 1), Catch("catch_all_ref", 0, 0)>>)>>,
       One("br", 0) >>

MemPieces ==
    << <<Const(0)>>, <<Const(1)>>, <<Const(3)>>, <<Instr("drop")>>,
       <<Load(I32, 2, TRUE, 0)>>, <<Load(I32, 1, TRUE, 3)>>, <<Load(I32, 4, FALSE, 1)>>, <<Store(I32, 2, 1)>>,
       One("memory.size", 1), One("memory.grow", 1),
       <<Const(2), At("memory.fill", 1)>>, <<Const(2), At2("memory.copy", 1, 1)>>, <<Const(1), At2("memory.init", 1, 1)>>,
       One("data.drop", 1), One("global.get", 1), One("global.set", 1), <<Bin("add")>>, <<Bin("div_s")>>,
       <<Instr("select")>>, <<NullOf(FuncT), Const(1), At("table.grow", 1)>> >>

TablePieces ==
    << <<Const(0)>>, <<Const(1)>>, <<Instr("drop")>>, One("table.get", 1), One("table.set", 1), One("table.get", 2),
       <<NullOf(FuncT)>>, One("ref.func", 2), <<Instr("ref.is_null")>>, <<Instr("ref.as_non_null")>>,
       One("table.grow", 1), One("table.size", 1), <<Const(1), At("table.fill", 1)>>,
       <<Const(1), At2("table.copy", 2, 1)>>, <<Const(1), At2("table.init", 1, 1)>>, One("elem.drop", 1),
       One("local.set", 2), One("local.get", 2), <<At2("call_indirect", 2, 2)>>,
       One("br_on_null", 0), One("br_on_non_null", 0), <<Block("block", 0, <<FuncT>>)>>, E >>

NestedPieces ==
    << <<Const(1)>>, <<Instr("drop")>>, E, <<Instr("else")>>, <<Block("block", 0, <<I32>>)>>, <<Block("loop", 2, <<>>)>>,
       <<Block("if", 2, <<>>)>>, One("br", 0), One("br", 1), One("br_if", 0), <<[At("br_table", 1) EXCEPT !.labels = <<0>>]>> >>

StrayPieces ==
    << <<Const(3), Block("block", 0, <<I32>>)>>, <<Const(3), Block("loop", 2, <<>>)>>, <<Const(0), Const(2)>>,
       One("br", 0), One("br_if", 0), <<Instr("end"), Bin("sub")>> >>

LoopPieces ==
    << <<Const(1)>>, <<Block("loop", 5, <<>>), Instr("drop")>>, <<Try(0, <<>>, <<Catch("catch", 1, 0)>>)>>,
       One("throw", 1) >>

RefPieces ==
    << <<NullOf(ExnT)>>, <<Instr("drop")>>, E, <<Try(0, <<ExnT>>, <<Catch("catch_all_ref", 0, 0)>>)>>,
       One("call", 1), One("throw", 2), <<Instr("throw_ref")>> >>

WasmThemes ==
    << Theme(1, FALSE, <<>>, 3, Control), Theme(2, FALSE, <<>>, 5, NestedPieces),
       Theme(2, FALSE, <<>>, 3, CallPieces), Theme(2, FALSE, <<>>, 4, DeepCallPieces), Theme(3, FALSE, <<I32, I32>>, 3, CallPieces),
       Theme(2, FALSE, <<>>, 4, ExnPieces), Theme(3, FALSE, <<>>, 4, ExnPieces),
       Theme(1, FALSE, <<>>, 6, LoopPieces), Theme(6, FALSE, <<>>, 3, RefPieces),
       Theme(3, FALSE, <<>>, 7, StrayPieces),
       [Theme(3, FALSE, <<>>, 3, MemPieces) EXCEPT !.nomem = BOOLEAN],
       Theme(3, FALSE, <<RefType(FALSE, 2), RefType(FALSE, 2)>>, 4, TablePieces) >>

---------------------------------------------------------------------------
(* The modules that are instantiated *)

Export(name, kind, x) == [name |-> name, kind |-> kind, index |-> x]
Import(name, ext) == [from |-> "a", name |-> name, ext |-> ext]
Body(t, code) == [typeidx |-> t, locals |-> <<>>, code |-> code]
Elem(t, x, at, fs) ==
    [mode |-> "active", rt |-> t, x |-> x, offset |-> <<Const(at)>>, items |-> [j \in DOMAIN fs |-> <<At("ref.func", fs[j])>>]]
Data(at, bytes) == [mode |-> "active", x |-> 1, offset |-> <<Const(at)>>, bytes |-> bytes]

Plain ==
    [rectypes |-> TypeSection, imports |-> <<>>, tags |-> <<>>, funcs |-> <<>>, mems |-> <<>>, tables |-> <<>>,
     globals |-> <<>>, datas |-> <<>>, elems |-> <<>>, start |-> 0, exports |-> <<>>]

\* Exports a table, a memory and globals, and functions that grow the memory,
\* put a function into the table, and call what stands there first.
Exporter ==
    [Plain EXCEPT
        !.funcs = <<Body(1, <<Const(1), At("memory.grow", 1), Instr("drop")>>),
                    Body(1, <<Const(1), At("ref.func", 3), At("table.set", 1)>>),
                    Body(2, <<At("local.get", 1)>>),
                    Body(1, <<Const(1), Const(0), At2("call_indirect", 1, 2), At("global.set", 1)>>)>>,
        !.mems = <<Lim(FALSE, 1, 2)>>,
        !.tables = <<[rt |-> FuncT, limits |-> Lim(FALSE, 2, 3), init |-> <<>>],
                     [rt |-> RefType(TRUE, 2), limits |-> Lim(FALSE, 1, NoMax), init |-> <<>>]>>,
        !.globals = <<[vt |-> I32, mut |-> TRUE, init |-> <<Const(1)>>],
                      [vt |-> FuncT, mut |-> FALSE, init |-> <<At("ref.func", 3)>>]>>,
        !.tags = <<5>>,
        !.exports = <<Export("grow", "func", 1), Export("put", "func", 2), Export("run", "func", 4),
                      Export("t", "table", 1), Export("u", "table", 2), Export("m", "memory", 1),
                      Export("g", "global", 1), Export("c", "global", 2), Export("e", "tag", 1)>>]

\* Imports them and writes to them: function 1 reads the module's own memory.
Importer(pages, at, bytes, start) ==
    [Plain EXCEPT
        !.imports = <<Import("t", ExternType("table", 0, FuncT, FALSE, Lim(FALSE, 2, NoMax))),
                      Import("m", ExternType("memory", 0, I32, FALSE, Lim(FALSE, pages, 2))),
                      Import("g", ExternType("global", 0, I32, TRUE, 0)),
                      Import("c", ExternType("global", 0, FuncT, FALSE, 0)),
                      Import("e", ExternType("tag", 5, I32, FALSE, 0))>>,
        !.funcs = <<Body(2, <<At("local.get", 1), [Load(I32, 1, FALSE, 0) EXCEPT !.x = 2]>>),
                    Body(1, <<Const(0), Const(1), Store(I32, 1, 0)>>),
                    Body(1, <<Const(0), Const(1), Store(I32, 1, 0), Instr("unreachable")>>)>>,
        !.mems = <<Lim(FALSE, 1, 1)>>,
        !.globals = <<[vt |-> FuncT, mut |-> FALSE, init |-> <<At("global.get", 2)>>]>>,
        !.elems = <<Elem(RefType(FALSE, 2), 1, 0, <<1>>), Elem(FuncT, 1, at, <<1, 2>>)>>,
        !.datas = <<Data(2, <<1, 1>>), Data(bytes, <<0>>)>>,
        !.start = start,
        !.exports = <<Export("t", "table", 1), Export("m", "memory", 1)>>]

\* Puts a function of type 1 into a table of another type, and names a table that is none.
Misfits ==
    {[Plain EXCEPT !.imports = <<Import("u", ExternType("table", 0, RefType(TRUE, 2), FALSE, Lim(FALSE, 1, NoMax)))>>,
                   !.funcs = <<Body(1, <<>>)>>, !.elems = <<Elem(FuncT, 1, 0, <<1>>)>>],
     [Plain EXCEPT !.imports = <<Import("u", ExternType("table", 0, FuncT, FALSE, Lim(FALSE, 1, NoMax)))>>]}

InstModules ==
    {Exporter} \cup Misfits
      \cup {Importer(1, 0, 3, 0), Importer(2, 0, 3, 0), Importer(1, 1, 3, 0), Importer(1, 0, 4, 0),
            Importer(1, 0, 2, 2), Importer(1, 0, 3, 3)}
============================================================================
