----------------------------- MODULE Wasm89Plain ---------------------------
(***************************************************************************)
(* The instructions that neither branch nor call (step_plain and what it   *)
(* calls in src/wasm89/src/eval.c), as a function of the operand stack,    *)
(* the locals of the frame and the store.                                  *)
(*                                                                         *)
(* A value carries no type, only whether it is a number or a reference, as *)
(* in the code; reading a member of its union that was not written ends    *)
(* the run as "confused".  Sizes are scaled: a byte has one bit, a page    *)
(* four bytes, and addresses have 4 or 8 bits.                             *)
(***************************************************************************)
EXTENDS Wasm89Validate, Wasm89Num

Number(n) == [kind |-> "num", val |-> n]
Null == [kind |-> "null", val |-> 0]
FuncRef(f) == [kind |-> "func", val |-> f]
ExnRef(e) == [kind |-> "exn", val |-> e]
IsRef(v) == v.kind # "num"
Unset == [kind |-> "unset", val |-> 0]

DefaultValue(t) == IF t.num = "ref" THEN Null ELSE Number(0)

W32 == 4
W64 == 8
Width(t) == IF t = I64 THEN W64 ELSE W32
PageSize == 4
MaxPages(lim) == IF lim.addr64 THEN 64 ELSE 4
TableAddrMax(lim) == IF lim.addr64 THEN 2 ^ W64 - 1 ELSE 2 ^ W32

---------------------------------------------------------------------------
(* A step's state r: status, vs, locals and store *)

Arg(r, k) == r.vs[Len(r.vs) - k]
N(r, k) == Arg(r, k).val
Below(r, n) == SubSeq(r.vs, 1, Len(r.vs) - n)
Done(r, n, out) == [r EXCEPT !.vs = Below(r, n) \o out]
End(r, status) == [r EXCEPT !.status = status]

\* i .. i + n - 1 is not within 0 .. j - 1; the sum is one of 64 bits.
Oob(i, n, j) == LET s == Wrap(W64, i + n) IN s < i \/ s > j

\* s with its elements from position at on (counted from 0) replaced by t.
Overwrite(s, at, t) ==
    [k \in DOMAIN s |-> IF k > at /\ k <= at + Len(t) THEN t[k - at] ELSE s[k]]

ReadLe(bytes, at, n) == LET RECURSIVE Bytes(_)
                            Bytes(k) == IF k = n THEN 0 ELSE bytes[at + k + 1] + 2 * Bytes(k + 1)
                        IN Bytes(0)
WriteLe(n, x) == [k \in 1 .. n |-> (x \div 2 ^ (k - 1)) % 2]

\* What the operands must be for the step to read what was written.
Needs(in) ==
    CASE in.op \in {"drop", "local.set", "local.tee", "global.set", "ref.is_null", "ref.as_non_null"} -> <<"any">>
      [] in.op \in {"select", "select_t"} -> <<"any", "any", "num">>
      [] in.op = "ref.eq" -> <<"any", "any">>
      [] in.op \in {"table.get", "load", "memory.grow", "test", "un", "cvt"} -> <<"num">>
      [] in.op \in {"store", "rel", "bin"} -> <<"num", "num">>
      [] in.op = "table.set"  -> <<"num", "ref">>
      [] in.op = "table.grow" -> <<"ref", "num">>
      [] in.op = "table.fill" -> <<"num", "ref", "num">>
      [] in.op \in {"memory.init", "memory.copy", "memory.fill", "table.init", "table.copy"} ->
            <<"num", "num", "num">>
      [] OTHER -> <<>>

Read(in, r) ==
    \A j \in DOMAIN Needs(in) :
        LET v == r.vs[Len(r.vs) - Len(Needs(in)) + j]
        IN CASE Needs(in)[j] = "any" -> TRUE
             [] Needs(in)[j] = "num" -> ~IsRef(v)
             [] Needs(in)[j] = "ref" -> IsRef(v)

---------------------------------------------------------------------------
(* Stack, locals and globals *)

StepSelect(r) == Done(r, 3, <<IF N(r, 0) = 0 THEN Arg(r, 1) ELSE Arg(r, 2)>>)

StepLocal(in, r) ==
    IF in.x \notin DOMAIN r.locals THEN End(r, "crash")
    ELSE CASE in.op = "local.get" -> IF r.locals[in.x] = Unset THEN End(r, "crash") ELSE Done(r, 0, <<r.locals[in.x]>>)
           [] in.op = "local.set" -> [Done(r, 1, <<>>) EXCEPT !.locals[in.x] = Arg(r, 0)]
           [] in.op = "local.tee" -> [r EXCEPT !.locals[in.x] = Arg(r, 0)]

StepGlobal(inst, in, r) ==
    IF in.x \notin DOMAIN inst.globals THEN End(r, "crash")
    ELSE LET g == inst.globals[in.x]
         IN IF in.op = "global.get" THEN Done(r, 0, <<r.st.globals[g].val>>)
            ELSE IF ~r.st.globals[g].mut THEN End(r, "crash")
            ELSE [Done(r, 1, <<>>) EXCEPT !.st.globals[g].val = Arg(r, 0)]

---------------------------------------------------------------------------
(* References and tables *)

EqRef(v, u) == IsRef(v) /\ IsRef(u) /\ v = u

StepRef(inst, in, r) ==
    CASE in.op = "ref.null"    -> Done(r, 0, <<Null>>)
      [] in.op = "ref.is_null" -> Done(r, 1, <<Number(IF Arg(r, 0) = Null THEN 1 ELSE 0)>>)
      [] in.op = "ref.func"    -> IF in.x \notin DOMAIN inst.funcs THEN End(r, "crash")
                                  ELSE Done(r, 0, <<FuncRef(inst.funcs[in.x])>>)
      [] in.op = "ref.eq"      -> Done(r, 2, <<Number(IF EqRef(Arg(r, 1), Arg(r, 0)) THEN 1 ELSE 0)>>)
      [] in.op = "ref.as_non_null" ->
            IF ~IsRef(Arg(r, 0)) \/ Arg(r, 0) = Null THEN End(r, "trap") ELSE r

\* The failure of a growth, as wide as the address type.
Minus1(lim) == Number((IF lim.addr64 THEN 2 ^ W64 ELSE 2 ^ W32) - 1)

\* A 64-bit index is cut to 32 bits like any other.
StepTableAt(t, in, r) ==
    LET elems == r.st.tables[t].elems
        i == Wrap(W32, N(r, IF in.op = "table.set" THEN 1 ELSE 0))
    IN IF i >= Len(elems) THEN End(r, "trap")
       ELSE IF in.op = "table.get" THEN Done(r, 1, <<elems[i + 1]>>)
       ELSE [Done(r, 2, <<>>) EXCEPT !.st.tables[t].elems[i + 1] = Arg(r, 0)]

StepTable(inst, in, r, nomem) ==
    IF in.x \notin DOMAIN inst.tables THEN End(r, "crash")
    ELSE LET t == inst.tables[in.x]
             lim == r.st.tables[t].limits
             size == Len(r.st.tables[t].elems)
             nsize == Wrap(W64, size + N(r, 0))
         IN CASE in.op \in {"table.get", "table.set"} -> StepTableAt(t, in, r)
              [] in.op = "table.size" -> Done(r, 0, <<Number(size)>>)
              [] in.op = "table.fill" ->
                    IF Oob(N(r, 2), N(r, 0), size) THEN End(r, "trap")
                    ELSE [Done(r, 3, <<>>) EXCEPT !.st.tables[t].elems =
                             Overwrite(@, N(r, 2), [k \in 1 .. N(r, 0) |-> Arg(r, 1)])]
              [] in.op = "table.grow" ->
                    IF \/ nsize < size \/ nsize > TableAddrMax(lim)
                       \/ lim.max # NoMax /\ nsize > lim.max
                       \/ nsize > size /\ nomem
                    THEN Done(r, 2, <<Minus1(lim)>>)
                    ELSE [Done(r, 2, <<Number(size)>>) EXCEPT
                             !.st.tables[t].elems = @ \o [k \in 1 .. nsize - size |-> Arg(r, 1)],
                             !.st.tables[t].limits.min = nsize]

\* n elements of src from s on are copied to position d of dst, all or none.
CopyOk(r, dst, src) == ~Oob(N(r, 2), N(r, 0), Len(dst)) /\ ~Oob(N(r, 1), N(r, 0), Len(src))
CopyTo(r, dst, src) == Overwrite(dst, N(r, 2), SubSeq(src, N(r, 1) + 1, N(r, 1) + N(r, 0)))

StepBulkTable(inst, in, r) ==
    CASE in.op = "elem.drop" ->
            IF in.x \notin DOMAIN inst.elems THEN End(r, "crash")
            ELSE [r EXCEPT !.st.elems[inst.elems[in.x]] = <<>>]
      [] in.op = "table.init" ->
            IF in.x \notin DOMAIN inst.tables \/ in.y \notin DOMAIN inst.elems THEN End(r, "crash")
            ELSE LET t == inst.tables[in.x]
                     e == r.st.elems[inst.elems[in.y]]
                 IN IF ~CopyOk(r, r.st.tables[t].elems, e) THEN End(r, "trap")
                    ELSE [Done(r, 3, <<>>) EXCEPT !.st.tables[t].elems = CopyTo(r, @, e)]
      [] in.op = "table.copy" ->
            IF in.x \notin DOMAIN inst.tables \/ in.y \notin DOMAIN inst.tables THEN End(r, "crash")
            ELSE LET d == inst.tables[in.y]
                     s == r.st.tables[inst.tables[in.x]].elems
                 IN IF ~CopyOk(r, r.st.tables[d].elems, s) THEN End(r, "trap")
                    ELSE [Done(r, 3, <<>>) EXCEPT !.st.tables[d].elems = CopyTo(r, @, s)]

---------------------------------------------------------------------------
(* Memories *)

\* The effective address is a sum of 64 bits, whatever the memory's addresses.
EaOob(mem, addr, in) == Oob(Wrap(W64, addr + in.offset), in.size, Len(mem.bytes))

AddrOf(mem, v) == IF mem.limits.addr64 THEN v.val ELSE Wrap(W32, v.val)

StepLoad(inst, in, r) ==
    LET mem == r.st.mems[inst.mems[in.x]]
        addr == AddrOf(mem, Arg(r, 0))
        x == ReadLe(mem.bytes, Wrap(W64, addr + in.offset), in.size)
    IN IF EaOob(mem, addr, in) THEN End(r, "trap")
       ELSE Done(r, 1, <<Number(IF in.sext THEN ExtendS(Width(in.vt), in.size, x) ELSE x)>>)

StepStore(inst, in, r) ==
    LET m == inst.mems[in.x]
        addr == AddrOf(r.st.mems[m], Arg(r, 1))
    IN IF EaOob(r.st.mems[m], addr, in) THEN End(r, "trap")
       ELSE [Done(r, 2, <<>>) EXCEPT !.st.mems[m].bytes =
                Overwrite(@, Wrap(W64, addr + in.offset), WriteLe(in.size, N(r, 0)))]

StepMemGrow(inst, in, r, nomem) ==
    LET m == inst.mems[in.x]
        lim == r.st.mems[m].limits
        np0 == Len(r.st.mems[m].bytes) \div PageSize
        npages == Wrap(W64, np0 + AddrOf(r.st.mems[m], Arg(r, 0)))
    IN IF \/ npages < np0 \/ npages > MaxPages(lim)
          \/ lim.max # NoMax /\ npages > lim.max
          \/ npages > np0 /\ nomem
       THEN Done(r, 1, <<Minus1(lim)>>)
       ELSE [Done(r, 1, <<Number(np0)>>) EXCEPT
                !.st.mems[m].bytes = @ \o [k \in 1 .. (npages - np0) * PageSize |-> 0],
                !.st.mems[m].limits.min = npages]

StepMemory(inst, in, r, nomem) ==
    IF in.x \notin DOMAIN inst.mems THEN End(r, "crash")
    ELSE CASE in.op = "load"  -> StepLoad(inst, in, r)
           [] in.op = "store" -> StepStore(inst, in, r)
           [] in.op = "memory.size" ->
                 Done(r, 0, <<Number(Len(r.st.mems[inst.mems[in.x]].bytes) \div PageSize)>>)
           [] in.op = "memory.grow" -> StepMemGrow(inst, in, r, nomem)

StepBulkMemory(inst, in, r) ==
    CASE in.op = "data.drop" ->
            IF in.x \notin DOMAIN inst.datas THEN End(r, "crash")
            ELSE [r EXCEPT !.st.datas[inst.datas[in.x]] = <<>>]
      [] in.op = "memory.init" ->
            IF in.x \notin DOMAIN inst.mems \/ in.y \notin DOMAIN inst.datas THEN End(r, "crash")
            ELSE LET m == inst.mems[in.x]
                     d == r.st.datas[inst.datas[in.y]]
                 IN IF ~CopyOk(r, r.st.mems[m].bytes, d) THEN End(r, "trap")
                    ELSE [Done(r, 3, <<>>) EXCEPT !.st.mems[m].bytes = CopyTo(r, @, d)]
      [] in.op = "memory.copy" ->
            IF in.x \notin DOMAIN inst.mems \/ in.y \notin DOMAIN inst.mems THEN End(r, "crash")
            ELSE LET d == inst.mems[in.y]
                     s == r.st.mems[inst.mems[in.x]].bytes
                 IN IF ~CopyOk(r, r.st.mems[d].bytes, s) THEN End(r, "trap")
                    ELSE [Done(r, 3, <<>>) EXCEPT !.st.mems[d].bytes = CopyTo(r, @, s)]
      [] in.op = "memory.fill" ->
            IF in.x \notin DOMAIN inst.mems THEN End(r, "crash")
            ELSE LET m == inst.mems[in.x]
                 IN IF Oob(N(r, 2), N(r, 0), Len(r.st.mems[m].bytes)) THEN End(r, "trap")
                    ELSE [Done(r, 3, <<>>) EXCEPT !.st.mems[m].bytes =
                             Overwrite(@, N(r, 2), [k \in 1 .. N(r, 0) |-> N(r, 1) % 2])]

---------------------------------------------------------------------------
(* Numbers *)

Cmp(w, f, x, y) ==
    CASE f = "eq" -> x = y     [] f = "ne" -> x # y
      [] f = "lt_u" -> x < y   [] f = "gt_u" -> x > y
      [] f = "le_u" -> x <= y  [] f = "ge_u" -> x >= y
      [] f = "lt_s" -> LtS(w, x, y)  [] f = "gt_s" -> LtS(w, y, x)
      [] f = "le_s" -> LeS(w, x, y)  [] f = "ge_s" -> LeS(w, y, x)

Unop(w, f, x) ==
    CASE f = "clz" -> IF w = W32 THEN ClzNarrow(W32, x) ELSE Clz(w, x)
      [] f = "ctz" -> Ctz(w, x)
      [] f = "popcnt" -> Popcnt(W64, x)
      [] f = "extend8_s" -> ExtendS(w, 1, x)
      [] f = "extend16_s" -> ExtendS(w, 2, x)
      [] f = "extend32_s" -> ExtendS(w, 4, x)

Binop(w, f, x, y) ==
    CASE f = "add" -> Wrap(w, x + y) [] f = "sub" -> Wrap(w, x - y) [] f = "mul" -> Wrap(w, x * y)
      [] f = "div_s" -> DivS(w, x, y) [] f = "div_u" -> DivU(w, x, y)
      [] f = "rem_s" -> RemS(w, x, y) [] f = "rem_u" -> RemU(w, x, y)
      [] f = "and" -> x & y [] f = "or" -> x | y [] f = "xor" -> x ^^ y
      [] f = "shl" -> Shl(w, x, y) [] f = "shr_s" -> ShrS(w, x, y) [] f = "shr_u" -> ShrU(w, x, y)
      [] f = "rotl" -> Rotl(w, x, y) [] f = "rotr" -> Rotr(w, x, y)

Cvt(f, x) ==
    CASE f = "wrap" -> Wrap(W32, x) [] f = "extend_s" -> ExtendS(W64, W32, x) [] f = "extend_u" -> x

StepNumeric(in, r) ==
    LET w == Width(in.vt)
        x == Wrap(w, N(r, 0))
        Bool(q) == Number(IF q THEN 1 ELSE 0)
        z == Binop(w, in.f, Wrap(w, N(r, 1)), x)
    IN CASE in.op = "const" -> Done(r, 0, <<Number(in.n)>>)
         [] in.op = "test"  -> Done(r, 1, <<Bool(x = 0)>>)
         [] in.op = "rel"   -> Done(r, 2, <<Bool(Cmp(w, in.f, Wrap(w, N(r, 1)), x))>>)
         [] in.op = "un"    -> Done(r, 1, <<Number(Unop(w, in.f, x))>>)
         [] in.op = "bin"   -> IF z = Trap THEN End(r, "trap") ELSE Done(r, 2, <<Number(z)>>)
         [] in.op = "cvt"   -> Done(r, 1, <<Number(Cvt(in.f, x))>>)

---------------------------------------------------------------------------
StepPlain(inst, in, r, nomem) ==
    IF Len(r.vs) < Len(Needs(in)) THEN End(r, "crash")
    ELSE IF ~Read(in, r) THEN End(r, "confused")
    ELSE CASE in.op = "unreachable" -> End(r, "trap")
           [] in.op = "nop"  -> r
           [] in.op = "drop" -> Done(r, 1, <<>>)
           [] in.op \in {"select", "select_t"} -> StepSelect(r)
           [] in.op \in {"local.get", "local.set", "local.tee"} -> StepLocal(in, r)
           [] in.op \in {"global.get", "global.set"} -> StepGlobal(inst, in, r)
           [] in.op \in RefInstrs    -> StepRef(inst, in, r)
           [] in.op \in Tables       -> StepTable(inst, in, r, nomem)
           [] in.op \in BulkTables   -> StepBulkTable(inst, in, r)
           [] in.op \in Memories     -> StepMemory(inst, in, r, nomem)
           [] in.op \in BulkMemories -> StepBulkMemory(inst, in, r)
           [] in.op \in Numerics     -> StepNumeric(in, r)
============================================================================
