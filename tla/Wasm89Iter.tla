----------------------------- MODULE Wasm89Iter ----------------------------
(***************************************************************************)
(* The iterative evaluator (w89_eval_iter in src/wasm89/src/eval.c): one   *)
(* operand stack for the whole run and a stack of levels, one per open     *)
(* function and per open block, each with the height it was entered at.    *)
(*                                                                         *)
(* A program p is what never changes during a run: the module instances    *)
(* and the functions, by address.  A configuration c has its status, the   *)
(* operands vs, the levels lv, the store st and the call budget.  The      *)
(* history variable met names the deviations from the semantics of the     *)
(* reference stepper that a run has gone through; no step reads it.        *)
(***************************************************************************)
EXTENDS Wasm89Plain

---------------------------------------------------------------------------
(* Programs *)

WasmFunc(i, t, locals, code) ==
    [host |-> FALSE, inst |-> i, typeidx |-> t, locals |-> locals, code |-> code, ft |-> FuncType(<<>>, <<>>),
     traps |-> FALSE, out |-> <<>>]

\* External: a host function of type ft that traps or returns out.
HostFunc(ft, traps, out) ==
    [host |-> TRUE, inst |-> 0, typeidx |-> 0, locals |-> <<>>, code |-> <<>>, ft |-> ft,
     traps |-> traps, out |-> out]

EnvOf(p, i) == p.insts[i].m.env

FuncFt(p, a) == LET f == p.funcs[a] IN IF f.host THEN f.ft ELSE SubOf(EnvOf(p, f.inst), f.typeidx).comp
ParamsN(p, a) == Len(FuncFt(p, a).params)
ResultsN(p, a) == Len(FuncFt(p, a).results)

\* The position of the end that closes the block opened at i, and of its else.
RECURSIVE ExtentFrom(_, _, _, _)
ExtentFrom(code, j, depth, els) ==
    IF j > Len(code) THEN [end |-> 0, els |-> els]
    ELSE CASE code[j].op \in Openers -> ExtentFrom(code, j + 1, depth + 1, els)
           [] code[j].op = "else" -> ExtentFrom(code, j + 1, depth, IF depth = 0 THEN j ELSE els)
           [] code[j].op = "end" -> IF depth = 0 THEN [end |-> j, els |-> els]
                                    ELSE ExtentFrom(code, j + 1, depth - 1, els)
           [] OTHER -> ExtentFrom(code, j + 1, depth, els)

BlockExtent(code, i) == ExtentFrom(code, i + 1, 0, 0)

ArityIn(p, i, bt) == Len(Ts1(p.insts[i].m, bt))
ArityOut(p, i, bt) == Len(Ts2(p.insts[i].m, bt))

---------------------------------------------------------------------------
(* Levels *)

NoFrame == [inst |-> 0, locals |-> <<>>]

FrameFor(p, a, args) ==
    LET f == p.funcs[a]
    IN [inst |-> f.inst,
        locals |-> args \o [j \in DOMAIN f.locals |->
                               IF Defaultable(f.locals[j]) THEN DefaultValue(f.locals[j]) ELSE Unset]]

FuncLevel(p, a, frame, base, arity) ==
    [kind |-> "func", fun |-> a, frame |-> frame, pc |-> 1, end |-> Len(p.funcs[a].code) + 1,
     base |-> base, nparams |-> 0, arity |-> arity, contpos |-> 0, catches |-> <<>>]

\* The innermost function at or below level i.
FuncOf(c, i) == CHOOSE j \in 1 .. i : /\ c.lv[j].kind = "func"
                                      /\ \A k \in j + 1 .. i : c.lv[k].kind # "func"

Here(c) == FuncOf(c, Len(c.lv))
FrameHere(c) == c.lv[Here(c)].frame
CodeHere(p, c) == p.funcs[Last(c.lv).fun].code
InstHere(p, c) == p.insts[FrameHere(c).inst]

Finish(c, status) == [c EXCEPT !.status = status]
Goto(c, i, pc) == [c EXCEPT !.lv[i].pc = pc]
Advance(c) == Goto(c, Len(c.lv), Last(c.lv).pc + 1)
Drop(c, n) == [c EXCEPT !.vs = SubSeq(@, 1, Len(@) - n)]
TopN(c, n) == SubSeq(c.vs, Len(c.vs) - n + 1, Len(c.vs))
Keep(c, base, n) == [c EXCEPT !.vs = SubSeq(@, 1, base) \o TopN(c, n)]
Met(c, what, when) == IF when THEN [c EXCEPT !.met = @ \cup {what}] ELSE c

\* Levels t and above are closed, and the level below goes on after the end of t.
LeaveBlock(c, t) ==
    LET d == [c EXCEPT !.lv = SubSeq(@, 1, t - 1)]
    IN IF t = 1 THEN Finish(d, "ok") ELSE Goto(d, t - 1, c.lv[t].end + 1)

\* Mutant: a branch to a block keeps every operand above its base.
IterBrAll(c, depth) ==
    IF depth >= Len(c.lv) THEN Finish(c, "crash")
    ELSE LET t == Len(c.lv) - depth
             tg == c.lv[t]
             take == Least(tg.arity, Len(c.vs))
         IN CASE tg.kind = "func" -> Goto([Keep(c, tg.base, take) EXCEPT !.lv = SubSeq(@, 1, t)], t, tg.end)
              [] tg.kind = "block" /\ tg.contpos # 0 ->
                    LET d == Goto([c EXCEPT !.lv = SubSeq(@, 1, t)], t, tg.contpos)
                    IN IF Len(c.vs) > tg.base + tg.nparams THEN Keep(d, tg.base, tg.nparams) ELSE d
              [] OTHER -> LeaveBlock(c, t)

IterBr(c, depth) ==
    IF depth >= Len(c.lv) THEN Finish(c, "crash")
    ELSE LET t == Len(c.lv) - depth
             tg == c.lv[t]
             take == Least(tg.arity, Len(c.vs))
         IN CASE tg.kind = "func" -> Goto([Keep(c, tg.base, take) EXCEPT !.lv = SubSeq(@, 1, t)], t, tg.end)
              [] tg.kind = "block" /\ tg.contpos # 0 ->
                    LET d == Goto([c EXCEPT !.lv = SubSeq(@, 1, t)], t, tg.contpos)
                    IN IF Len(c.vs) > tg.base + tg.nparams THEN Keep(d, tg.base, tg.nparams) ELSE d
              [] OTHER -> LeaveBlock(Keep(c, tg.base, take), t)

---------------------------------------------------------------------------
(* Blocks and branches *)

\* Mutant: the parameters of a block stay below its base.
BlockBaseAbove(vs, n1) == Len(vs)

\* A block owns its n1 parameters.
BlockBase(vs, n1) == Len(vs) - n1

EnterBlock(p, c, in) ==
    LET code == CodeHere(p, c)
        pc == Last(c.lv).pc
        ext == BlockExtent(code, pc)
        i == FrameHere(c).inst
        n1 == ArityIn(p, i, in.bt)
        isIf == in.op = "if"
        d == IF isIf THEN Drop(c, 1) ELSE c
        arm == IF ~isIf \/ Last(c.vs).val # 0 THEN pc + 1
               ELSE IF ext.els # 0 THEN ext.els + 1 ELSE ext.end
        level == [kind |-> "block", fun |-> Last(c.lv).fun, frame |-> NoFrame, pc |-> arm, end |-> ext.end,
                  base |-> BlockBase(d.vs, n1), nparams |-> n1, arity |-> ArityOut(p, i, in.bt),
                  contpos |-> IF in.op = "loop" THEN pc + 1 ELSE 0,
                  catches |-> IF in.op = "try_table" THEN in.catches ELSE <<>>]
    IN IF ext.end = 0 \/ (isIf /\ Len(c.vs) < 1) THEN Finish(c, "crash")
       ELSE IF isIf /\ IsRef(Last(c.vs)) THEN Finish(c, "confused")
       ELSE IF Len(d.vs) < n1 THEN Finish(c, "crash")
       ELSE [d EXCEPT !.lv = Append(@, level)]

\* The branches that look at the operand on top.
StepBranch(c, in) ==
    IF in.op = "br" THEN IterBr(c, in.x)
    ELSE IF c.vs = <<>> THEN Finish(c, "crash")
    ELSE LET v == Last(c.vs)
         IN CASE in.op \in {"br_if", "br_table"} /\ IsRef(v) -> Finish(c, "confused")
              [] in.op = "br_if" /\ ~IsRef(v) ->
                    IF v.val = 0 THEN Advance(Drop(c, 1)) ELSE IterBr(Drop(c, 1), in.x)
              [] in.op = "br_table" /\ ~IsRef(v) ->
                    IterBr(Drop(c, 1), IF v.val < Len(in.labels) THEN in.labels[v.val + 1] ELSE in.x)
              [] in.op = "br_on_null" -> IF v = Null THEN IterBr(Drop(c, 1), in.x) ELSE Advance(c)
              [] in.op = "br_on_non_null" ->
                    IF IsRef(v) /\ v # Null THEN IterBr(c, in.x) ELSE Advance(Drop(c, 1))

---------------------------------------------------------------------------
(* Calls and returns *)

\* The function at level i returns: its results move down to its base.  With
\* no results everything above the base stays.
FnSplice(c, i) ==
    LET l == c.lv[i]
        avail == IF Len(c.vs) < l.base THEN 0 ELSE Len(c.vs) - l.base
        d == IF l.arity = 0 THEN Met(c, "return_strays", avail > 0)
             ELSE Keep(c, l.base, Least(avail, l.arity))
    IN IF i = 1 THEN Finish([d EXCEPT !.lv = <<>>], "ok")
       ELSE Advance([d EXCEPT !.lv = SubSeq(@, 1, i - 1), !.budget = @ + 1])

\* A host function takes its arguments off the stack and returns at once.
CallHost(p, c, a) ==
    LET f == p.funcs[a]
        d == Drop(c, Len(f.ft.params))
    IN IF f.traps THEN Finish(d, "trap") ELSE [d EXCEPT !.vs = @ \o f.out]

DoCall(p, c, a) ==
    LET n1 == ParamsN(p, a)
        base == Len(c.vs) - n1
    IN IF base < 0 THEN Finish(c, "crash")
       ELSE IF p.funcs[a].host
            THEN LET d == CallHost(p, c, a) IN IF d.status = "run" THEN Advance(d) ELSE d
       ELSE IF c.budget = 0 THEN Finish(c, "exhausted")
       ELSE [Drop(c, n1) EXCEPT
                !.lv = Append(@, FuncLevel(p, a, FrameFor(p, a, TopN(c, n1)), base, ResultsN(p, a))),
                !.budget = @ - 1]

\* A tail call replaces the enclosing function.  The frame of the outermost
\* one belongs to the caller of the evaluator and is reused when it is large
\* enough, else the callee is called and its results are returned.
DoTail(p, c0, a) ==
    LET n1 == ParamsN(p, a)
        base == Len(c0.vs) - n1
        i == Here(c0)
        l == c0.lv[i]
        c == [c0 EXCEPT !.lv = SubSeq(@, 1, i)]
        fresh == FrameFor(p, a, TopN(c, n1))
        small == i = 1 /\ Len(l.frame.locals) < Len(fresh.locals)
        frame == IF i = 1
                 THEN [l.frame EXCEPT !.locals = [j \in DOMAIN @ |-> IF j \in DOMAIN fresh.locals
                                                                     THEN fresh.locals[j] ELSE @[j]]]
                 ELSE fresh
        d == Met(Met(c, "tail_base", base > l.base), "tail_instance", frame.inst # fresh.inst)
    IN IF base < 0 THEN Finish(c0, "crash")
       ELSE IF p.funcs[a].host
            THEN LET h == CallHost(p, c, a) IN IF h.status = "run" THEN Goto(h, i, l.end) ELSE h
       ELSE IF small THEN DoCall(p, Goto(c, i, l.end), a)
       ELSE [Drop(d, n1) EXCEPT !.lv[i] = FuncLevel(p, a, frame, base, ResultsN(p, a))]

\* The callee of an indirect call must have a type that matches the expected one.
IndirectOk(p, inst, a, t) ==
    LET f == p.funcs[a]
    IN IF f.host THEN MatchFtX(EmptyEnv, f.ft, inst.m.env, SubOf(inst.m.env, t).comp)
       ELSE MatchDeftypeX(EnvOf(p, f.inst), f.typeidx, inst.m.env, t)

\* The callee of a call instruction: its address, or how the run ends.
Callee(p, inst, vs, st, in) ==
    LET Found(a) == [status |-> "run", fun |-> a, pops |-> 0]
        Ends(s) == [status |-> s, fun |-> 0, pops |-> 0]
        v == Last(vs)
    IN CASE in.op \in {"call", "return_call"} ->
               IF in.x \in DOMAIN inst.funcs THEN Found(inst.funcs[in.x]) ELSE Ends("crash")
         [] in.op \in {"call_ref", "return_call_ref"} ->
               IF vs = <<>> THEN Ends("crash")
               ELSE IF ~IsRef(v) \/ v = Null THEN Ends("trap")
               ELSE IF v.kind # "func" THEN Ends("crash")
               ELSE [Found(v.val) EXCEPT !.pops = 1]
         [] in.op \in {"call_indirect", "return_call_indirect"} ->
               IF in.x \notin DOMAIN inst.tables \/ vs = <<>> THEN Ends("crash")
               ELSE IF IsRef(v) THEN Ends("confused")
               ELSE LET elems == st.tables[inst.tables[in.x]].elems
                        i == Wrap(W32, v.val)
                    IN IF i >= Len(elems) THEN Ends("trap")
                       ELSE LET e == elems[i + 1]
                            IN IF e = Null THEN Ends("trap")
                               ELSE IF e.kind # "func" THEN Ends("crash")
                               ELSE IF ~IndirectOk(p, inst, e.val, in.y) THEN Ends("trap")
                               ELSE [Found(e.val) EXCEPT !.pops = 1]

\* Goes on with the callee f that was found, unless none was.
EnterCallee(p, c, tail, f) ==
    IF f.status # "run" THEN Finish(c, f.status)
    ELSE IF tail THEN DoTail(p, Drop(c, f.pops), f.fun)
    ELSE DoCall(p, Drop(c, f.pops), f.fun)

StepCall(p, c, in) ==
    EnterCallee(p, c, in.op \in TailCalls, Callee(p, InstHere(p, c), c.vs, c.st, in))

---------------------------------------------------------------------------
(* Exceptions: x has the address of its tag and its arguments *)

\* A catch clause of a block in instance inst takes the exception.
Catches(inst, cc, x) ==
    \/ cc.kind \in {"catch_all", "catch_all_ref"}
    \/ cc.tag \in DOMAIN inst.tags /\ inst.tags[cc.tag] = x.tag

\* The innermost level with a clause that takes x, and its first such clause.
Handlers(p, c, x) ==
    {i \in DOMAIN c.lv : \E k \in DOMAIN c.lv[i].catches :
        Catches(p.insts[c.lv[FuncOf(c, i)].frame.inst], c.lv[i].catches[k], x)}

\* The operands a clause delivers; the ones with a reference allocate the exception.
Delivered(cc, x, e) ==
    (IF cc.kind \in {"catch", "catch_ref"} THEN x.args ELSE <<>>)
    \o (IF cc.kind \in {"catch_ref", "catch_all_ref"} THEN <<ExnRef(e)>> ELSE <<>>)

\* Mutant: the functions the exception leaves are not given back to the budget.
ThrowHitCharged(p, c, x, i, cc) ==
    LET t == IF cc.label < i - 1 THEN i - 1 - cc.label ELSE 1
        ref == cc.kind \in {"catch_ref", "catch_all_ref"}
        d == [c EXCEPT !.vs = SubSeq(@, 1, c.lv[t].base) \o Delivered(cc, x, Len(c.st.exns) + 1),
                       !.st.exns = IF ref THEN Append(@, x) ELSE @]
    IN IF c.lv[t].kind = "func" THEN FnSplice(d, t) ELSE LeaveBlock(d, t)

\* Every function above and including the level the clause branches to is
\* closed, the outermost one excepted; then the level itself is left.
ThrowHit(p, c, x, i, cc) ==
    LET t == IF cc.label < i - 1 THEN i - 1 - cc.label ELSE 1
        freed == {j \in t .. Len(c.lv) : c.lv[j].kind = "func" /\ j # 1}
        ref == cc.kind \in {"catch_ref", "catch_all_ref"}
        d == [c EXCEPT !.lv = [j \in DOMAIN @ |-> IF j \in freed THEN [@[j] EXCEPT !.frame = NoFrame] ELSE @[j]],
                       !.budget = @ + Cardinality(freed),
                       !.vs = SubSeq(@, 1, c.lv[t].base) \o Delivered(cc, x, Len(c.st.exns) + 1),
                       !.st.exns = IF ref THEN Append(@, x) ELSE @]
        e == Met(Met(d, "catch_func", t \in freed), "catch_loop", c.lv[t].contpos # 0)
    IN IF ref /\ d.lv[FuncOf(c, i)].frame = NoFrame THEN Finish(e, "crash")
       ELSE IF c.lv[t].kind = "func" THEN FnSplice(e, t)
       ELSE LeaveBlock(e, t)

Throw(p, c, x) ==
    LET hs == Handlers(p, c, x)
        i == CHOOSE j \in hs : \A k \in hs : j >= k
        inst == p.insts[c.lv[FuncOf(c, i)].frame.inst]
        cc == SelectSeq(c.lv[i].catches, LAMBDA q : Catches(inst, q, x))[1]
    IN IF hs = {} THEN [Finish(c, "exception") EXCEPT !.vs = x.args, !.tag = x.tag]
       ELSE ThrowHit(p, c, x, i, cc)

StepThrow(p, c, in) ==
    IF in.op = "throw"
    THEN LET inst == InstHere(p, c)
             n == Len(Params(inst.m, inst.m.tags[in.x]))
         IN IF in.x \notin DOMAIN inst.tags \/ Len(c.vs) < n THEN Finish(c, "crash")
            ELSE Throw(p, Drop(c, n), [tag |-> inst.tags[in.x], args |-> TopN(c, n)])
    ELSE IF c.vs = <<>> THEN Finish(c, "crash")
    ELSE IF ~IsRef(Last(c.vs)) \/ Last(c.vs) = Null THEN Finish(c, "trap")
    ELSE IF Last(c.vs).kind # "exn" THEN Finish(c, "crash")
    ELSE Throw(p, Drop(c, 1), c.st.exns[Last(c.vs).val])

---------------------------------------------------------------------------
(* The driving loop *)

\* The configuration takes over what a plain step leaves.
AfterPlain(c, r) ==
    LET d == [c EXCEPT !.status = r.status, !.vs = r.vs, !.st = r.st, !.lv[Here(c)].frame.locals = r.locals]
    IN IF r.status = "run" THEN Advance(d) ELSE d

IterPlain(p, c, in, nomem) ==
    AfterPlain(c, StepPlain(InstHere(p, c), in,
                            [status |-> "run", vs |-> c.vs, locals |-> FrameHere(c).locals, st |-> c.st], nomem))

IterStep(p, c, nomem) ==
    LET l == Last(c.lv)
        in == CodeHere(p, c)[l.pc]
    IN IF l.kind = "func" /\ l.pc >= l.end THEN FnSplice(c, Len(c.lv))
       ELSE IF l.kind = "block" /\ l.pc >= l.end THEN LeaveBlock(c, Len(c.lv))
       ELSE CASE in.op \in Closers -> LeaveBlock(c, Len(c.lv))
              [] in.op \in Openers -> EnterBlock(p, c, in)
              [] in.op \in {"throw", "throw_ref"} -> StepThrow(p, c, in)
              [] in.op = "return" -> FnSplice(c, Here(c))
              [] in.op \in Calls \cup TailCalls -> StepCall(p, c, in)
              [] in.op \in {"br", "br_if", "br_table", "br_on_null", "br_on_non_null"} -> StepBranch(c, in)
              [] OTHER -> IterPlain(p, c, in, nomem)

\* The invocation of function a with args: its frame belongs to the invoker.
IterInit(p, a, args, st, budget) ==
    [status |-> "run", vs |-> <<>>, tag |-> 0, st |-> st, budget |-> budget, met |-> {},
     lv |-> <<FuncLevel(p, a, FrameFor(p, a, args), 0, ResultsN(p, a))>>]
============================================================================
