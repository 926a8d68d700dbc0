---------------------------- MODULE Wasm89Legacy ---------------------------
(***************************************************************************)
(* The reference stepper (w89_step in src/wasm89/src/eval.c): the rewriting *)
(* semantics, in which a block, a handler and a frame are administrative   *)
(* instructions that hold their own code and operands, and a branch, a     *)
(* return or an exception is one that its surroundings absorb.             *)
(*                                                                         *)
(* A code k has its operands vs, a front of administrative instructions    *)
(* and then the plain ones pos .. stop of function fun.  A state x adds    *)
(* the frame (inst and locals), the store, the budget and the status.      *)
(***************************************************************************)
EXTENDS Wasm89Iter

CodeRange(a, from, to, vs) == [vs |-> vs, front |-> <<>>, pos |-> from, stop |-> to, fun |-> a]

Admin(kind) ==
    [kind |-> kind, n |-> 0, contpos |-> 0, skip |-> 0, catches |-> <<>>, fun |-> 0, pos |-> 0, k |-> 0, vs0 |-> <<>>,
     tag |-> 0, inst |-> 0, locals |-> <<>>, code |-> CodeRange(0, 1, 0, <<>>)]

IsEmpty(k) == k.front = <<>> /\ k.pos > k.stop
CodeHead(k) == IF k.front # <<>> THEN Head(k.front) ELSE [Admin("plain") EXCEPT !.pos = k.pos]
CodeConsume(k) == IF k.front # <<>> THEN [k EXCEPT !.front = Tail(@)] ELSE [k EXCEPT !.pos = @ + 1]
Push(k, a) == [k EXCEPT !.front = <<a>> \o @]
Put(k, a) == Push(CodeConsume(k), a)
Skip(k, n) == [k EXCEPT !.pos = @ + n]
WithVs(k, vs) == [k EXCEPT !.vs = vs]
TopOf(vs, n) == SubSeq(vs, Len(vs) - n + 1, Len(vs))
Upto(vs, n) == TopOf(vs, Least(n, Len(vs)))

Jumping == {"returning", "retinv", "breaking", "throwing", "trap"}

Next1(x, k) == [x EXCEPT !.code = k]
Halt(x, status) == [x EXCEPT !.status = status]
TrapNow(x, vs) == Next1(x, Put(WithVs(x.code, vs), Admin("trap")))

---------------------------------------------------------------------------
(* Plain instructions that transfer control *)

Jump(x, kind, k, vs) == Next1(x, Put(WithVs(x.code, vs), [Admin(kind) EXCEPT !.k = k, !.vs0 = vs]))

LegacyBranch(x, in) ==
    LET vs == x.code.vs
        v == Last(vs)
        Fall(ws) == Next1(x, CodeConsume(WithVs(x.code, ws)))
    IN IF in.op = "br" THEN Jump(x, "breaking", in.x, vs)
       ELSE IF in.op = "return" THEN Jump(x, "returning", 0, vs)
       ELSE IF vs = <<>> THEN Halt(x, "crash")
       ELSE CASE in.op \in {"br_if", "br_table"} /\ IsRef(v) -> Halt(x, "confused")
              [] in.op = "br_if" /\ ~IsRef(v) ->
                    IF v.val # 0 THEN Jump(x, "breaking", in.x, Front(vs)) ELSE Fall(Front(vs))
              [] in.op = "br_table" /\ ~IsRef(v) ->
                    Jump(x, "breaking", IF v.val < Len(in.labels) THEN in.labels[v.val + 1] ELSE in.x, Front(vs))
              [] in.op = "br_on_null" ->
                    IF v = Null THEN Jump(x, "breaking", in.x, Front(vs)) ELSE Fall(vs)
              [] in.op = "br_on_non_null" ->
                    IF IsRef(v) /\ v # Null THEN Jump(x, "breaking", in.x, vs) ELSE Fall(Front(vs))

\* A block becomes a label around its body; a try_table a handler around one.
\* The rest of the block is skipped in the surrounding code when it is left,
\* unless the block was pushed back to the front as a loop's continuation.
LegacyBlock(p, x, in, pos) ==
    LET k == x.code
        ext == BlockExtent(p.funcs[k.fun].code, pos)
        isIf == in.op = "if"
        vs == IF isIf THEN Front(k.vs) ELSE k.vs
        n1 == ArityIn(p, x.inst, in.bt)
        n2 == ArityOut(p, x.inst, in.bt)
        from == IF ~isIf \/ Last(k.vs).val # 0 THEN pos + 1 ELSE IF ext.els # 0 THEN ext.els + 1 ELSE ext.end
        to == IF isIf /\ Last(k.vs).val # 0 /\ ext.els # 0 THEN ext.els - 1 ELSE ext.end - 1
        skip == IF k.front = <<>> THEN ext.end - pos ELSE 0
        label == [Admin("label") EXCEPT !.n = IF in.op = "loop" THEN n1 ELSE n2,
                                        !.contpos = IF in.op = "loop" THEN pos ELSE 0,
                                        !.skip = IF in.op = "try_table" THEN 0 ELSE skip,
                                        !.code = CodeRange(k.fun, from, to, TopOf(vs, n1))]
        handler == [Admin("handler") EXCEPT !.n = n2, !.skip = skip, !.catches = in.catches,
                                            !.code = Push(CodeRange(k.fun, 1, 0, <<>>), label)]
    IN IF ext.end = 0 \/ (isIf /\ k.vs = <<>>) THEN Halt(x, "crash")
       ELSE IF isIf /\ IsRef(Last(k.vs)) THEN Halt(x, "confused")
       ELSE IF Len(vs) < n1 THEN Halt(x, "crash")
       ELSE Next1(x, Put(WithVs(k, SubSeq(vs, 1, Len(vs) - n1)), IF in.op = "try_table" THEN handler ELSE label))

LegacyInvoke(x, tail, f) ==
    LET vs == x.code.vs
        rest == SubSeq(vs, 1, Len(vs) - f.pops)
    IN CASE f.status \in {"crash", "confused"} -> Halt(x, f.status)
         [] f.status = "trap" -> TrapNow(x, Front(vs))
         [] f.status = "run" ->
               Next1(x, Put(WithVs(x.code, rest),
                            IF tail THEN [Admin("retinv") EXCEPT !.fun = f.fun, !.vs0 = rest]
                            ELSE [Admin("invoke") EXCEPT !.fun = f.fun]))

LegacyCall(p, x, in) ==
    LegacyInvoke(x, in.op \in TailCalls, Callee(p, p.insts[x.inst], x.code.vs, x.st, in))

\* The height left by a throw without arguments is not initialised in the
\* code; nothing reads it, since the operands are discarded with the label.
LegacyThrow(p, x, in) ==
    LET vs == x.code.vs
        inst == p.insts[x.inst]
        n == Len(Params(inst.m, inst.m.tags[in.x]))
        Throwing(tag, args) == [Admin("throwing") EXCEPT !.tag = tag, !.vs0 = args]
        e == x.st.exns[Last(vs).val]
    IN IF in.op = "throw"
       THEN IF in.x \notin DOMAIN inst.tags \/ Len(vs) < n THEN Halt(x, "crash")
            ELSE Next1(x, Put(WithVs(x.code, SubSeq(vs, 1, Len(vs) - n)), Throwing(inst.tags[in.x], TopOf(vs, n))))
       ELSE IF vs = <<>> THEN Halt(x, "crash")
       ELSE IF ~IsRef(Last(vs)) \/ Last(vs) = Null THEN TrapNow(x, Front(vs))
       ELSE IF Last(vs).kind # "exn" THEN Halt(x, "crash")
       ELSE Next1(x, Put(WithVs(x.code, Front(vs)), Throwing(e.tag, e.args)))

\* A plain step that fails otherwise than by a trap leaves the state as it was.
LegacyAfter(x, r) ==
    LET y == [x EXCEPT !.code.vs = r.vs, !.locals = r.locals, !.st = r.st]
    IN CASE r.status = "run"  -> Next1(y, CodeConsume(y.code))
         [] r.status = "trap" -> TrapNow(y, r.vs)
         [] OTHER -> Halt(x, r.status)

LegacyPlain(p, x, pos) ==
    LET in == p.funcs[x.code.fun].code[pos]
        r0 == [status |-> "run", vs |-> x.code.vs, locals |-> x.locals, st |-> x.st]
    IN CASE in.op \in Openers -> LegacyBlock(p, x, in, pos)
         [] in.op \in {"br", "br_if", "br_table", "br_on_null", "br_on_non_null", "return"} -> LegacyBranch(x, in)
         [] in.op \in Calls \cup TailCalls -> LegacyCall(p, x, in)
         [] in.op \in {"throw", "throw_ref"} -> LegacyThrow(p, x, in)
         [] OTHER -> LegacyAfter(x, StepPlain(p.insts[x.inst], in, r0, x.nomem))

---------------------------------------------------------------------------
(* Administrative instructions; cur is the one at the head of the code *)

StepInvoke(p, x, cur) ==
    LET a == cur.fun
        n1 == ParamsN(p, a)
        vs == x.code.vs
        rest == SubSeq(vs, 1, Len(vs) - n1)
        frame == FrameFor(p, a, TopOf(vs, n1))
        body == [Admin("label") EXCEPT !.n = ResultsN(p, a),
                                       !.code = CodeRange(a, 1, Len(p.funcs[a].code), <<>>)]
    IN IF x.budget = 0 THEN Halt(x, "exhausted")
       ELSE IF Len(vs) < n1 THEN Halt(x, "crash")
       ELSE IF p.funcs[a].host
            THEN IF p.funcs[a].traps THEN TrapNow(x, rest)
                 ELSE Next1(x, CodeConsume(WithVs(x.code, rest \o p.funcs[a].out)))
       ELSE Next1(x, Put(WithVs(x.code, rest),
                         [Admin("frame") EXCEPT !.n = ResultsN(p, a), !.inst = frame.inst, !.locals = frame.locals,
                                                !.code = Push(CodeRange(a, 1, 0, <<>>), body)]))

\* cur has run to its end, or absorbed a jump with operands vs.
Leave(x, cur, vs) == Next1(x, Skip(CodeConsume(WithVs(x.code, x.code.vs \o vs)), cur.skip))

StepLabelJump(x, cur, h) ==
    IF h.kind = "breaking"
    THEN IF h.k # 0 THEN Next1(x, Put(x.code, [h EXCEPT !.k = @ - 1]))
         ELSE LET y == Leave(x, cur, Upto(h.vs0, cur.n))
              IN IF cur.contpos = 0 THEN y
                 ELSE Next1(y, Push(y.code, [Admin("plain") EXCEPT !.pos = cur.contpos]))
    ELSE Next1(x, Put(x.code, h))

StepFrameJump(p, x, cur, h) ==
    CASE h.kind = "returning" -> Leave(x, cur, Upto(h.vs0, cur.n))
      [] h.kind = "retinv" -> Next1(x, Put(WithVs(x.code, x.code.vs \o Upto(h.vs0, ParamsN(p, h.fun))),
                                           [Admin("invoke") EXCEPT !.fun = h.fun]))
      [] OTHER -> Next1(x, Put(x.code, h))

StepHandlerJump(p, x, cur, h) ==
    LET inst == p.insts[x.inst]
        ex == [tag |-> h.tag, args |-> h.vs0]
        ccs == SelectSeq(cur.catches, LAMBDA q : Catches(inst, q, ex))
        cc == Head(ccs)
        ref == cc.kind \in {"catch_ref", "catch_all_ref"}
        vs == x.code.vs \o Delivered(cc, ex, Len(x.st.exns) + 1)
        y == [x EXCEPT !.st.exns = IF ref THEN Append(@, ex) ELSE @]
    IN IF h.kind = "throwing" /\ ccs # <<>> THEN Jump(y, "breaking", cc.label, vs)
       ELSE Next1(x, Put(x.code, h))

RECURSIVE LegacyStep(_, _)

\* cur holds its own code, and a frame its own locals: the state in which that
\* code takes its step, and what the step makes of the state around it.
Inside(x, cur) ==
    IF cur.kind = "frame"
    THEN [x EXCEPT !.code = cur.code, !.inst = cur.inst, !.locals = cur.locals, !.budget = @ - 1]
    ELSE [x EXCEPT !.code = cur.code]

Outside(x, cur, sub) ==
    LET y == [x EXCEPT !.st = sub.st, !.status = sub.status]
        stepped == [cur EXCEPT !.code = sub.code]
    IN IF cur.kind = "frame" THEN Next1(y, Put(x.code, [stepped EXCEPT !.locals = sub.locals]))
       ELSE [Next1(y, Put(x.code, stepped)) EXCEPT !.locals = sub.locals]

StepInside(p, x, cur) == Outside(x, cur, LegacyStep(p, Inside(x, cur)))

LegacyStep(p, x) ==
    LET cur == CodeHead(x.code)
        h == CodeHead(cur.code)
    IN CASE cur.kind = "plain" -> LegacyPlain(p, x, cur.pos)
         [] cur.kind = "invoke" -> StepInvoke(p, x, cur)
         [] cur.kind \in {"label", "handler", "frame"} ->
               IF IsEmpty(cur.code) THEN Leave(x, cur, cur.code.vs)
               ELSE IF h.kind \notin Jumping THEN StepInside(p, x, cur)
               ELSE CASE cur.kind = "label" -> StepLabelJump(x, cur, h)
                      [] cur.kind = "frame" -> StepFrameJump(p, x, cur, h)
                      [] cur.kind = "handler" -> StepHandlerJump(p, x, cur, h)
         [] OTHER -> Halt(x, "crash")

\* External: the loop of the tests that drives the stepper, cut off after fuel steps.
RECURSIVE LegacyRun(_, _, _)
LegacyRun(p, x, fuel) ==
    IF x.status # "run" THEN x
    ELSE IF IsEmpty(x.code) THEN Halt(x, "ok")
    ELSE IF CodeHead(x.code).kind = "trap" THEN Halt(x, "trap")
    ELSE IF CodeHead(x.code).kind = "throwing" THEN Halt(x, "exception")
    ELSE IF fuel = 0 THEN x
    ELSE LegacyRun(p, LegacyStep(p, x), fuel - 1)

\* The stepper counts the outermost function against the budget.
LegacyInit(a, args, st, budget, nomem) ==
    [status |-> "run", code |-> Push(CodeRange(a, 1, 0, args), [Admin("invoke") EXCEPT !.fun = a]),
     inst |-> 0, locals |-> <<>>, st |-> st, budget |-> budget + 1, nomem |-> nomem]

LegacyTag(x) == CodeHead(x.code).tag
LegacyValues(x) == IF x.status = "exception" THEN CodeHead(x.code).vs0 ELSE x.code.vs
============================================================================
