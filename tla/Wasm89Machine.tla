---------------------------- MODULE Wasm89Machine --------------------------
(***************************************************************************)
(* A module that is written instruction by instruction, validated and run: *)
(* the validator of Wasm89Validate, then the evaluator of Wasm89Iter, with *)
(* the reference stepper of Wasm89Legacy at its side.                      *)
(*                                                                         *)
(* A theme gives the module all but one of its functions, the pieces the   *)
(* missing one is made of and its length, and the instances and the store. *)
(***************************************************************************)
EXTENDS Wasm89Legacy

CONSTANTS Themes,      \* the sequence of themes
          Budgets,     \* the call budgets a run may start with
          Fuel,        \* the most steps of the reference stepper
          MaxOperands, \* the most operands of a configuration that is run on
          MaxExns      \* the most exceptions in a store that is run on

VARIABLES theme, \* which one
          code,  \* the body written so far
          run,   \* the evaluator's configuration
          ref    \* what the reference stepper makes of the same call

wvars == <<theme, code, run, ref>>

T == Themes[theme]
NotRun == [status |-> "none"]

\* The program with the given body; the missing function has address 1.
ProgramOf(body) == [insts |-> T.insts, funcs |-> [T.funcs EXCEPT ![1].code = body]]

---------------------------------------------------------------------------
(* Writing a body *)

\* The blocks that are still open, outermost first: "else" for an arm that is one.
RECURSIVE OpenBlocks(_, _)
OpenBlocks(body, open) ==
    IF body = <<>> THEN open
    ELSE LET op == Head(body).op
         IN OpenBlocks(Tail(body),
                       CASE op \in Openers -> Append(open, op)
                         [] op = "else" -> Append(Front(open), op)
                         [] op = "end" -> Front(open)
                         [] OTHER -> open)

WellNested(body) ==
    \A j \in DOMAIN body : body[j].op \in Closers =>
        LET open == OpenBlocks(SubSeq(body, 1, j - 1), <<>>)
        IN open # <<>> /\ (body[j].op = "else" => Last(open) = "if")

Op(op) == CHOOSE in \in T.basic : in.op = op

\* A body can still become valid iff it is valid with its rest unreachable.
Completion(body) ==
    LET open == OpenBlocks(body, <<>>)
        Close(o) == (IF o = "if" THEN <<Op("else"), Op("unreachable")>> ELSE <<>>) \o <<Op("end"), Op("unreachable")>>
    IN body \o <<Op("unreachable")>> \o FlattenSeq([j \in DOMAIN open |-> Close(open[Len(open) - j + 1])])

Closed(body) == body \o [j \in DOMAIN OpenBlocks(body, <<>>) |-> Op("end")]

Valid(body) == CheckFuncBody(T.insts[1].m, [locals |-> T.funcs[1].locals, code |-> body], T.funcs[1].typeidx)

Init == theme \in DOMAIN Themes /\ code = <<>> /\ run = NotRun /\ ref = NotRun

Emit(piece) ==
    LET body == code \o piece
    IN /\ run = NotRun
       /\ Len(body) <= T.max
       /\ WellNested(body) /\ Valid(Completion(body))
       /\ code' = body
       /\ UNCHANGED <<theme, run, ref>>

---------------------------------------------------------------------------
(* Running it *)

\* What the reference stepper makes of a call, together with the call.
RefOf(x, a, budget, nomem) ==
    [status |-> x.status, vs |-> LegacyValues(x), tag |-> LegacyTag(x), st |-> x.st,
     fun |-> a, budget |-> budget, nomem |-> nomem]

Invoke(a, args, budget, nomem) ==
    LET body == Closed(code)
        p == ProgramOf(body)
    IN /\ run = NotRun /\ Valid(body)
       /\ code' = body
       /\ run' = IterInit(p, a, args, T.st, budget)
       /\ ref' = RefOf(LegacyRun(p, LegacyInit(a, args, T.st, budget, nomem), Fuel), a, budget, nomem)
       /\ UNCHANGED theme

Step ==
    /\ run.status = "run"
    /\ Len(run.vs) <= MaxOperands /\ Len(run.st.exns) <= MaxExns
    /\ run' = IterStep(ProgramOf(code), run, ref.nomem)
    /\ UNCHANGED <<theme, code, ref>>

Next ==
    \/ \E j \in DOMAIN T.pieces : Emit(T.pieces[j])
    \/ \E e \in T.entries, b \in Budgets, nomem \in T.nomem : Invoke(e.fun, e.args, b, nomem)
    \/ Step

---------------------------------------------------------------------------
(* Properties *)

Ran == run.status \notin {"none", "run"}
Regular == "met" \in DOMAIN run /\ run.met = {}

\* A value v may stand where type t is declared in the first module.
HasType(v, t) ==
    CASE t.num # "ref" -> v.kind = "num"
      [] t.num = "ref" -> \/ v.kind = "null" /\ t.nullable
                          \/ v.kind = "exn" /\ t.abs = "exn"
                          \/ /\ v.kind = "func"
                             /\ t.abs = "func" \/ IndirectOk(ProgramOf(code), T.insts[1], v.val, t.idx)

\* Validation is sound: no run of a validated body underflows, branches to a
\* label that is not there, reads an unset local or a number as a reference,
\* and one that ends well leaves the declared results and nothing else, each
\* of its type, unless it met one of the deviations.
ValidatedRunsSafe ==
    Ran /\ Regular =>
        /\ run.status \notin {"crash", "confused"}
        /\ run.status = "ok" =>
              LET rs == FuncFt(ProgramOf(code), ref.fun).results
              IN /\ Len(run.vs) = Len(rs)
                 /\ \A j \in DOMAIN rs : HasType(run.vs[j], rs[j])

\* The evaluator computes what the reference stepper computes: the same end,
\* the same results or exception and the same store, unless it met a deviation.
\* (The stepper charges a host call that has no budget left; the evaluator does not.)
EvaluatorAgrees ==
    Ran /\ Regular /\ ref.status \notin {"run", "exhausted"} =>
        /\ run.status = ref.status
        /\ run.status = "ok" => run.vs = ref.vs
        /\ run.status = "exception" => run.vs = ref.vs /\ run.tag = ref.tag
        /\ run.st = ref.st

\* The budget counts the open functions besides the outermost one, whatever
\* calls, tail calls, returns, branches and exceptions came before.
BudgetBalanced ==
    run.status \in {"run", "ok"} /\ Regular =>
        run.budget + Cardinality({j \in DOMAIN run.lv : run.lv[j].kind = "func" /\ j # 1}) = ref.budget

\* No level starts above one that was opened after it, nor above the operands.
LevelsNested ==
    run.status = "run" /\ Regular =>
        /\ \A j \in 2 .. Len(run.lv) : run.lv[j - 1].base <= run.lv[j].base
        /\ Last(run.lv).base <= Len(run.vs)
============================================================================
