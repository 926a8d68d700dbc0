-------------------------------- MODULE Dl89 -------------------------------
(***************************************************************************)
(* libdl89: semi-naive evaluation of Datalog over a store of the caller's. *)
(* A fact is a pair <<relation, tuple>>.  A term is a constant or a        *)
(* variable; compiling a rule gives its variables slots.                   *)
(*                                                                         *)
(* The store is external.  A scan delivers in any order all the matching   *)
(* tuples that were there when it was opened, and any of those inserted    *)
(* since; every call of it, and every allocation, may fail.                *)
(***************************************************************************)
EXTENDS Integers, Sequences, SequencesExt, FiniteSets

CONSTANTS Consts,    \* the constants of the programs
          Rules,     \* the rules a caller adds
          Facts,     \* the facts a caller adds
          MaxRules,  \* the most rules of a program
          MaxRuns,   \* the most runs of an evaluator
          MaxFaults  \* the most calls that fail

VARIABLES program, \* rules, their compiled form, arities; added: the facts added so far
          store,   \* the facts in the store
          run,     \* the run in progress, or how the last one ended
          count    \* of runs and of faults so far

dvars == <<program, store, run, count>>

---------------------------------------------------------------------------
(* Rules: dl89_rule_check and dl89_crule_compile *)

Atoms(rule) == <<rule.head>> \o rule.body
VarsOf(atom) == {t.var : t \in {u \in Range(atom.terms) : u.kind = "var"}}

RegistryFind(arities, rel) == {a \in Range(arities) : a.rel = rel}

CheckRuleArities(rule) ==
    \A a, b \in Range(Atoms(rule)) : a.rel = b.rel => Len(a.terms) = Len(b.terms)

CheckRuleRegistry(arities, rule) ==
    \A a \in Range(Atoms(rule)) : \A e \in RegistryFind(arities, a.rel) : e.arity = Len(a.terms)

CheckHeadSafety(rule) == VarsOf(rule.head) \subseteq UNION {VarsOf(a) : a \in Range(rule.body)}

RuleCheck(arities, rule) == CheckRuleArities(rule) /\ CheckRuleRegistry(arities, rule) /\ CheckHeadSafety(rule)

\* The variables in the order of their slots: of their first occurrence, head first.
Slots(rule) ==
    FoldLeft(LAMBDA ids, t : IF t.kind = "const" \/ t.var \in Range(ids) THEN ids ELSE Append(ids, t.var),
             <<>>, FlattenSeq([k \in DOMAIN Atoms(rule) |-> Atoms(rule)[k].terms]))

CopyTerms(ids, atom) ==
    [rel |-> atom.rel,
     terms |-> [p \in DOMAIN atom.terms |->
                   LET t == atom.terms[p]
                   IN IF t.kind = "const" THEN [kind |-> "const", val |-> t.val, slot |-> 0]
                      ELSE [kind |-> "var", val |-> 0, slot |-> CHOOSE s \in DOMAIN ids : ids[s] = t.var]]]

\* 0 in a slot stands for whatever the allocation or an earlier join left there.
CruleCompile(rule) ==
    LET ids == Slots(rule)
    IN [head |-> CopyTerms(ids, rule.head), body |-> [b \in DOMAIN rule.body |-> CopyTerms(ids, rule.body[b])],
        env |-> [s \in DOMAIN ids |-> 0]]

\* Mutant: the arities registered for a rule that is not installed stay.
RuleInstallNoRollback(p, rule, failed) ==
    LET RegisterAtom(as, a) == IF RegistryFind(as, a.rel) = {} THEN Append(as, [rel |-> a.rel, arity |-> Len(a.terms)]) ELSE as
        registered == [p EXCEPT !.arities = FoldLeft(RegisterAtom, @, Atoms(rule))]
    IN IF ~RuleCheck(p.arities, rule) THEN p
       ELSE IF failed THEN registered
       ELSE [registered EXCEPT !.rules = Append(@, rule), !.compiled = Append(@, CruleCompile(rule))]

\* The rule is installed whole, or the registry is truncated to what it was.
RuleInstall(p, rule, failed) ==
    LET RegisterAtom(as, a) == IF RegistryFind(as, a.rel) = {} THEN Append(as, [rel |-> a.rel, arity |-> Len(a.terms)]) ELSE as
        registered == [p EXCEPT !.arities = FoldLeft(RegisterAtom, @, Atoms(rule))]
    IN IF ~RuleCheck(p.arities, rule) THEN p
       ELSE IF failed THEN [registered EXCEPT !.arities = SubSeq(@, 1, Len(p.arities))]
       ELSE [registered EXCEPT !.rules = Append(@, rule), !.compiled = Append(@, CruleCompile(rule))]

AddFact(p, fact, failed) ==
    LET found == RegistryFind(p.arities, fact[1])
    IN IF (\E e \in found : e.arity # Len(fact[2])) \/ failed THEN p
       ELSE [p EXCEPT !.arities = IF found = {} THEN Append(@, [rel |-> fact[1], arity |-> Len(fact[2])]) ELSE @,
                      !.added = @ \cup {fact}]

---------------------------------------------------------------------------
(* The join.  A run q has its phase and status st, the store db, the rounds' *)
(* tables delta and next, the joins todo of the round, the rule and the      *)
(* delta position of the current join (0 for none), its slots env and bound, *)
(* a frame for each body atom under way, and the number of open scans.       *)

Rule(q) == q.compiled[q.rule]
Atom(q) == Rule(q).body[Len(q.stack)]
Fail(q, st) == [q EXCEPT !.st = st]

\* The constants and bound slots of an atom, by position.
BuildBindings(q, atom) ==
    LET Known(t) == t.kind = "const" \/ t.slot \in q.bound
        at == {p \in DOMAIN atom.terms : Known(atom.terms[p])}
    IN [p \in at |-> IF atom.terms[p].kind = "const" THEN atom.terms[p].val ELSE q.env[atom.terms[p].slot]]

\* External: what a scan with these bindings can deliver now.
Matching(db, atom, bindings) ==
    {f[2] : f \in {g \in db : /\ g[1] = atom.rel /\ Len(g[2]) = Len(atom.terms)
                              /\ \A p \in DOMAIN bindings : g[2][p] = bindings[p]}}

\* Mutant: a repeated variable takes its last value.
UnifyPositionLast(u, term, val) ==
    CASE u.ok /\ term.kind = "const" -> [u EXCEPT !.ok = val = term.val]
      [] u.ok /\ term.kind = "var"   -> [u EXCEPT !.env[term.slot] = val, !.log = @ \cup ({term.slot} \ u.bound), !.bound = @ \cup {term.slot}]
      [] OTHER -> u

\* Unify one position: u has ok, env, bound and the slots log bound by this tuple.
UnifyPosition(u, term, val) ==
    CASE u.ok /\ term.kind = "const" -> [u EXCEPT !.ok = val = term.val]
      [] u.ok /\ term.kind = "var" /\ term.slot \in u.bound -> [u EXCEPT !.ok = u.env[term.slot] = val]
      [] u.ok /\ term.kind = "var" /\ term.slot \notin u.bound ->
            [u EXCEPT !.env[term.slot] = val, !.bound = @ \cup {term.slot}, !.log = @ \cup {term.slot}]
      [] OTHER -> u

UnifyTuple(q, tuple) ==
    FoldLeft(LAMBDA u, p : UnifyPosition(u, Atom(q).terms[p], tuple[p]),
             [ok |-> TRUE, env |-> q.env, bound |-> q.bound, log |-> {}], [p \in DOMAIN tuple |-> p])

Unbind(q, log) == [q EXCEPT !.bound = @ \ log]

\* The first round records into the delta itself.
DeltaRecord(q, fact, fault) ==
    IF fault = "nomem" THEN Fail(q, "ENOMEM")
    ELSE IF q.round = 0 THEN [q EXCEPT !.delta = Append(@, fact)]
    ELSE [q EXCEPT !.next = Append(@, fact)]

EmitHead(q, fault) ==
    LET tuple == [p \in DOMAIN Rule(q).head.terms |->
                     LET t == Rule(q).head.terms[p] IN IF t.kind = "const" THEN t.val ELSE q.env[t.slot]]
        fact == <<Rule(q).head.rel, tuple>>
        inserted == [q EXCEPT !.db = @ \cup {fact}]
    IN IF fault = "insert" THEN Fail(q, "ESTORE")
       ELSE IF fact \in q.db THEN q
       ELSE DeltaRecord(inserted, fact, fault)

OpenScan(q, atom, fault) ==
    LET bindings == BuildBindings(q, atom)
        frame == [kind |-> "scan", bindings |-> bindings, must |-> Matching(q.db, atom, bindings),
                  seen |-> {}, at |-> 0, log |-> {}]
    IN IF fault = "open" THEN Fail(q, "ESTORE")
       ELSE [q EXCEPT !.stack = Append(@, frame), !.open = @ + 1]

\* eval_body at the depth below the frames.
EvalBody(q, fault) ==
    LET depth == Len(q.stack) + 1
    IN IF depth > Len(Rule(q).body) THEN EmitHead(q, fault)
       ELSE IF depth = q.pos
       THEN [q EXCEPT !.stack = Append(@, [kind |-> "delta", bindings |-> <<>>, must |-> {}, seen |-> {}, at |-> 0, log |-> {}])]
       ELSE OpenScan(q, Rule(q).body[depth], fault)

\* What eval_body returned is followed by unbind, at the depth it was called from.
Returned(q) ==
    LET top == Len(q.stack)
    IN IF top = 0 THEN q
       ELSE Unbind([q EXCEPT !.stack[top].log = {}], q.stack[top].log)

\* Mutant: a scan is not closed when the join below it failed.
LeaveOpen(q) ==
    LET f == Last(q.stack)
    IN Returned([q EXCEPT !.stack = Front(@), !.open = IF f.kind = "scan" /\ q.st = "OK" THEN @ - 1 ELSE @])

\* The end of scan_atom and delta_atom, after the last tuple or a failure.
Leave(q) ==
    LET f == Last(q.stack)
    IN Returned([q EXCEPT !.stack = Front(@), !.open = IF f.kind = "scan" THEN @ - 1 ELSE @])

\* Mutant: a tuple that did not match keeps the slots it bound before.
OneTupleLeaky(q, tuple, fault) ==
    LET u == UnifyTuple(q, tuple)
        v == [q EXCEPT !.env = u.env, !.bound = u.bound]
        w == EvalBody([v EXCEPT !.stack[Len(q.stack)].log = u.log], fault)
    IN IF ~u.ok THEN v
       ELSE IF Len(w.stack) > Len(q.stack) THEN w
       ELSE Returned(w)

\* One tuple of the innermost frame; below a full match a deeper frame may open.
OneTuple(q, tuple, fault) ==
    LET u == UnifyTuple(q, tuple)
        v == [q EXCEPT !.env = u.env, !.bound = u.bound]
        w == EvalBody([v EXCEPT !.stack[Len(q.stack)].log = u.log], fault)
    IN IF ~u.ok THEN Unbind(v, u.log)
       ELSE IF Len(w.stack) > Len(q.stack) THEN w
       ELSE Returned(w)

ScanOne(q, tuple, fault) == OneTuple([q EXCEPT !.stack[Len(q.stack)].seen = @ \cup {tuple}], tuple, fault)

DeltaFind(table, atom) ==
    SelectSeq(table, LAMBDA f : f[1] = atom.rel /\ Len(f[2]) = Len(atom.terms))

DeltaStep(q, fault) ==
    LET at == Last(q.stack).at + 1
    IN OneTuple([q EXCEPT !.stack[Len(q.stack)].at = at], DeltaFind(q.delta, Atom(q))[at][2], fault)

---------------------------------------------------------------------------
(* The rounds *)

RelationIsIdb(q, rel) == \E r \in DOMAIN q.compiled : q.compiled[r].head.rel = rel

JoinRule(q, r, pos, fault) ==
    EvalBody([q EXCEPT !.rule = r, !.pos = pos, !.env = q.compiled[r].env, !.bound = {}], fault)

\* Mutant: only the first body position of a rule is read from the delta.
RunVariantFirst(q, fault) ==
    LET r == q.todo[1][1] pos == q.todo[1][2] atom == q.compiled[r].body[pos]
        popped == [q EXCEPT !.todo = Tail(@)]
    IN IF pos = 0 THEN JoinRule(popped, r, 0, fault)
       ELSE IF pos > 1 \/ ~RelationIsIdb(q, atom.rel) \/ DeltaFind(q.delta, atom) = <<>> THEN popped
       ELSE JoinRule(popped, r, pos, fault)

RunVariant(q, fault) ==
    LET r == q.todo[1][1] pos == q.todo[1][2] atom == q.compiled[r].body[pos]
        popped == [q EXCEPT !.todo = Tail(@)]
    IN IF pos = 0 THEN JoinRule(popped, r, 0, fault)
       ELSE IF ~RelationIsIdb(q, atom.rel) \/ DeltaFind(q.delta, atom) = <<>> THEN popped
       ELSE JoinRule(popped, r, pos, fault)

\* After a round its new facts become the delta.
FixpointStep(q) ==
    IF q.round = 0 THEN q ELSE [q EXCEPT !.delta = q.next, !.next = <<>>]

RunRound(q) ==
    [q EXCEPT !.round = 1,
              !.todo = FlattenSeq([r \in DOMAIN q.compiled |-> [b \in DOMAIN q.compiled[r].body |-> <<r, b>>]])]

---------------------------------------------------------------------------
(* The caller *)

NoRun == [phase |-> "idle", st |-> "none", open |-> 0]
Faults(kinds) == {"none"} \cup IF count.faults < MaxFaults THEN kinds ELSE {}
Counted(fault) == count' = [count EXCEPT !.faults = IF fault = "none" THEN @ ELSE @ + 1]

Init ==
    /\ program = [rules |-> <<>>, compiled |-> <<>>, arities |-> <<>>, added |-> {}]
    /\ store = {}
    /\ run = NoRun
    /\ count = [runs |-> 0, faults |-> 0]

EvalAddRule(rule) ==
    /\ run.phase = "idle" /\ Len(program.rules) < MaxRules /\ rule \notin Range(program.rules)
    /\ \E fault \in Faults({"nomem"}) :
          program' = RuleInstall(program, rule, fault = "nomem") /\ Counted(fault)
    /\ run' = NoRun
    /\ UNCHANGED store

EvalAddFact(fact) ==
    /\ run.phase = "idle"
    /\ \E fault \in Faults({"insert"}) :
          /\ program' = AddFact(program, fact, fault = "insert") /\ Counted(fault)
          /\ store' = IF fact \in program'.added THEN store \cup {fact} ELSE store
    /\ run' = NoRun

EvalRun ==
    /\ run.phase = "idle" /\ count.runs < MaxRuns
    /\ run' = [phase |-> "running", st |-> "OK", db |-> store, compiled |-> program.compiled, delta |-> <<>>, next |-> <<>>,
               round |-> 0, todo |-> [r \in DOMAIN program.rules |-> <<r, 0>>], rule |-> 0, pos |-> 0,
               env |-> <<>>, bound |-> {}, stack |-> <<>>, open |-> 0]
    /\ count' = [count EXCEPT !.runs = @ + 1]
    /\ UNCHANGED <<program, store>>

Becomes(q) == run' = q /\ store' = q.db /\ UNCHANGED program

Steps(q, fault) ==
    IF q.stack = <<>> THEN {RunVariant(q, fault)}
    ELSE IF Last(q.stack).kind = "delta" THEN {DeltaStep(q, fault)}
    ELSE IF fault = "next" THEN {Fail(q, "ESTORE")}
    ELSE {ScanOne(q, t, fault) : t \in Matching(q.db, Atom(q), Last(q.stack).bindings) \ Last(q.stack).seen}

\* The innermost frame has delivered its last tuple.
Exhausted(q) ==
    LET f == Last(q.stack)
    IN IF f.kind = "scan" THEN f.must \subseteq f.seen ELSE f.at = Len(DeltaFind(q.delta, Atom(q)))

Join ==
    /\ run.phase = "running" /\ run.st = "OK"
    /\ IF run.stack = <<>> THEN run.todo # <<>> ELSE Last(run.stack).kind = "delta" => ~Exhausted(run)
    /\ \E fault \in Faults({"next", "open", "insert", "nomem"}) : \E q \in Steps(run, fault) :
          /\ fault = "none" \/ q.st # "OK"
          /\ Becomes(q) /\ Counted(fault)

LeaveAtom ==
    /\ run.phase = "running" /\ run.stack # <<>>
    /\ run.st # "OK" \/ Exhausted(run)
    /\ Becomes(Leave(run))
    /\ UNCHANGED count

EndOfRound ==
    /\ run.phase = "running" /\ run.stack = <<>>
    /\ run.st = "OK" /\ run.todo = <<>>
    /\ LET q == FixpointStep(run)
       IN run' = IF q.delta = <<>> THEN [NoRun EXCEPT !.st = "OK"] ELSE RunRound(q)
    /\ UNCHANGED <<program, store, count>>

Abort ==
    /\ run.phase = "running" /\ run.stack = <<>> /\ run.st # "OK"
    /\ run' = [NoRun EXCEPT !.st = run.st, !.open = run.open]
    /\ UNCHANGED <<program, store, count>>

Next ==
    \/ \E rule \in Rules : EvalAddRule(rule)
    \/ \E fact \in Facts : EvalAddFact(fact)
    \/ EvalRun \/ Join \/ LeaveAtom \/ EndOfRound \/ Abort

---------------------------------------------------------------------------
(* Properties *)

\* What the rules derive from a set of facts in one step, by substitution.
Consequences(S) ==
    LET Ground(a, s) == <<a.rel, [p \in DOMAIN a.terms |-> IF a.terms[p].kind = "const" THEN a.terms[p].val ELSE s[a.terms[p].var]]>>
        Of(rule) == {Ground(rule.head, s) : s \in {t \in [UNION {VarsOf(a) : a \in Range(Atoms(rule))} -> Consts] :
                                                    \A a \in Range(rule.body) : Ground(a, t) \in S}}
    IN UNION {Of(rule) : rule \in Range(program.rules)}

RECURSIVE Closure(_)
Closure(S) == LET T == S \cup Consequences(S) IN IF T = S THEN S ELSE Closure(T)

\* When a run is over the store holds nothing but the least fixed point of the
\* program over the facts that were added, and all of it if the run ended well:
\* also after runs that failed half way, in whatever order the scans deliver
\* tuples, and whether or not they deliver the ones inserted meanwhile.
LeastFixedPoint ==
    run.phase = "idle" =>
        LET lfp == Closure(program.added) IN store \subseteq lfp /\ (run.st = "OK" => store = lfp)

\* Between two rounds, whatever follows in one step from the facts older than the
\* delta is in the store already: the variants of a round may leave them out.
DeltaCoversNew ==
    run.phase = "running" /\ run.st = "OK" /\ run.stack = <<>> /\ run.todo = <<>> =>
        LET new == IF run.round = 0 THEN run.delta ELSE run.next
        IN Consequences(store \ Range(new)) \subseteq store /\ IsInjective(new)

\* A join binds exactly the variables of the atoms above the one it is at: what a
\* tuple bound is undone, whether it matched, failed to, or a call below it failed.
BindingsExact ==
    run.phase = "running" =>
        /\ run.stack = <<>> => run.bound = {}
        /\ \A d \in DOMAIN run.stack :
              LET above == {t.slot : t \in {u \in UNION {Range(Rule(run).body[b].terms) : b \in 1 .. d - 1} : u.kind = "var"}}
              IN /\ d = Len(run.stack) => run.bound = above
                 /\ run.stack[d].log \cap above = {}

\* Every scan that was opened is closed by the time the run returns, also when it fails.
ScansClosed ==
    IF run.phase = "idle" THEN run.open = 0
    ELSE run.open = Cardinality({d \in DOMAIN run.stack : run.stack[d].kind = "scan"})

\* The registry has the arity of each relation in an installed rule or an added
\* fact and no other, whatever was rejected or failed half way.
RegistryExact ==
    /\ {[rel |-> a.rel, arity |-> Len(a.terms)] : a \in UNION {Range(Atoms(r)) : r \in Range(program.rules)}}
         \cup {[rel |-> f[1], arity |-> Len(f[2])] : f \in program.added} = Range(program.arities)
    /\ IsInjective([k \in DOMAIN program.arities |-> program.arities[k].rel])
============================================================================
