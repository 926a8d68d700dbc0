-------------------------------- MODULE Hm89 -------------------------------
(***************************************************************************)
(* libhm89: the graph of types that unification links together, the        *)
(* environments of type schemes, generalisation and instantiation, called  *)
(* in any order an inference may call them.                                *)
(*                                                                         *)
(* A variable is a number and links to a type or to Unbound; constructor   *)
(* nodes never change, so they are trees. Pruning also shortens chains of  *)
(* links, which nothing but its speed depends on. A scheme has the set of  *)
(* its quantified variables and a body.                                    *)
(***************************************************************************)
EXTENDS Integers, Sequences, FiniteSets, SequencesExt

CONSTANTS
    Names,      \* the names an environment binds
    Consts,     \* the constructors without arguments
    MaxVars,    \* how many variables are made
    MaxPool,    \* how many types the client holds at a time
    MaxScopes,  \* how deep environments nest
    MaxOps      \* how many calls are made

VARIABLES
    graph,      \* the links of the variables, and whether memory ran out over an environment
    pool,       \* the types the client holds
    env,        \* the scopes, innermost last, each its bindings, latest first
    last        \* the last unification, and how many calls there were

vars == <<graph, pool, env, last>>

Unbound == [kind |-> "unbound"]
Var(v) == [kind |-> "var", id |-> v]
Con(name, args) == [kind |-> "con", name |-> name, args |-> args]

Vars == DOMAIN graph.link

---------------------------------------------------------------------------
(* Pruning and free variables *)

RECURSIVE Prune(_, _)
Prune(link, t) ==
    IF t.kind = "var" /\ link[t.id] # Unbound THEN Prune(link, link[t.id]) ELSE t

\* Mutant: only the top of the type is looked at.
OccursTop(link, v, t) ==
    LET p == Prune(link, t) IN p = Var(v) \/ (p.kind = "con" /\ \E i \in DOMAIN p.args : p.args[i] = Var(v))

RECURSIVE Occurs(_, _, _)
Occurs(link, v, t) ==
    LET p == Prune(link, t)
    IN p = Var(v) \/ (p.kind = "con" /\ \E i \in DOMAIN p.args : Occurs(link, v, p.args[i]))

TypeFtv(t) == {v \in Vars : Occurs(graph.link, v, t) /\ graph.link[v] = Unbound}

SchemeFtv(scheme) == TypeFtv(scheme.body) \ scheme.vars

\* The bindings of all scopes.
Bindings == UNION {ToSet(env[i]) : i \in DOMAIN env}

\* Mutant: only the innermost scope is looked at.
EnvFtvInner == UNION {SchemeFtv(b.scheme) : b \in ToSet(env[Len(env)])}

\* The free variables of an environment.
EnvFtv == UNION {SchemeFtv(b.scheme) : b \in Bindings}

\* What a set of variables ends up with: one that cannot be allocated is empty,
\* one that cannot grow drops the variable, and nobody is told.
Collected(vs) == SUBSET vs

---------------------------------------------------------------------------
(* Unification: the links it leaves, and whether it succeeded. The         *)
(* arguments before a mismatch stay linked.                                *)

BindVar(link, v, other) ==
    IF Occurs(link, v, other) THEN [ok |-> FALSE, link |-> link]
    ELSE [ok |-> TRUE, link |-> [link EXCEPT ![v] = other]]

RECURSIVE Unify(_, _, _)
RECURSIVE UnifyArgs(_, _, _, _)

\* Mutant: the arguments are compared with the links from before the first.
UnifyArgsStale(link, as, bs, i) ==
    IF i > Len(as) THEN [ok |-> TRUE, link |-> link]
    ELSE LET one == Unify(link, as[i], bs[i])
         IN IF one.ok /\ i < Len(as) THEN UnifyArgs(link, as, bs, i + 1) ELSE one

UnifyArgs(link, as, bs, i) ==
    IF i > Len(as) THEN [ok |-> TRUE, link |-> link]
    ELSE LET one == Unify(link, as[i], bs[i])
         IN IF one.ok THEN UnifyArgs(one.link, as, bs, i + 1) ELSE one

Unify(link, left, right) ==
    LET a == Prune(link, left) b == Prune(link, right)
    IN CASE a = b -> [ok |-> TRUE, link |-> link]
         [] a.kind = "var" -> BindVar(link, a.id, b)
         [] b.kind = "var" -> BindVar(link, b.id, a)
         [] a.name # b.name \/ Len(a.args) # Len(b.args) -> [ok |-> FALSE, link |-> link]
         [] OTHER -> UnifyArgs(link, a.args, b.args, 1)

---------------------------------------------------------------------------
(* Schemes *)

Mono(t) == [vars |-> {}, body |-> t]
Generalize(t, freeType, freeEnv) == [vars |-> freeType \ freeEnv, body |-> t]

\* The fresh variable of a quantified one: the k-th new variable for the k-th.
Fresh(scheme, v) == Var(Len(graph.link) + Cardinality({u \in scheme.vars : u <= v}))

RECURSIVE CloneType(_, _)
CloneType(scheme, t) ==
    LET p == Prune(graph.link, t)
    IN IF p.kind = "var" THEN (IF p.id \in scheme.vars THEN Fresh(scheme, p.id) ELSE p)
       ELSE Con(p.name, [i \in DOMAIN p.args |-> CloneType(scheme, p.args[i])])

\* A scheme without quantified variables is its own instance.
Instantiate(scheme) == IF scheme.vars = {} THEN scheme.body ELSE CloneType(scheme, scheme.body)

EnvLookup(name) ==
    LET at == {i \in DOMAIN env : \E k \in DOMAIN env[i] : env[i][k].name = name}
        scope == CHOOSE i \in at : \A j \in at : i >= j
        found == {k \in DOMAIN env[scope] : env[scope][k].name = name}
    IN env[scope][CHOOSE k \in found : \A j \in found : k <= j].scheme

Bound(name) == \E b \in Bindings : b.name = name

EnvBind(name, scheme) ==
    env' = [env EXCEPT ![Len(env)] = <<[name |-> name, scheme |-> scheme]>> \o @]

---------------------------------------------------------------------------
Init ==
    /\ graph = [link |-> <<>>, skipped |-> FALSE]
    /\ pool = <<>> /\ env = << <<>> >>
    /\ last = [kind |-> "none", ops |-> 0]

Call == last.ops < MaxOps
Other == last' = [kind |-> "none", ops |-> last.ops + 1]
Room == Len(pool) < MaxPool

TypeVar ==
    /\ Call /\ Room /\ Len(graph.link) < MaxVars
    /\ graph' = [graph EXCEPT !.link = Append(@, Unbound)]
    /\ pool' = Append(pool, Var(Len(graph.link) + 1))
    /\ Other /\ UNCHANGED env

\* A second copy of a type the client holds would say nothing new.
TypeConst ==
    /\ Call /\ Room
    /\ \E c \in Consts : Con(c, <<>>) \notin ToSet(pool) /\ pool' = Append(pool, Con(c, <<>>))
    /\ Other /\ UNCHANGED <<graph, env>>

TypeFun ==
    /\ Call /\ Room
    /\ \E i, j \in DOMAIN pool :
        LET fun == Con("->", <<pool[i], pool[j]>>) IN fun \notin ToSet(pool) /\ pool' = Append(pool, fun)
    /\ Other /\ UNCHANGED <<graph, env>>

UnifyTypes ==
    /\ Call
    /\ \E i, j \in DOMAIN pool :
        LET out == Unify(graph.link, pool[i], pool[j])
        IN /\ i # j
           /\ graph' = [graph EXCEPT !.link = out.link]
           /\ last' = [kind |-> "unify", ops |-> last.ops + 1, before |-> graph.link,
                       left |-> pool[i], right |-> pool[j], ok |-> out.ok]
    /\ UNCHANGED <<pool, env>>

\* The parameter of a function, say.
BindMono ==
    /\ Call
    /\ \E name \in Names, i \in DOMAIN pool : EnvBind(name, Mono(pool[i]))
    /\ Other /\ UNCHANGED <<graph, pool>>

\* A let: the client goes on with instances of the scheme, and lets go of the
\* types that have one of its variables. The free variables of the type and of
\* the environment are as many as memory could be had for.
BindGeneral ==
    /\ Call
    /\ \E name \in Names, i \in DOMAIN pool :
       \E freeType \in Collected(TypeFtv(pool[i])), freeEnv \in Collected(EnvFtv) :
        LET scheme == Generalize(pool[i], freeType, freeEnv)
        IN /\ EnvBind(name, scheme)
           /\ pool' = SelectSeq(pool, LAMBDA t : TypeFtv(t) \cap scheme.vars = {})
           /\ graph' = [graph EXCEPT !.skipped = @ \/ freeEnv # EnvFtv]
    /\ Other

UseName ==
    /\ Call /\ Room
    /\ \E name \in Names :
        /\ Bound(name)
        /\ LET scheme == EnvLookup(name)
           IN /\ Len(graph.link) + Cardinality(scheme.vars) <= MaxVars
              /\ pool' = Append(pool, Instantiate(scheme))
              /\ graph' = [graph EXCEPT !.link = @ \o [v \in 1..Cardinality(scheme.vars) |-> Unbound]]
    /\ Other /\ UNCHANGED env

\* libadt89's adt_pattern_types for a constructor with one field: its scheme's
\* instance is taken apart, its result unified with the scrutinee, and the
\* client gets the field's type.
PatternTypes ==
    /\ Call /\ Room
    /\ \E name \in Names, i \in DOMAIN pool :
        /\ Bound(name)
        /\ LET scheme == EnvLookup(name)
               link == graph.link \o [v \in 1..Cardinality(scheme.vars) |-> Unbound]
               ctor == Prune(link, Instantiate(scheme))
           IN /\ Len(link) <= MaxVars
              /\ ctor.kind = "con" /\ ctor.name = "->"
              /\ LET out == Unify(link, ctor.args[2], pool[i])
                 IN /\ graph' = [graph EXCEPT !.link = out.link]
                    /\ pool' = IF out.ok THEN Append(pool, Prune(out.link, ctor.args[1])) ELSE pool
                    /\ last' = [kind |-> "unify", ops |-> last.ops + 1, before |-> link,
                                left |-> ctor.args[2], right |-> pool[i], ok |-> out.ok]
    /\ UNCHANGED env

EnterScope ==
    /\ Call /\ Len(env) < MaxScopes
    /\ env' = Append(env, <<>>)
    /\ Other /\ UNCHANGED <<graph, pool>>

LeaveScope ==
    /\ Call /\ Len(env) > 1
    /\ env' = Front(env)
    /\ Other /\ UNCHANGED <<graph, pool>>

Next ==
    \/ TypeVar \/ TypeConst \/ TypeFun \/ UnifyTypes
    \/ BindMono \/ BindGeneral \/ UseName \/ PatternTypes \/ EnterScope \/ LeaveScope

Spec == Init /\ [][Next]_vars

---------------------------------------------------------------------------
(* Properties *)

\* The variables a link mentions, without following links.
RECURSIVE Mentions(_)
Mentions(t) ==
    CASE t.kind = "var" -> {t.id}
      [] t.kind = "con" -> UNION {Mentions(t.args[i]) : i \in DOMAIN t.args}
      [] OTHER -> {}

RECURSIVE Within(_, _)
Within(vs, n) == IF n = 0 THEN vs ELSE vs \cup Within(UNION {Mentions(graph.link[v]) : v \in vs}, n - 1)

\* No variable reaches itself through the links, whatever was unified, in
\* whatever order, and also where a unification failed half way.
LinksAcyclic == \A v \in Vars : v \notin Within(Mentions(graph.link[v]), Len(graph.link))

\* Ground types, and what a type is when the variables stand for them.
Ground ==
    LET flat == {Con(c, <<>>) : c \in Consts}
        step(ts) == flat \cup {Con("->", <<a, b>>) : a, b \in ts}
    IN step(step(flat))

RECURSIVE Subst(_, _)
Subst(sigma, t) ==
    IF t.kind = "var" THEN sigma[t.id] ELSE Con(t.name, [i \in DOMAIN t.args |-> Subst(sigma, t.args[i])])

Solves(sigma, link) == \A v \in DOMAIN link : link[v] # Unbound => sigma[v] = Subst(sigma, link[v])

\* Unification is exact: when it succeeds, the links admit the ground types
\* they admitted before and that make the two sides equal, and no others; when
\* it fails, there were none.
UnifyExact ==
    last.kind = "unify" =>
        \A sigma \in [Vars -> Ground] :
            (Solves(sigma, last.before) /\ Subst(sigma, last.left) = Subst(sigma, last.right))
            <=> (last.ok /\ Solves(sigma, graph.link))

\* A scheme stays what it was: no later unification reaches its quantified
\* variables, and no other binding has one of them free, also when the type's
\* own free variables were not all collected. It holds as long as none of an
\* environment's was passed over for want of memory.
SchemesClosed ==
    ~graph.skipped =>
        \A b \in Bindings :
            /\ \A v \in b.scheme.vars : graph.link[v] = Unbound
            /\ \A c \in Bindings : c # b => SchemeFtv(c.scheme) \cap b.scheme.vars = {}
============================================================================
