# Verification of eightynine

This directory holds TLA+ models of the `eightynine` repository, a collection
of strict C89 libraries. The models are translated from the C source; specs,
headers and tests are quoted only for what the program promises. Modelled are
**libraft89** (consensus), **libledger89** (a durable log), **libcat89** (finite
categories), **wasm89** (a WebAssembly engine), **libdl89** (Datalog), **libhm89**
(type inference) and **libadt89** (datatypes and pattern matching).

## 1. Inventory

### libraft89 (`src/libraft89`)

| Part | State | Operations | Hard behaviour |
|---|---|---|---|
| Action queue, `raft89_action.c` | `has_action`, `action`, `step`, `faulted` | `raft89_next_action`, `raft89_action_done`, `raft89__resume` | every handler is cut into steps at its actions; a stale `step` resumes the wrong continuation |
| Elections, `raft89_election.c`, `raft89_timer.c` | `role`, `current_term`, `voted_for`, `votes`, `leader_id`, clocks | `raft89_tick`, RequestVote and its response | duplicated, late and lost votes; crash between vote and reply; even memberships |
| Follower, `raft89_replication.c` | the `ae_*` stash, `pending_entries`, `last_log_*` | AppendEntries | conflicting and longer logs, reordered requests, truncation cut by a crash |
| Leader, `raft89_leader.c` | `next_index`, `match_index`, `peer_cursor` | `raft89_propose(v)`, AppendEntries responses, heartbeats | Figure 8 commits, stale responses, batching limits |
| Commit and apply, `raft89_log.c` | `commit_index`, `applied_index`, `after_apply`, `apply_buffer` | advance, apply one, acknowledge one | many entries per advance, allocation failure in the middle |
| Lifecycle, `raft89_node.c`, `raft89_config.c` | everything above | `raft89_create`, `raft89_status_get` | restart over a partially written store, application checkpoint |
| Messages, `raft89_message.c`, `raft89_u64.c` | none | build, validate | 64-bit edges |
| Host (`examples/host_loop.c`, `test/support/crash_oracle.c`, `fake_app.c`) | hard state, log, application | execute and acknowledge actions | crash before, during and after an effect |

The parts interact by calls within one node; nodes interact only through
messages their hosts carry, and node and host through the action queue and the
store's read callbacks. What makes them correct is section 14 of
`spec/raft89-spec.md` (I01 to I20): one leader per term, durable votes and
acknowledgements before they are sent, matching logs, no committed entry lost,
ordered positions, in-order application, and termination of action chains.

### libledger89 (`src/libledger89`)

| Part | State | Operations | Hard behaviour |
|---|---|---|---|
| Handle, `ledger89.c`, `ledger89_segment.c`, `ledger89_truncate.c` | parts, active part, ends, revision, poisoned | append, sync, rotate, truncate, prune, close | a crash or a failing call between any two file system calls |
| Manifests, `ledger89_manifest.c` | generation, `CURRENT` | publish, collect orphans | atomic replacement by rename; next free file id |
| Recovery and reading, `ledger89_recover.c`, `ledger89_read.c` | the directory | open, create, read, verify | torn tails, half-made structural changes |
| Formats and files, `ledger89_format.c`, `ledger89_file.c` | files, name table | the `led89_io` calls | what fsync of a file and of the directory makes durable |

Correct means: after any failure the ledger opens again with a log that is cut
at or above what it acknowledged as stable, of the old or of the new structure.

### libcat89 (`src/libcat89`)

| Part | State | Operations | Hard behaviour |
|---|---|---|---|
| Finite categories, `finite.c`, `check.c` | builder, store | set rows, build, validate, exhaustive check | incomplete, duplicated and contradicting rows |
| Finders, `find.c`, `findlim.c`, `limit.c` | census of a category | eight limit and colimit finders, factoring | a mediator is counted, never looked for; colimits are a second copy |
| Derived categories and structures, `slice.c`, `comma.c`, `nat.c`, ... | references to what they are made of | constructors, composition, whiskering | `compose` does not test what the constructors test |
| Ownership, `core.c` and every constructor | reference counts | retain, release, any failing step | some twenty exits per finder; morphisms are released through their category |

### wasm89 (`src/wasm89`)

| Part | State | Operations | Hard behaviour |
|---|---|---|---|
| Types and linking, `validate.c`, end of `eval.c` | type environments | canonical equality, subtyping, import matching | recursive groups; two copies of the algorithms |
| Validation, `validate.c` | abstract operand stack, labels, index spaces | one check per instruction and per module field | polymorphic stacks after branches |
| Evaluators, `eval.c` | operands, levels, frames, store, budget | the iterative evaluator and the reference stepper | branches, tail calls and exceptions across levels |
| Numerics, `numeric.c` | none | integer and float instructions | wrap-around, signs, ties, NaNs, signed zeros |
| Instantiation, `instantiate.c` | store, registry | instantiate, register, call an export | failure after functions were published in shared tables |

### libdl89, libhm89, libadt89

| Part | State | Operations | Hard behaviour |
|---|---|---|---|
| `libdl89` | rules, arities, deltas, open scans, bindings | add a rule or a fact, run | inserts during scans, delta rounds, half-failed runs |
| `libhm89` | links of variables, environments | make types, unify, bind, generalise, instantiate | failed unifications, missing memory in free-variable sets |
| `libadt89` | types, constructors, clauses | declare, seal, bind, build patterns, ask | recursive types, rows lost for want of memory |

libadt89 builds on libhm89: its constructors become schemes in an environment,
and the typing of a pattern (`adt_pattern_types`) unifies. The other libraries
do not call one another. libledger89 is meant as a store for libraft89's host;
the repository has that adapter only among its tests.

### The rest

`libfsm89`, `libjrpc89`, `libsyntax89` and `libfx89` are small sequential cores;
`libbpf`, `librepl89`, `llm89`, `libj89`, `libstr89`, `libu89`, `libcksum89` and
`libbwt89` are an interpreter, terminal or network I/O, parsers and functions on
bytes. `PROJECT.json` gives the reason why each is left out.

## 2. Modules

| Module | Models | Uses |
|---|---|---|
| `Raft89Data` | constants, messages, actions, entries, 64-bit edges, quorum, log freshness, validation | community modules |
| `Raft89Core` | the variables; action queue, fault latch, commit and apply, step-down | `Raft89Data` |
| `Raft89Leader` | `raft89_leader.c` | `Raft89Core` |
| `Raft89Election` | `raft89_election.c`, timeouts | `Raft89Leader` (a winner broadcasts) |
| `Raft89Replication` | `raft89_replication.c` | `Raft89Core` |
| `Raft89Node` | one node and its host: `raft89_recv`, `raft89_tick`, `raft89_propose(v)`, `raft89_action_done`, `raft89_create`; effects and partial effects | `Raft89Election`, `Raft89Replication` |
| `Raft89Cluster` | the nodes, the network, crashes; `Init`, `Next`, `Spec`, `FairSpec`, `TypeOK` | `Raft89Node` |
| `AtomicBroadcast` | abstract specification: what a replicated log promises its applications | |
| `Raft89Safety` | the properties, the refinement mapping | `Raft89Cluster`, `AtomicBroadcast` |
| `Raft89History` | the past of a cluster: the inductive invariant of its safety | `Raft89Safety` |
| `Raft89Past` | the cluster that carries its past along | `Raft89History` |
| `Raft89NodeProof` | theorems on votes and elections; on one node: types, positions, caches | `Raft89Safety` |
| `Raft89HistoryProof`, `Raft89SafetyProof` | theorems on steps: how the past is handed on; on logs, acknowledgements, applications, the refinement | `Raft89History`, `Raft89Past`, `Raft89NodeProof` |
| `MCRaft89`, `MCRaft89History` | instances for TLC; one that carries the past along | `Raft89History`, `Raft89Past` |
| `Ledger89Disk` | files, name tables, fsync, power loss | |
| `Ledger89Scan` | what files say, recovery's reading of them, record look-up | `Ledger89Disk` |
| `DurableLog` | abstract specification: what a ledger promises its application | |
| `Ledger89` | the handle: every operation as a plan of file system calls; the properties | `Ledger89Scan`, `DurableLog` |
| `Ledger89DiskProof`, `Ledger89CallProof`, `Ledger89PlanProof`, `Ledger89Proof` | theorems on parts, power loss and recovery; lemmas on plans, call by call; theorems of the specification | `Ledger89`, each on the one before |
| `MCLedger89` | instances for TLC | `Ledger89` |
| `Cat89Finite` | builder, validation, store, law checks; the finders and their reference definitions | |
| `Cat89Wrap` | derived categories, functors, transformations, isomorphisms, split pairs | `Cat89Finite` |
| `Cat89`, `Cat89Struct` | a client of the finite backend; a client that composes structures | `Cat89Wrap` |
| `Cat89Refs` | reference counts; constructors, finder calls and the exhaustive check step by step | |
| `Cat89Proof` | theorems on categories, finders and derived categories; on the clients | `Cat89`, `Cat89Struct` |
| `Wasm89Types` | recursive groups, canonical equality, subtyping, type sections | |
| `Wasm89Linking` | two modules whose sections grow group by group and are linked | `Wasm89Types` |
| `Wasm89Validate` | validation of a body | `Wasm89Types` |
| `Wasm89Num`, `Wasm89NumCalls` | numeric operations; their calls against reference definitions | |
| `Wasm89Plain` | instructions that neither branch nor call | `Wasm89Validate`, `Wasm89Num` |
| `Wasm89Iter`, `Wasm89Legacy` | the iterative evaluator; the reference stepper | `Wasm89Plain` |
| `Wasm89Machine` | a body written piece by piece, validated and run by both | `Wasm89Legacy` |
| `Wasm89Instantiate` | validation of a module; store, registry, instantiation | `Wasm89Iter` |
| `MCWasm89` | the pieces, modules and stores that are tried | `Wasm89Iter` |
| `Dl89` | semi-naive evaluation; rules and facts | |
| `Hm89` | unification graph, schemes, environments, pattern typing | |
| `Adt89` | declarations, patterns, match analysis | |
| `MCLibraries` | the libraries that do not interact: libcat89's client, the others as instances over shared variables; what each starts from | the above |

### libraft89: how state and actions correspond to the code

Each variable is a field of `struct raft89`, per member, with its name in
camel case; `hard`, `log` and `app` are the durable state the host owns, and
`msgs` is the network. `votes` is the set behind `votes[]` and
`votes_granted`; `ae` is the record of the `ae_*` fields; `pending` is
`pending_entries`; `action` is `NoAction` when `has_action` is zero. A log is a
sequence of `[term, cmd]`: the index of an entry is its position. Payloads are
model values with a size (`CmdSize`), which is all the code looks at: it
matters for the byte limit and for whether an allocation is needed at all.

The public calls are the actions. `Receive`, `Timeout` and `ClientRequest` need
an idle, unfaulted node (`Ready`). `Done` is the host executing the outstanding
action *and* acknowledging it: only the node itself reads its durable state, so
nothing can observe the point in between, except a crash. `CrashRestart`
therefore offers every partial effect the crash contract allows (none, all, a
prefix of an append, a truncation cut short, the packet of a SEND sent or not)
and then creates the node again, with any checkpoint the application may have
reported. `Fatal` is an acknowledgement with `RAFT89_ACTION_FATAL`.

A handler is an action predicate on one node. Handlers called from `Done` run
after the host effect and after `raft89__apply_hard_state`, so they read
`log'` and `currentTerm'`; the parameter `s` is the value of `step` on entry,
because an early return in the code leaves `step` as it is. That detail is what
the finding `nomem_order` rests on.

Environment failures are chosen by the constant `Faults`: `"nomem"` (an
allocation fails; zero-size payloads need none), `"store"` (a read callback
fails, which latches the fault), `"fatal"`. A read outside the durable log
fails whatever `Faults` is.

Abstracted: clocks (a tick is modelled when it crosses its timeout), action ids
and the fault after `ULONG_MAX` actions, buffers and their lifetime, return
codes. Calls that are refused without any change (busy, faulted, invalid
envelope, oversized batch) are no steps. Three branches of the code cannot be
reached from any public call and have no counterpart: an append of zero
entries in `ae_emit_append`, `leader_after_append` without pending entries, and
`STEP_AE_REPLY` in `raft89__resume`.

### libledger89

An operation computes its *plan*, the list of file system calls and assignments
its C function makes, and `Io` makes the next one. A call may fail (and then does
what its error path does, usually poisoning the handle), and power may be lost
between any two: of every file some prefix of what was written after the last
fsync survives, with a torn last item, and the name table is any one since the
last fsync of the directory. A file is a sequence of encoded structures; a
checksum is modelled by what it detects, a torn item. `mode` is the state of the
handle, `h` its fields. Opening is itself a sequence of steps that may be cut.

### The other libraries

A sequential library is modelled as a client that makes its public calls in any
order: the variables are the library's state and the answer of the last call,
and an answer is compared with a definition that does not know the algorithm
(all cones, all values, all ground substitutions, the least fixed point, sets of
bits). Where the code can fail in the middle (allocations, callbacks, scans),
the failing point is chosen. `Cat89Refs` and `Dl89` go step by step, because
there the client's callbacks, and failures, come between the steps.

In `Wasm89Machine` a body grows piece by piece as long as it can still become
valid, is closed, validated and run; the reference stepper runs on the same body.
`met`, a history variable no step reads, names the places where the evaluator
deviates from the reference (section 6); the properties that compare or count
hold of the runs that met none.

## 3. Runs

| Run | Instance | Shows |
|---|---|---|
| `replication` | star of 3, 2 rival leaders, 2 terms, the common voter crashes at any point | `TypeOK`, `ElectionSafety`, `VoteStable`, `AppliedDurable`, `ProgressMonotone`, `ImplementsBroadcast` |
| `figure8` | started in the state of Figure 8 of the Raft paper, 4 terms, with the past of the cluster as two more variables | `ElectableComplete`, `CacheCoherent`, `HistorySound` |
| `repair` | mesh of 3, started with two conflicting suffixes or with a follower longer than its leader, under `FairSpec` | `LogMatching`, `StoreContract`, `IndexOrder`, `AckBarrier`, `LeaderAppendOnly`, `ChainTerminates`, `CommittedIsApplied` |
| `faults` | a pair with rival logs; reads and allocations fail, hosts answer FATAL | `VoteBarrier`, `ApplyContract` |
| `solo` | 1 node, batches, empty payloads, every fault, up to `IndexMax` | `StoreContract` |
| `ledger` | an empty directory or two parts; 3 operations, 2 failures (calls, allocations, power) | `LedgerTypeOK`, `AlwaysRecovers`, `ReadsAreExact`, `WritesAtEnd`, `VerifyFindsNothing`, `ImplementsDurableLog`, `PublishedImmutable` |
| `libraries` | libcat89, wasm89, libdl89, libhm89, libadt89 | 14 invariants, below |
| `nomem_order`, `stale_response`, `ledger_nomem`, `ledger_reopen`, `adt_ends` | violations | section 6 |

What the invariants of `libraries` say; the parts are named in the modules:

* libcat89. `ValidationExact`: validation accepts exactly the lawful builders.
  `FindersExact`: a finder finds a universal cone if there is one
  (`FinderExact`), which factors every other (`FactorTotal`), and colimits are
  limits of the opposite (`Duality`). `DerivedLawful`: derived categories are
  categories. `StructuresLawful`: composites obey the laws
  (`CompositesLawful`, `Interchange`). `CatOwnershipExact`: whichever step of a
  constructor, of a limit finder or of the exhaustive check of a category fails,
  nothing is used after its release and nothing leaks (`NothingDeadTouched`,
  `CountsExact`); the second release of a morphism in the census of that check
  (section 6) is turned away by the category, as in the code.
* wasm89. `WasmTypesExact`: type equality is equality of the infinite expansions
  and subtyping a preorder (`CanonExact`, `MatchSound`); linking agrees with both
  types standing in one module, and an accepted import is safe on both sides
  (`LinkAgrees`, `ImportSound`). `WasmNumericsExact`. `WasmValidatedRunsSafe`:
  validation is sound for the evaluator, whose operand heights and call budget
  stay right (`ValidatedRunsSafe`, `LevelsNested`, `BudgetBalanced`).
  `WasmEvaluatorAgrees`: the two evaluators agree. `WasmStoreSound`: what
  instantiation leaves behind (`StoreTyped`, `ReachableWhole`,
  `FailureContained`).
* libdl89. `DlRunsExact`: the least fixed point, also after failed runs
  (`LeastFixedPoint`, `DeltaCoversNew`), and what the joins leave
  (`BindingsExact`, `ScansClosed`, `RegistryExact`).
* libhm89. `HmInferenceSound`: `LinksAcyclic`, `UnifyExact` (against all ground
  substitutions of two levels), `SchemesClosed`.
* libadt89. `AdtAnalysisExact`: `ExhaustiveExact`, `RedundantExact` (against all
  values of bounded depth), `FailureConservative`. `AdtNamesResolve`.

`libraries` and the ledger runs do not check for deadlock: a client may stop
calling.

### Bounds

*libraft89.* Messages stay in `msgs` for ever, so each can be delivered late,
again, out of order or never: no bound on their number is needed. A 64-bit
counter is replaced by `TermMax` and `IndexMax`, with the code's behaviour at the
limit, which makes the state space finite. The environment is bounded by
constants of `Raft89Cluster`: who may time out (`Electors`, `Beaters`), who may
crash (`Restarters`; a faulted node may always be restarted), which nodes are
connected (`Links`), how long proposals may make a log (`MaxLog`) and how many
nodes may be in the middle of a chain of actions at once (`MaxBusy`). Nodes share
nothing but the messages already sent, and messages are never removed, so steps
of chains of different nodes commute and with `MaxBusy = 1` a chain still meets
every history of messages; crashes still cut it anywhere. The runs use 1, the
proofs any value. Two rival leaders need two terms and one common voter, the
star; a commit rule that counts old entries needs four terms, which `figure8`
reaches by starting where the third begins; conflict hints, truncation below a
longer suffix and clamped commit indices need logs of three entries of different
terms, which `repair` starts with. The boot states are durable states a run of
the program leaves behind when all nodes crash (their histories are in the
comments of `MCRaft89`). Larger and even memberships, longer logs and any number
of terms and leaders are the subject of the theorems (section 4).

*libledger89.* `MaxOps` operations and `MaxFails` failures from two directories,
one of them with a sealed and an active part, so that a truncation can split
either and a pruning can drop one; parts are rotated after two records. Three
operations let a structural change follow an unsynced append and be followed by
another operation; the violations need four.

*libcat89.* Categories of up to four objects; the builders a client can reach
from complete ones by a few missing or wrong rows.

*wasm89.* Widths are scaled so that every operand can be tried: a byte has one
bit, i32 has 4 bits, i64 has 8, a page has four bytes; memories and tables have
32-bit (4-bit) addresses. Floats are quarters with a sign, infinities and a NaN.
Bodies have 3 to 7 pieces of twelve themes (control, nesting, calls, exceptions,
memory, tables, stray operands, ...), type sections 3 types and 4 when linked,
stores 3 instances of nine modules. `Fuel` bounds the reference stepper,
`MaxOperands` and `MaxExns` cut off loops.

*libdl89.* Two constants, three rules, two runs, one failure: a transitive
closure with its cycle needs two delta rounds. *libhm89.* Three variables, four
types at hand, six calls, two scopes. *libadt89.* Two types, one recursive and
one with a parameter, two constructors each, two clauses of depth two; the
allocation that fails, if one does, is the 5th, 6th, 8th or 11th of an analysis.

Every property of a passing run, and every part of the invariants of
`libraries`, has a mutant in `PROJECT.json`: an operator (marked *Mutant* in its
module) that changes the model as a plausible bug would, under which the property
is violated.

### Fairness

`FairSpec` of libraft89 assumes weak fairness of `Done(i)` and nothing else: the
host loop (`drain` in `examples/host_loop.c`) executes and acknowledges actions
until there is none. Delivery, timeouts and elections are never assumed to
happen, so no liveness of elections is claimed: the code relies on random
timeouts for that. No other run assumes fairness.

### Refinement

`AtomicBroadcast` has one variable, what each application has received, and one
action: a member receives the next entry, the same one any other member has at
that place. `Raft89Safety` instantiates it with `delivered <- app`;
`ImplementsBroadcast` says that every step of the cluster, restarts and replays
included, is such a step or leaves the applications alone.

`DurableLog` has the log an application knows, what the structural operation in
progress makes of it, and whether the ledger is open. `ImplementsDurableLog` maps
the application's view of `Ledger89` to it: a failure cuts the log at or above
its stable end, and a truncation or a pruning happens entirely or not at all,
wherever in its sequence of file system calls it was interrupted.

## 4. Proofs

Every safety property that the runs check of libraft89, of libcat89's finite
categories and structures and of libledger89 is a theorem, and so are the two
refinements. `PROJECT.json` lists the theorems.

### Elections

`Raft89NodeProof` proves, for every membership, every limit, every boot
state and every choice of faults and bounds:

* `VoteBarrierHolds`: `Spec => []VoteBarrier`;
* `VoteStableHolds`: `Spec => VoteStable`;
* `ElectionSafetyHolds`: `Spec => []ElectionSafety`;
* `VoteInvariance`: the inductive invariant behind them.

`ElectionSafety` alone is not inductive: nothing in it says that the votes a
leader counts were cast. `VoteInv` adds, for each node, what the outstanding
action and the continuation have to do with the durable hard state: a
HARD_STATE action only moves forward (`Forward`), a granted vote about to be
sent is already durable (`Backed`), a reply waiting in `pending_msg` belongs to
the HARD_STATE action outstanding (`Waiting`), only the candidate that started
an election continues it (`Electing`), every vote in a tally has a granted
response on the network (`Supported`) and a leader has a quorum (`Elected`); for
the network, that granted votes are durable votes (`VoteBarrier`) and that a
member grants one vote per term (`OneVote`). Two quorums meet in a member
(`QuorumsMeet`, by cardinalities), which granted one vote only: hence one
leader. The replication handlers enter only through the fact that they are
*calm*, neither granting votes nor touching an election, so the proof does not
depend on the log at all. A crash is the interesting case: `CrashForward` shows
that whatever part of a HARD_STATE action was done, the reloaded state is
consistent with every vote ever sent.

### One node

`Raft89NodeProof` proves further, for every membership, limit, boot state and bound, and
every choice of faults without `"nomem"`:

* `TypeCorrect`: `Spec => []TypeOK`;
* `IndexOrderHolds`: `Spec => []IndexOrder`;
* `CacheCoherentHolds`: `Spec => []CacheCoherent`;
* `NodesInvariance`: the inductive invariant behind them.

The hypothesis `"nomem" \notin Faults` is needed: with it `IndexOrder` is false
(run `nomem_order`, section 6).

None of the three is inductive. Whether the cached end of the log is right after
an acknowledgement depends on what the outstanding action will do to the log and
on what the continuation then computes from the stashed request. `LocalInv` says
how they fit: an append starts at the end of the log and stays within the index
type, a truncation starts above the commit index, an apply is the next one
(`ActionFits`); each type of action has few continuations (`StepsOf`), and when
one runs, the request it reads is still stashed, its offset is where the
truncation starts and its end is where the append ends (`StepFits`). Even
`TypeOK` needs this: the reply of `raft89__ae_send_reply` is typed only if the
stash still names a leader.

A handler is described by how each group of variables may move and by how it
ends: faulted, idle or with one of the actions, one lemma each (`EndsFault`,
`EndsIdle`, `EndsSend`, ...). `Done` first establishes what the host's effect
makes of the log (`HostEffects`) and then goes through the continuations;
`RestartKeeps` does the same for the partial effects of a crash, where only the
durable state and the checkpoint survive. `Ordered` and `ActionFits` are claimed of
faulted nodes too, because a crash may still perform their outstanding action.

### Logs and applications

`Raft89HistoryProof` and `Raft89SafetyProof` prove, for every membership, limit
and bound, every choice of faults without `"nomem"` and every boot state that has
a past (`BootHistory`):

* `LeaderAppendOnlyHolds`, `ProgressMonotoneHolds` (these two from every boot
  state): what a step never does to a leader's log and to positions;
* `LogMatchingHolds`, `AckBarrierHolds`, `StoreContractHolds`,
  `ApplyContractHolds`, `AppliedDurableHolds`, `ElectableCompleteHolds`: the
  invariants of the log, its acknowledgement, its host and its application;
* `ImplementsBroadcastHolds`: `Spec => ImplementsBroadcast`, the refinement;
* `SafeInvariance`: the inductive invariant behind them;
* `HistorySoundHolds`: the same of a cluster that carries its past along.

None of these is inductive, and no predicate on what the nodes hold now is: why
a leader may count an entry as committed depends on who acknowledged it, in a
term that may be long over, and on the logs of leaders that may have crashed
since. `Raft89History` therefore speaks of a *past*, two values no node keeps:
`L[u]`, the log of the leader of term `u` as it was last, and `A`, the
acknowledgements `<<i, u, k>>` (while its durable term was `u`, node `i` held at
`k` an entry created in `u`). `SafeInv` says that the state is in accordance with
some past: `Past` the durable state, `NodeSound` each node, `MessageSound` each
message ever sent.

* `LeaderLogs`, `LogsAgree`: up to any of its entries a log is the log of the
  leader that created it; log matching follows.
* `AcksKept`: what a node acknowledged it still holds, unless a quorum is past
  that term without having acknowledged it, so that it can no longer be chosen
  (`Lost`). A leader truncates only such entries of a follower.
* `LeadersComplete`: every leader holds what an earlier one may have got chosen.
  This is where the commit rule matters, which counts only entries of the
  current term.
* `AppsCommitted`: an application has received committed entries only.
* `MessageSound`: a request is cut out of its leader's log, with a commit index
  that is right; a success response stands for acknowledgements; a granted vote
  goes to a log at least as fresh as what its sender acknowledged (`VoteSound`).
* `NodeSound` says what the stashed request, the outstanding action, the
  positions of each node and the tally of a candidate have to do with the past.

A step of node `i` hands the past on: `NextLogs`, `NewAcks` say what it adds
(only the log of a node that leads, only entries `i` now holds in its term).
`Raft89HistoryProof` shows once that a step which does certain things to the
durable state (`Hands`) keeps `Past`, and that messages and the nodes which did
not move stay in accordance. `Raft89SafetyProof` then goes through the handlers,
the continuations of `Done` and the partial effects of a crash, and shows that
each leaves its own node in accordance (`Fine`), from what that hands it
(`Ground`).

`BootHistory` says of a boot state that it is one the program can leave behind.
A cluster that was never started satisfies it (`NeverStartedHistory`), and so do
the boot states of the runs: `BootLogs` and `BootAcks` give their pasts, and TLC
evaluates that these are pasts (`KnownHistory`) at the start of every run.
`Raft89Past` carries the two values along as variables, so that the run
`figure8` can check the invariant itself, `HistorySound`, without a quantifier
over pasts, through the history in which they matter; `HistorySoundHolds` proves
it from `KnownHistory`. With `"nomem"` some of the properties are false
(`nomem_order`).

### Finite categories

`Cat89Proof` proves, for the builders and budgets of any
boot state and every sequence of calls of a client:

* `ValidationExactHolds`: `cat89_builder_build` and the exhaustive check of
  `check.c`, which look at different tables, accept the same builders;
* `FindersExactHolds`: in every finite category a finder returns the first
  universal cone of its diagram, or NOT_FOUND when there is none; every other
  cone factors through it; colimit finders are limit finders of the opposite;
* `DerivedLawfulHolds`: opposite, slices, coslices, square, arrow category and
  preorder of a validated category are categories;
* `CatInvariance`: the inductive invariant behind them.

A finder never looks at the uniqueness of a mediator: it compares the number of
cones with the size of a hom-set and looks for some mediator to each cone.
`CountedOnce` is why this is right: a function between finite sets of the same
size that hits everything hits everything once. The colimit half is a second
copy of the code in C; the proof maps it to the limits of the opposite category
(`OppositeCategory`, `FindCoproductExact`, ...) instead of repeating the
argument. A derived category is given by tables over pairs or triples of
morphisms, and `TablesLawful` says which facts about them make it a category.
`CatInv` says that a client's builder is typed, that a category in hand was
validated (`Built`), and that the answer of the last call is what its function
returns on it (`AnswerOk`); the properties follow from what is known of the
functions. The only assumption is `BootsTyped`: the builders a client starts
with hold references to what they were given.

`Cat89Proof` also proves of a client that composes structures over a validated
category, however long it goes on:

* `StructInvariance`: every functor, natural transformation, isomorphism, split
  pair and path it arrives at is one by the textbook's definition (`Endo`,
  `Natural`, `Retract`, `Path`);
* `StructuresLawfulHolds`: each of them passes the check of `check.c` for it
  (`FunctorChecked`, `NaturalityChecked` and `PairsChecked` show that the checks
  are the definitions), and whiskering and vertical composition interchange.

None of the constructors tests a law, and the proof is why none need: naturality
squares are pasted side by side (`VerticalNatural`), kept by a functor
(`WhiskerLeftNatural`) or taken at images (`WhiskerRightNatural`), and
interchange is the square of one transformation at the components of the other;
what undoes a composite undoes its parts in the opposite order
(`UndoneComposed`). `StructInv` keeps more than `StructuresLawful` says: that a
pair runs back and forth between the same objects, without which its composites
need not be defined. The assumption is `BuildersTyped`, as above; the bound
`MaxPath` plays no part.

### libledger89

`Ledger89DiskProof`, `Ledger89CallProof`, `Ledger89PlanProof` and
`Ledger89Proof`, each upon the one before, prove, for any records, batches, size
of parts, number of parts, operations and failures, and for the faults
`FaultsHandled` names (calls that fail, allocations that fail and poison the
handle; power may fail at any point):

* `LedgerAlwaysRecovers`: no failure leaves a directory that opening refuses;
* `LedgerIsDurable`: `Spec => ImplementsDurableLog`, the refinement: wherever an
  operation was interrupted, the log found afterwards is one `DurableLog`
  allows;
* `LedgerStableSurvives`: what an open handle reported below its stable end is
  found again by the next one;
* `LedgerPublishedImmutable`: the parts the durable CURRENT leads to only grow;
* `LedgerReadsExactly`, `LedgerWritesAtEnd`, `LedgerVerifies`, `LedgerTypes`:
  what is read is what was appended, by a poisoned handle too; writes continue
  the active part; `verify` finds nothing; types and bounds;
* `LedgerStaysSound`: the inductive invariant behind them;
* `PowerLossKeepsLogs`, `RecoveryIsExact`: the two facts about a directory
  alone.

The properties speak of what is on the disk now; the invariant has to speak of
what may be found. `Leads(F, d, s)` says that from the files `F` and the name
table `d` recovery finds the log `s`, `Safe` that *every* table since the last
fsync of the directory, any of which a power loss may leave, leads to one of the
logs the application would accept, `Closed` that this still holds of what a
power loss left. The heart is `GoodActive`: the last marker of the active part
belongs to its revision and all before it is well formed, for the content in
memory and the durable one; `ActiveCut` finds in it the cut of the log that
recovery will report.

`todo` is the rest of a plan, as long as the operation makes it, so no formula
over the files alone is inductive while an operation is under way. A *world* is
the state without the plan. `StepOK(c, v, w)` says that call `c` may be made in
world `v` and leads to `w`: the directory is safe before, after, when the call
fails and when it is half done, and what the application is told is what
`DurableLog` allows. `Sound(v, p)` says that the plan `p` goes through such
steps to a good ledger (`Good`: handle, files and log agree). It is defined by a
set of pairs of a world and a plan that is closed under steps, which needs no
induction over the plan: `LedgerInv` says that the world is steady and that
`todo` is sound from it, and a step of the system takes one call off it
(`NextKeeps`). What remains is that every operation starts with a sound plan,
one lemma each:

* sync and append (`Ledger89CallProof`): the active part is written behind its
  last marker; a marker follows the fsync of what it covers (`Firms`);
* rotate and the removal of files (`Ledger89CallProof`), prune
  (`Ledger89PlanProof`): the new files are complete and durable before a
  manifest names them, and `PublishVia` shows once that writing the manifest,
  syncing, renaming CURRENT and syncing again leaves the old ledger or the new
  one at any point; only files that no table names any more are removed, and
  their removal may fail;
* truncate (`Ledger89PlanProof`, `Ledger89Proof`): the batches below the cut are
  copied one by one (`Builds`), the copy is sealed, an empty part created, the
  handle rebuilt in memory in between (`Reshapes`), the manifest published;
* opening (`Ledger89Proof`): recovery of a crashed directory trims the active
  part to its last marker, or opens it read-only; creating, for an empty one.

A plan of unknown length (copies, removals) is followed by induction on the
number of calls made or left (`Ending`, `CopiesFollow`), with the set of numbers
for which the statement holds in place of an operator (`Induction`). The scans,
the directory of batches and the binary search are recursive functions; their
values are followed item by item (`ExpectedStep`, `EntriesStep`, `DirFindIs`).

`FaultsHandled` leaves out the three faults that the code does not survive:
`"publish"` and `"reopen"` are the findings `ledger_nomem` and `ledger_reopen`,
and `"list"` is the directory listing that fails unnoticed (section 6).
`BootAssumption` says of a directory a run starts from that its ledger was
closed with every record stable, that each file's durable content is a prefix of
the one in memory and that its tables lead to its log; an empty directory
satisfies it, and TLC evaluates it for the others. That no sealed part is empty
(`GoodSealed`) is part of what a log on disk is: rotation refuses to seal an
empty part, truncation copies only from parts that begin below the cut, and the
proof of each operation shows it.

### Assumptions

`ServerAssumption`, `PeersAssumption`, `LimitAssumption`, `BootAssumption` (an
application has applied no more than its log holds, which fits the index type),
`BatchAssumption` (a proposal is not empty: `raft89_proposev` refuses one that
is) and the others of `Raft89Data` and `Raft89Cluster` where typing needs them;
TLC evaluates all of them on every run.

## 5. Only model-checked, and not modelled

Only model-checked: in libraft89 liveness (`ChainTerminates`,
`CommittedIsApplied`), which the proof system does not handle, and the
properties when allocations may fail; in libcat89 `CatOwnershipExact`; wasm89,
libdl89, libhm89 and libadt89, whose models rest on recursive operators (what a
recursive definition computes for every input is out of the prover's reach).
`IndexOrder`, `CacheCoherent` and `StoreContract` do not hold when allocations
may fail (section 6), so they are checked without `"nomem"` (in `solo`, where no
request is ever received, with it).

Properties that hold under a condition name it in their definition: the wasm89
ones of runs that met no deviation, `SchemesClosed` while no free variable was
passed over for want of memory, the libadt89 ones for sealed types and patterns
without a constructor below a type parameter. The conditions are findings of
section 6. So `SchemesClosed` does not catch what happens to a scheme once memory
has failed over the environment's variables; under-generalisation for want of
memory, which the model has too, is covered.

Not modelled: time and randomness, the action counter of libraft89 and memory
management; iterators of libledger89, which only read; vector instructions, the
binary decoder, host functions and the shell of wasm89; printing of types; the
libraries under *The rest* in section 1.

## 6. Findings

* **`nomem_order`** (code). A follower appends entries, then cannot allocate the
  buffer for the first apply. `ae_finish` has already cleared the pending
  entries, the commit index has already advanced, and `step` is still
  `AE_APPEND`. The next call that emits an action without setting `step`, an
  immediate vote reply, is acknowledged into `raft89__ae_after_append`, which
  computes the end of the log from the cleared entries: `last_log_index` falls
  back to `ae_prev_index`, below `commit_index`. The header promises
  `applied_index <= commit_index <= last_log_index`, the spec (section 12) that
  an allocation failure leaves the previous state intact.
* **`stale_response`** (spec and code). A delayed rejection of the current term
  moves `next_index` to or below `match_index` and triggers a resend, although
  the spec (section 9) says a stale response never changes replication state.
  `match_index` is untouched and safety is not affected.
* **`ledger_nomem`** (code). `led89_publish_manifest` returns `LEDGER89_ENOMEM`
  for its descriptors without poisoning the handle, although the truncation or
  pruning that called it has already rebuilt the parts in memory. Later appends
  go to a part no manifest names; records that were synced are gone after the
  next opening.
* **`ledger_reopen`** (code and spec). Recovery reports the end it reads as
  `stable_end` and syncs nothing unless it trims. When the process, not the
  power, failed between a write and its fsync, what it read was not durable, and
  a power loss afterwards takes records below the reported stable end.
* **`adt_ends`** (code). The match analysis expands a wildcard into all
  constructors of its type whether or not any clause has a constructor in that
  column. Over a recursive type, in clauses that differ in a later column
  (`pair(_, zero)`, `pair(_, succ(_))`), it never returns.

Seen while modelling, without a run of their own:

* libledger89. When a truncation has moved the directory entries and then cannot
  allocate its list of obsolete parts (`ledger89_truncate.c:504`-`514`), the
  poisoned handle looks in the old parts at the places of the new one. If the
  lengths of the records coincide, a read returns another record.
  `.agent/design/0002-durability-contract.md:61` says that reads may still be
  attempted. `ReadsAreExact` leaves that window out; the next opening is not
  affected.
* libledger89. When the directory cannot be listed on opening
  (`ledger89_manifest.c:264`-`268`), opening succeeds with `next_file_id` zero: the
  next parts are numbered from 0 and created over the files the manifest names.
  With `"list"` in `Faults` and four operations TLC finds `PublishedImmutable` and
  `AlwaysRecovers` violated.
* libraft89. Section 13 of the spec says a restart yields `commit_index = 0` and
  `applied_index = 0`; `raft89__recover_applied` sets both to the host's
  checkpoint. Section 12 says that a term increment at the maximum faults the
  instance; `raft89__start_election` returns `RAFT89_ERR_LIMIT` and leaves the
  node as it was. Section 12 also says that index overflow faults before any
  wrap; in `clamp_next` the limit `last_log_index + 1` wraps to zero at a leader
  whose log is full, so a rejection sets `next_index` to zero.
* wasm89, iterative evaluator (the names are those of `met` where the model
  records them). A function without results hands over all operands above its
  base (`eval.c:6203`), so `return` leaves strays among its caller's; a tail call
  leaves the operands below its arguments, and one from the outermost frame into
  another instance seems to keep its own instance; a catch whose label is a loop leaves
  the loop; a catch to the label of a called function restores the budget twice,
  and its `_ref` forms fail there. 64-bit table indices are cut to 32 bits, and
  64-bit effective addresses and segment ends wrap.
* wasm89, elsewhere. `field_canon_eq` does not compare mutability; a type that
  names itself as its supertype makes subtyping run for ever; `select` over an
  operand that is itself unknown is refused; more than 512 types in one
  instruction are dropped; the stepper's `throw` reads an uninitialised base on
  one path.
* libadt89. A constructor below a field whose type is a parameter is ignored by
  the analysis: `some(zero)` alone is called exhaustive, and `some(_)` after it
  redundant. A field of a type that is not sealed yet is analysed with the
  constructors it has so far. `adt_match_redundant` with no clauses writes the
  first mark.
* libhm89. When the set of a scheme's free variables cannot be allocated,
  `hm_i_scheme_ftv` returns without a word, and when a set cannot grow
  `hm_i_set_add` drops the variable; `hm_generalize` then quantifies variables
  the environment still uses.
* libcat89. When the vector of domains or of codomains cannot grow,
  `exc_fill_step` (`check.c:1146`-`1162`) releases a morphism that the vector of
  morphisms already holds, and `exc_fill_abort` releases it once more; the
  sweeps over isomorphisms, split morphisms and functors use the same census.
  `cat89_mor_release` asks the category first whether it owns the morphism, and
  the backends of the repository, which make a new handle for every morphism they
  enumerate, look for the pointer among their live handles: the freed one is
  not touched. Without that test (`ReleaseUnasked`) TLC finds `NothingDeadTouched`
  violated, and a backend that enumerates further references to handles in use
  would lose one of theirs.

## 7. Plan

Done: libraft89 with its refinement, libledger89 with its refinement and libcat89's
categories and composites, all of their safety proved; wasm89 without vectors and
decoder; libdl89; libhm89 and libadt89.

1. libcat89 proofs: the reference counts of `Cat89Refs`.
2. Composition: the adapter of `libledger89/test/adapters` as the store of
   `Raft89Node`, to show that the ledger provides the crash contract that
   `PartialEffect` assumes.
3. libledger89 under `"publish"`, `"list"` and `"reopen"` once the code handles
   them: the proofs then need the worlds in which an operation was abandoned.
4. `libfsm89`, `libsyntax89` and `libfx89` against reference definitions on
   bounded inputs.
