---------------------------- MODULE Raft89Core ----------------------------
(***************************************************************************)
(* The state of the libraft89 nodes, the one-outstanding-action queue      *)
(* (raft89_action.c) and commit and apply (raft89_log.c).                  *)
(*                                                                         *)
(* A handler of the code is an action predicate on the state of one node   *)
(* i.  When it runs, the host effect that was acknowledged (if any) has    *)
(* already taken place, so handlers read the store as log'[i] and the term *)
(* as currentTerm'[i]; a handler called after its caller assigned a field  *)
(* reads that field primed.  The parameter s is the value of node->step on *)
(* entry: an early return leaves it in place.                              *)
(***************************************************************************)
EXTENDS Raft89Data

VARIABLES
    \* Durable, owned by the host: hard state, log, application state.
    hard, log, app,
    \* Volatile copies of the hard state.
    currentTerm, votedFor,
    \* Role, known leader, granted votes (votes_granted is its size).
    role, leaderId, votes,
    \* Cached end of the log.
    lastIndex, lastTerm,
    \* Commit and apply positions, continuation after the last apply.
    commitIndex, appliedIndex, afterApply,
    \* Leader's view of every member.
    nextIndex, matchIndex,
    \* Fault latch, outstanding action, continuation.
    faulted, action, step,
    \* Position in a broadcast, vote reply waiting for its hard state.
    cursor, pendingMsg,
    \* AppendEntries request in progress, entries waiting to be appended.
    ae, pending

durable  == <<hard, log, app>>
termVars == <<currentTerm, votedFor>>
standing == <<role, leaderId, votes>>
lastLog  == <<lastIndex, lastTerm>>
progress == <<commitIndex, appliedIndex, afterApply>>
peerView == <<nextIndex, matchIndex>>
control  == <<faulted, action, step>>
stash    == <<ae, pending>>
nodeVars == <<durable, termVars, standing, lastLog, progress, peerView,
              control, cursor, pendingMsg, stash>>

Set(f, i, v) == [f EXCEPT ![i] = v]

---------------------------------------------------------------------------
(* Control: a handler ends by emitting an action, by returning idle, or by *)
(* latching a fault.                                                       *)

Emit(i, a, s) ==
    /\ action' = Set(action, i, a)
    /\ step' = Set(step, i, s)
    /\ UNCHANGED faulted

Return(i, s) == Emit(i, NoAction, s)

Fault(i, s) ==
    /\ faulted' = Set(faulted, i, TRUE)
    /\ action' = Set(action, i, NoAction)
    /\ step' = Set(step, i, s)

\* A store read succeeds at the indices the durable log holds.
Readable(i, k) == k \in 1..Len(log'[i])
TermAt(i, k) == IF k = 0 THEN 0 ELSE log'[i][k].term

\* A read outside the log always fails; one inside it fails when injected.
ReadFails(i, k) == k # 0 /\ (Readable(i, k) => "store" \in Faults)

---------------------------------------------------------------------------
(* Commit advancement and ordered application.                             *)

EmitNextApply(i, k, s) ==
    \/ /\ Readable(i, k)
       /\ Emit(i, Apply(k, log'[i][k]), "APPLY")
    \/ /\ "nomem" \in Faults
       /\ Readable(i, k)
       /\ CmdSize[log'[i][k].cmd] > 0
       /\ Return(i, s)
    \/ /\ ReadFails(i, k)
       /\ Fault(i, s)

\* Mutant: application starts at the new commit index.
AdvanceCommitLatest(i, new, after, s) ==
    /\ commitIndex' = Set(commitIndex, i, new)
    /\ afterApply' = Set(afterApply, i, after)
    /\ UNCHANGED appliedIndex
    /\ EmitNextApply(i, new, s)

\* new exceeds commitIndex[i]; commit and continuation are set before the
\* first apply is emitted, which may fail.
AdvanceCommit(i, new, after, s) ==
    /\ commitIndex' = Set(commitIndex, i, new)
    /\ afterApply' = Set(afterApply, i, after)
    /\ UNCHANGED appliedIndex
    /\ EmitNextApply(i, Inc(appliedIndex[i]), s)

---------------------------------------------------------------------------
\* Mutant: a response of the current term counts as newer.
NotOlderTerm(i, m) == m.term >= currentTerm[i]

NewerTerm(i, m) == m.term > currentTerm[i]

(* Higher term seen in a response: follower, persist, no reply.            *)

StepDownNewTerm(i, term) ==
    /\ role' = Set(role, i, "FOLLOWER")
    /\ leaderId' = Set(leaderId, i, NoId)
    /\ Emit(i, HardState(term, NoId), "STEP_DOWN")
    /\ UNCHANGED <<votes, lastLog, progress, peerView, cursor, pendingMsg,
                   stash>>

\* A handler that returns without any change.
Ignore(i) ==
    UNCHANGED <<standing, lastLog, progress, peerView, control, cursor,
                pendingMsg, stash>>
===========================================================================
