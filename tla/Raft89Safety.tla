--------------------------- MODULE Raft89Safety ---------------------------
(***************************************************************************)
(* What makes a libraft89 cluster correct.  The numbers I01..I20 are those *)
(* of spec/raft89-spec.md, section 14.                                     *)
(***************************************************************************)
EXTENDS Raft89Cluster

\* The messages of one type in flight.
Sent(type) == {m \in msgs : m.type = type}

\* I01: two nodes never lead the same term, whatever is lost, duplicated,
\* delayed or replayed across restarts (raft89__become_leader).
ElectionSafety ==
    \A i, j \in Server :
        /\ role[i] = "LEADER"
        /\ role[j] = "LEADER"
        /\ currentTerm[i] = currentTerm[j]
        => i = j

\* I14: a granted vote that reached the network is already durable, and stays
\* the durable vote of its term (persist_vote_then_reply, vote_response_send).
VoteBarrier ==
    \A m \in Sent("RVR") :
        m.granted =>
            \/ hard[m.from].term > m.term
            \/ hard[m.from] = [term |-> m.term, vote |-> m.to]

\* I02 and I03 across crashes: the durable term never goes back and a vote is
\* never changed within its term, even when a HARD_STATE action is cut off by
\* a crash (raft89__emit_hard_state, raft89__node_load).
VoteStable ==
    [][\A i \in Server :
          \/ hard'[i].term > hard[i].term
          \/ /\ hard'[i].term = hard[i].term
             /\ hard[i].vote \in {NoId, hard'[i].vote}]_vars

\* I05: durable logs that agree on the term at an index agree up to it
\* (ae_prefix_matches, ae_scan).
LogMatching ==
    \A i, j \in Server :
        \A k \in 1..MinOf(Len(log[i]), Len(log[j])) :
            log[i][k].term = log[j][k].term =>
                SubSeq(log[i], 1, k) = SubSeq(log[j], 1, k)

\* I06: a node that stays leader never loses or rewrites an entry of its own
\* log (raft89_proposev, raft89__leader_after_append).
LeaderAppendOnly ==
    [][\A i \in Server :
          role[i] = "LEADER" /\ role'[i] = "LEADER" =>
              IsPrefix(log[i], log'[i])]_vars

\* I07: any node that a quorum would still vote for holds every entry that
\* some application has received, so no later election can lose it
\* (raft89__log_is_fresh, raft89__leader_maybe_commit).
ElectableComplete ==
    \A j \in Server :
        LET voters == {i \in Server :
                         LogIsFresh(LastTermOf(log[j]), Len(log[j]),
                                    LastTermOf(log[i]), Len(log[i]))}
        IN  IsQuorum(Cardinality(voters)) =>
                \A i \in Server : IsPrefix(app[i], log[j])

\* What an application has received stays in the durable log of its node,
\* through truncations and crashes in the middle of them: a checkpoint is
\* always accepted by raft89__recover_applied.
AppliedDurable == \A i \in Server : IsPrefix(app[i], log[i])

\* I10, and include/raft89.h:450, "applied_index <= commit_index <=
\* last_log_index": the positions raft89_status_get reports are ordered
\* (raft89__advance_commit, ae_update_last, raft89__apply_ack).
IndexOrder ==
    \A i \in Server :
        /\ appliedIndex[i] <= commitIndex[i]
        /\ commitIndex[i] <= lastIndex[i]

\* The barrier rule of section 13: what a node believes about its log and its
\* hard state is exactly what is durable (ae_update_last,
\* raft89__leader_after_append, raft89__apply_hard_state).
CacheCoherent ==
    \A i \in Server :
        ~faulted[i] =>
            /\ lastIndex[i] = Len(log[i])
            /\ lastTerm[i] = LastTermOf(log[i])
            /\ hard[i] = [term |-> currentTerm[i], vote |-> votedFor[i]]

\* I15: a success response that reached the network is backed by durable
\* entries equal to those of the leader it answers, for as long as the
\* follower stays in that term and the leader leads it (ae_finish).
AckBarrier ==
    \A m \in Sent("AER") :
        m.success /\ hard[m.from].term = m.term =>
            /\ m.match <= Len(log[m.from])
            /\ role[m.to] = "LEADER" /\ currentTerm[m.to] = m.term
                 /\ m.match <= Len(log[m.to]) =>
                   SubSeq(log[m.from], 1, m.match) =
                   SubSeq(log[m.to], 1, m.match)

\* The contract with the host's store: an append continues the durable log, a
\* truncation removes something, and nothing committed or applied
\* (ae_apply_entries, raft89__ae_after_truncate, raft89_proposev).
StoreContract ==
    \A i \in Server :
        LET a == action[i]
        IN  /\ a.type = "LOG_APPEND" =>
                 a.first = Len(log[i]) + 1 /\ a.entries # << >>
            /\ a.type = "LOG_TRUNCATE" =>
                 /\ a.first \in 1..Len(log[i])
                 /\ a.first > commitIndex[i]
                 /\ a.first > Len(app[i])

\* I09 and I16: an application gets committed entries in order without gaps,
\* and a replay after a restart repeats exactly what it already has
\* (raft89__apply_next, raft89__apply_ack, raft89__recover_applied).
ApplyContract ==
    \A i \in Server :
        LET a == action[i]
        IN  a.type = "APPLY" =>
                /\ a.index = appliedIndex[i] + 1
                /\ a.index <= commitIndex[i]
                /\ a.index <= Len(app[i]) + 1
                /\ a.index <= Len(app[i]) => a.entry = app[i][a.index]

\* I11, I12 and I19: within one incarnation commit and applied positions
\* never go back, nor does match_index within one leadership
\* (raft89__advance_commit, raft89__recv_ae_response).
ProgressMonotone ==
    [][\A i \in Server :
          ~CrashRestart(i) =>
              /\ commitIndex'[i] >= commitIndex[i]
              /\ appliedIndex'[i] >= appliedIndex[i]
              /\ role[i] = "LEADER" /\ role'[i] = "LEADER" =>
                   \A j \in Server : matchIndex'[i][j] >= matchIndex[i][j]]_vars

\* I20 and section 9, "a stale response never changes replication state": a
\* rejection from before an acknowledged match would move next_index back to
\* or below match_index (handle_ae_failure).
StaleResponseHarmless ==
    \A i, j \in Server :
        role[i] = "LEADER" => nextIndex[i][j] > matchIndex[i][j]

\* Every chain of actions ends: a host that keeps executing and acknowledging
\* actions gets an idle node back, or a faulted one (raft89__resume,
\* raft89__leader_broadcast_next, raft89__apply_ack).
ChainTerminates ==
    \A i \in Server :
        action[i] # NoAction ~> (action[i] = NoAction \/ faulted[i])

\* Commit and application meet again: what a node knows to be committed is
\* applied, however many entries one commit advance covers, unless the node
\* faults (raft89__advance_commit, raft89__apply_ack).
CommittedIsApplied ==
    \A i \in Server :
        appliedIndex[i] < commitIndex[i] ~>
            (appliedIndex[i] = commitIndex[i] \/ faulted[i])

\* The applications of the cluster see one atomic broadcast.
Broadcast == INSTANCE AtomicBroadcast
                 WITH Member <- Server, Item <- Entry, delivered <- app

\* The cluster implements that broadcast: every step delivers at most one
\* entry to one application, and never one that contradicts another
\* application (emit_next_apply, raft89__apply_ack, raft89__recover_applied).
ImplementsBroadcast == Broadcast!ABSpec
===========================================================================
