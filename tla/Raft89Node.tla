---------------------------- MODULE Raft89Node ----------------------------
(***************************************************************************)
(* One libraft89 node as its host drives it: the public calls raft89_recv, *)
(* raft89_tick, raft89_propose(v), raft89_action_done and raft89_create,   *)
(* each with everything it triggers.                                       *)
(*                                                                         *)
(* The host executes the outstanding action and then acknowledges it.      *)
(* Nobody but the node itself reads its durable state, so the effect and   *)
(* the acknowledgement are one step, and a crash in between is a crash     *)
(* with a partial effect (Restart).                                        *)
(***************************************************************************)
EXTENDS Raft89Election, Raft89Replication

\* The guard of every public call: neither faulted nor busy.
Ready(i) == ~faulted[i] /\ action[i] = NoAction

Recv(i, m) ==
    /\ Ready(i)
    /\ EnvelopeValid(i, m)
    /\ UNCHANGED <<durable, termVars>>
    /\ \/ m.type = "RV"  /\ RecvRequestVote(i, m)
       \/ m.type = "RVR" /\ RecvVoteResponse(i, m)
       \/ m.type = "AE"  /\ RecvAppendEntries(i, m)
       \/ m.type = "AER" /\ RecvAeResponse(i, m)

Tick(i) ==
    /\ Ready(i)
    /\ UNCHANGED <<durable, termVars>>
    /\ TickLeader(i) \/ TickFollower(i)

Propose(i, cmds) ==
    /\ Ready(i)
    /\ UNCHANGED <<durable, termVars>>
    /\ Proposev(i, cmds)

---------------------------------------------------------------------------
(* Host effects (examples/host_loop.c, test/support/crash_oracle.c).       *)

\* Entries are written at their indices, over whatever is there.
Written(l, first, es) ==
    SubSeq(l, 1, first - 1) \o es \o SubSeq(l, first + Len(es), Len(l))

\* The application skips entries it has already applied.
Applied(a, index, e) == IF index = Len(a) + 1 THEN Append(a, e) ELSE a

\* The complete effect of the outstanding action on the durable state.
HostEffect(i) ==
    LET a == action[i]
    IN  /\ hard' = IF a.type = "HARD_STATE"
                   THEN Set(hard, i, [term |-> a.term, vote |-> a.vote])
                   ELSE hard
        /\ log' = CASE a.type = "LOG_APPEND" ->
                         Set(log, i, Written(log[i], a.first, a.entries))
                    [] a.type = "LOG_TRUNCATE" ->
                         Set(log, i, SubSeq(log[i], 1, a.first - 1))
                    [] OTHER -> log
        /\ app' = IF a.type = "APPLY"
                  THEN Set(app, i, Applied(app[i], a.index, a.entry))
                  ELSE app

\* What a crash before the acknowledgement may leave behind: the action not
\* done, done, an append cut short, or a truncation cut short.
PartialEffect(i) ==
    \/ UNCHANGED durable
    \/ action[i] # NoAction /\ HostEffect(i)
    \/ /\ action[i].type = "LOG_APPEND"
       /\ \E n \in 1..Len(action[i].entries)-1 :
             log' = Set(log, i, Written(log[i], action[i].first,
                                        SubSeq(action[i].entries, 1, n)))
       /\ UNCHANGED <<hard, app>>
    \/ /\ action[i].type = "LOG_TRUNCATE"
       /\ \E k \in action[i].first..Len(log[i])-1 :
             log' = Set(log, i, SubSeq(log[i], 1, k))
       /\ UNCHANGED <<hard, app>>

---------------------------------------------------------------------------
(* raft89_action_done.                                                     *)

ApplyHardState(i) ==
    IF action[i].type = "HARD_STATE"
    THEN /\ currentTerm' = Set(currentTerm, i, action[i].term)
         /\ votedFor' = Set(votedFor, i, action[i].vote)
    ELSE UNCHANGED termVars

\* Mutant: one entry per commit advance.
ApplyAckOnce(i) ==
    /\ appliedIndex' = Set(appliedIndex, i, Inc(appliedIndex[i]))
    /\ afterApply' = Set(afterApply, i, "NONE")
    /\ UNCHANGED <<standing, lastLog, commitIndex, peerView, cursor,
                   pendingMsg, stash>>
    /\ IF afterApply[i] = "AE_REPLY" THEN AeSendReply(i) ELSE Return(i, "NONE")

\* One entry applied: the next one, or the interrupted continuation.
ApplyAck(i) ==
    LET applied == Inc(appliedIndex[i])
    IN  /\ appliedIndex' = Set(appliedIndex, i, applied)
        /\ UNCHANGED <<standing, lastLog, commitIndex, peerView, cursor,
                       pendingMsg, stash>>
        /\ \/ /\ applied < commitIndex[i]
              /\ EmitNextApply(i, Inc(applied), "NONE")
              /\ UNCHANGED afterApply
           \/ /\ applied >= commitIndex[i]
              /\ afterApply' = Set(afterApply, i, "NONE")
              /\ IF afterApply[i] = "AE_REPLY"
                 THEN AeSendReply(i)
                 ELSE Return(i, "NONE")

\* Steps NONE and STEP_DOWN: the chain of actions is over.
EndOfChain(i) ==
    /\ Return(i, "NONE")
    /\ UNCHANGED <<standing, lastLog, progress, peerView, cursor, pendingMsg,
                   stash>>

LeaderBroadcastOn(i) ==
    /\ UNCHANGED <<standing, lastLog, peerView, pendingMsg, stash>>
    /\ LeaderBroadcastNext(i, cursor[i])

Resume(i) ==
    \/ step[i] = "ELECTION_BROADCAST" /\ ElectionSendNext(i)
    \/ step[i] = "VOTE_RESPONSE"      /\ VoteResponseSend(i)
    \/ step[i] = "LEADER_BROADCAST"   /\ LeaderBroadcastOn(i)
    \/ step[i] = "LEADER_APPEND"      /\ LeaderAfterAppend(i)
    \/ step[i] = "AE_HARD_STATE"      /\ AeContinue(i)
    \/ step[i] = "AE_TRUNCATE"        /\ AeAfterTruncate(i)
    \/ step[i] = "AE_APPEND"          /\ AeAfterAppend(i)
    \/ step[i] = "APPLY"              /\ ApplyAck(i)
    \/ step[i] \in {"NONE", "STEP_DOWN"} /\ EndOfChain(i)

\* RAFT89_ACTION_OK, or RAFT89_ACTION_LOST for a SEND.
ActionDone(i) ==
    /\ ~faulted[i]
    /\ action[i] # NoAction
    /\ HostEffect(i)
    /\ ApplyHardState(i)
    /\ Resume(i)

\* RAFT89_ACTION_FATAL: only the fault is latched, the action stays.
ActionFatal(i) ==
    /\ "fatal" \in Faults
    /\ ~faulted[i]
    /\ action[i] # NoAction
    /\ faulted' = Set(faulted, i, TRUE)
    /\ UNCHANGED <<durable, termVars, standing, lastLog, progress, peerView,
                   action, step, cursor, pendingMsg, stash>>

---------------------------------------------------------------------------
(* raft89_create over a store holding h and l, with the application        *)
(* checkpoint c; create refuses a checkpoint beyond the log.               *)

LastTermOf(l) == IF l = << >> THEN 0 ELSE Last(l).term

\* The host loses the node, at any point, and creates it again.
Restart(i) ==
    /\ PartialEffect(i)
    /\ currentTerm' = Set(currentTerm, i, hard'[i].term)
    /\ votedFor' = Set(votedFor, i, hard'[i].vote)
    /\ role' = Set(role, i, "FOLLOWER")
    /\ leaderId' = Set(leaderId, i, NoId)
    /\ votes' = Set(votes, i, {})
    /\ lastIndex' = Set(lastIndex, i, Len(log'[i]))
    /\ lastTerm' = Set(lastTerm, i, LastTermOf(log'[i]))
    /\ \E c \in 0..Len(app'[i]) :
          /\ c <= Len(log'[i])
          /\ commitIndex' = Set(commitIndex, i, c)
          /\ appliedIndex' = Set(appliedIndex, i, c)
    /\ afterApply' = Set(afterApply, i, "NONE")
    /\ nextIndex' = Set(nextIndex, i, [j \in Server |-> 0])
    /\ matchIndex' = Set(matchIndex, i, [j \in Server |-> 0])
    /\ faulted' = Set(faulted, i, FALSE)
    /\ action' = Set(action, i, NoAction)
    /\ step' = Set(step, i, "NONE")
    /\ cursor' = Set(cursor, i, 0)
    /\ pendingMsg' = Set(pendingMsg, i, NoMsg)
    /\ ae' = Set(ae, i, NoStash)
    /\ pending' = Set(pending, i, << >>)
===========================================================================
