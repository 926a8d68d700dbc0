-------------------------- MODULE Raft89Election --------------------------
(***************************************************************************)
(* raft89_election.c and the timeouts of raft89_timer.c: elections, vote   *)
(* requests, vote counting, leadership acquisition.  The clocks are        *)
(* abstracted: elapsed time is the host's argument and the timeout is      *)
(* random, so a tick may or may not cross it.                              *)
(***************************************************************************)
EXTENDS Raft89Leader

\* Mutant: no check of the term limit.
StartElectionUnlimited(i) ==
    /\ role' = Set(role, i, "CANDIDATE")
    /\ leaderId' = Set(leaderId, i, NoId)
    /\ votes' = Set(votes, i, {i})
    /\ cursor' = Set(cursor, i, 0)
    /\ Emit(i, HardState(currentTerm[i] + 1, i), "ELECTION_BROADCAST")
    /\ UNCHANGED <<lastLog, progress, peerView, pendingMsg, stash>>

\* At the last term the call fails and nothing changes: the node is not
\* faulted and will try again at the next tick.
StartElection(i) ==
    \/ /\ currentTerm[i] = TermMax
       /\ Ignore(i)
    \/ /\ currentTerm[i] < TermMax
       /\ role' = Set(role, i, "CANDIDATE")
       /\ leaderId' = Set(leaderId, i, NoId)
       /\ votes' = Set(votes, i, {i})
       /\ cursor' = Set(cursor, i, 0)
       /\ Emit(i, HardState(currentTerm[i] + 1, i), "ELECTION_BROADCAST")
       /\ UNCHANGED <<lastLog, progress, peerView, pendingMsg, stash>>

\* A full log faults the winner: its next index would wrap.
BecomeLeader(i, s) ==
    \/ /\ lastIndex[i] = IndexMax
       /\ Fault(i, s)
       /\ UNCHANGED <<role, leaderId, progress, peerView, cursor>>
    \/ /\ lastIndex[i] # IndexMax
       /\ role' = Set(role, i, "LEADER")
       /\ leaderId' = Set(leaderId, i, i)
       /\ nextIndex' = Set(nextIndex, i, [j \in Server |-> Inc(lastIndex[i])])
       /\ matchIndex' = Set(matchIndex, i, [j \in Server |-> 0])
       /\ LeaderBroadcastNext(i, 0)

\* The continuation of an election: send the next request, or stop.
ElectionSendNext(i) ==
    LET won == IsQuorum(Cardinality(votes[i]))
        more == cursor[i] < Len(Peers[i])
    IN  /\ UNCHANGED <<votes, lastLog, pendingMsg, stash>>
        /\ \/ won /\ BecomeLeader(i, "NONE")
           \/ /\ ~won /\ more
              /\ cursor' = Set(cursor, i, cursor[i] + 1)
              /\ Emit(i, Send(RequestVote(i, Peers[i][cursor[i] + 1],
                                 currentTerm'[i], lastIndex[i], lastTerm[i])),
                      "ELECTION_BROADCAST")
              /\ UNCHANGED <<role, leaderId, progress, peerView>>
           \/ /\ ~won /\ ~more
              /\ Return(i, "NONE")
              /\ UNCHANGED <<role, leaderId, progress, peerView, cursor>>

---------------------------------------------------------------------------
(* Vote requests.                                                          *)

\* An immediate reply leaves step alone: its acknowledgement resumes
\* whatever continuation the node still carries.
ReplyVote(i, j, term, granted) ==
    /\ Emit(i, Send(VoteResponse(i, j, term, granted)), step[i])
    /\ UNCHANGED <<standing, lastLog, progress, peerView, cursor, pendingMsg,
                   stash>>

\* Mutant: the reply goes out before the vote is durable.
ReplyThenPersist(i, j, term, vote, granted) ==
    /\ Emit(i, Send(VoteResponse(i, j, term, granted)), "NONE")
    /\ UNCHANGED <<votes, lastLog, progress, peerView, cursor, pendingMsg,
                   stash>>

PersistVoteThenReply(i, j, term, vote, granted) ==
    /\ pendingMsg' = Set(pendingMsg, i, VoteResponse(i, j, term, granted))
    /\ Emit(i, HardState(term, vote), "VOTE_RESPONSE")
    /\ UNCHANGED <<votes, lastLog, progress, peerView, cursor, stash>>

VoteNewTerm(i, m, fresh) ==
    /\ role' = Set(role, i, "FOLLOWER")
    /\ leaderId' = Set(leaderId, i, NoId)
    /\ PersistVoteThenReply(i, m.from, m.term, IF fresh THEN m.from ELSE NoId,
                            fresh)

RecvRequestVote(i, m) ==
    LET fresh == LogIsFresh(m.lastTerm, m.lastIndex, lastTerm[i], lastIndex[i])
        free == votedFor[i] = NoId /\ role[i] # "LEADER" /\ fresh
    IN  \/ /\ m.term < currentTerm[i]
           /\ ReplyVote(i, m.from, currentTerm[i], FALSE)
        \/ /\ m.term > currentTerm[i]
           /\ VoteNewTerm(i, m, fresh)
        \/ /\ m.term = currentTerm[i]
           /\ votedFor[i] = m.from
           /\ ReplyVote(i, m.from, m.term, TRUE)
        \/ /\ m.term = currentTerm[i]
           /\ votedFor[i] # m.from
           /\ ~free
           /\ ReplyVote(i, m.from, m.term, FALSE)
        \/ /\ m.term = currentTerm[i]
           /\ free
           /\ UNCHANGED <<role, leaderId>>
           /\ PersistVoteThenReply(i, m.from, m.term, m.from, TRUE)

VoteResponseSend(i) ==
    /\ Emit(i, Send(pendingMsg[i]), "NONE")
    /\ UNCHANGED <<standing, lastLog, progress, peerView, cursor, pendingMsg,
                   stash>>

---------------------------------------------------------------------------
(* Vote responses.                                                         *)

RecvVoteResponse(i, m) ==
    LET counts == /\ m.term = currentTerm[i]
                  /\ role[i] = "CANDIDATE"
                  /\ m.granted
                  /\ m.from \notin votes[i]
        tally == votes[i] \union {m.from}
    IN  \/ NewerTerm(i, m) /\ StepDownNewTerm(i, m.term)
        \/ /\ counts
           /\ votes' = Set(votes, i, tally)
           /\ UNCHANGED <<lastLog, pendingMsg, stash>>
           /\ \/ /\ ~IsQuorum(Cardinality(tally))
                 /\ UNCHANGED <<role, leaderId, progress, peerView, control,
                                cursor>>
              \/ /\ IsQuorum(Cardinality(tally))
                 /\ BecomeLeader(i, step[i])
        \/ /\ ~NewerTerm(i, m)
           /\ ~counts
           /\ Ignore(i)

---------------------------------------------------------------------------
(* raft89_tick, when the relevant timeout has elapsed.                     *)

TickLeader(i) ==
    /\ role[i] = "LEADER"
    /\ UNCHANGED <<standing, lastLog, peerView, pendingMsg, stash>>
    /\ LeaderBroadcastNext(i, 0)

TickFollower(i) ==
    /\ role[i] # "LEADER"
    /\ StartElection(i)
===========================================================================
