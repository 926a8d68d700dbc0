------------------------- MODULE Raft89HistoryProof -------------------------
(***************************************************************************)
(* A step of a libraft89 node hands the past of its cluster on.            *)
(*                                                                         *)
(* First what one step may do to the standing of the node that takes it    *)
(* (Turn), to its positions and to the other nodes (Others), and with it   *)
(* LeaderAppendOnly and ProgressMonotone.                                  *)
(*                                                                         *)
(* Then what the past says of hard states, logs and applications, and how  *)
(* it may grow: lemmas about a past L, A of the durable state h, l, a, and *)
(* about the past M, B of the state g, m, b after a step of node i.        *)
(*                                                                         *)
(* Last the steps of the model: if the state has the past L, A, the next   *)
(* state has the past M, B it inherits (Raft89History).  The durable       *)
(* state, the messages and the nodes that do not move are shown to be in   *)
(* accordance with M, B; the node that moves is the subject of             *)
(* Raft89SafetyProof.                                                      *)
(***************************************************************************)
EXTENDS Raft89History, Raft89NodeProof

---------------------------------------------------------------------------
(* Endings that ask for no change of the log.                              *)

\* Commit and applied positions do not go back.
Grown(i) ==
    /\ commitIndex'[i] >= commitIndex[i]
    /\ appliedIndex'[i] >= appliedIndex[i]

\* The node's next action is to send, to apply, or nothing.
Plain(i) == action'[i].type \in {"NONE", "SEND", "APPLY"} /\ Grown(i)

\* Positions that stay are not going back.
LEMMA StayGrown ==
    ASSUME TypeOK, NEW i \in Server, UNCHANGED progress
    PROVE  Grown(i)
<1>1. commitIndex[i] \in Nat /\ appliedIndex[i] \in Nat
  BY Limits DEF TypeOK, Index
<1> QED BY <1>1 DEF Grown, progress

\* An emitted action is the action of the node.
LEMMA EmitAction ==
    ASSUME TypeOK, NEW i \in Server, NEW a, NEW s
    PROVE  /\ Emit(i, a, s) => action'[i] = a
           /\ Return(i, s) => action'[i].type = "NONE"
           /\ Fault(i, s) => action'[i].type = "NONE"
BY DEF TypeOK, Emit, Return, Fault, Set, NoAction

\* emit_next_apply applies or gives up.
LEMMA NextApplyType ==
    ASSUME TypeOK, NEW i \in Server, NEW k, NEW s, EmitNextApply(i, k, s)
    PROVE  action'[i].type \in {"NONE", "APPLY"}
BY EmitAction DEF EmitNextApply, Apply

\* raft89__advance_commit moves the commit index forward.
LEMMA AdvancePlain ==
    ASSUME TypeOK, NEW i \in Server, NEW k \in Index, k > commitIndex[i],
           NEW after, NEW s, AdvanceCommit(i, k, after, s)
    PROVE  Plain(i)
<1>1. commitIndex[i] \in Nat /\ appliedIndex[i] \in Nat /\ k \in Nat
  BY Limits DEF TypeOK, Index
<1>2. commitIndex'[i] = k /\ appliedIndex'[i] = appliedIndex[i]
  BY DEF AdvanceCommit, Set, TypeOK
<1>3. action'[i].type \in {"NONE", "APPLY"}
  BY NextApplyType DEF AdvanceCommit
<1> QED BY <1>1, <1>2, <1>3 DEF Plain, Grown

\* raft89__leader_maybe_commit only commits more.
LEMMA MaybeCommitPlain ==
    ASSUME TypeOK, NEW i \in Server, NEW s, lastIndex'[i] \in Index,
           LeaderMaybeCommit(i, s)
    PROVE  Plain(i)
<1>1. PICK k \in {commitIndex[i]} \union (commitIndex[i]+1)..lastIndex'[i] :
        \/ (Return(i, s) \/ Fault(i, s)) /\ UNCHANGED progress
        \/ k > commitIndex[i] /\ AdvanceCommit(i, k, "NONE", s)
  BY DEF LeaderMaybeCommit
<1>2. k \in Index
  <2>1. commitIndex[i] \in Index
    BY DEF TypeOK
  <2> QED BY <1>1, <2>1, Limits DEF Index
<1>3. CASE (Return(i, s) \/ Fault(i, s)) /\ UNCHANGED progress
  BY <1>3, EmitAction, StayGrown DEF Plain
<1>4. CASE k > commitIndex[i] /\ AdvanceCommit(i, k, "NONE", s)
  BY <1>2, <1>4, AdvancePlain
<1> QED BY <1>1, <1>3, <1>4

\* raft89__leader_send_to sends one message, if any.
LEMMA SendToPlain ==
    ASSUME TypeOK, NEW i \in Server, NEW j, NEW s, LeaderSendTo(i, j, s),
           UNCHANGED progress
    PROVE  Plain(i)
<1>1. \/ \E m : Emit(i, Send(m), s)
      \/ Return(i, s)
      \/ Fault(i, s)
  BY DEF LeaderSendTo
<1>2. ASSUME NEW m, Emit(i, Send(m), s)
      PROVE  action'[i].type = "SEND"
  BY <1>2, EmitAction DEF Send
<1>3. action'[i].type \in {"NONE", "SEND"}
  BY <1>1, <1>2, EmitAction
<1> QED BY <1>3, StayGrown DEF Plain

\* One step of a leader's broadcast.
LEMMA BroadcastPlain ==
    ASSUME TypeOK, NEW i \in Server, NEW c, lastIndex'[i] \in Index,
           LeaderBroadcastNext(i, c)
    PROVE  Plain(i)
BY SendToPlain, MaybeCommitPlain DEF LeaderBroadcastNext

\* raft89__ae_send_reply, with the positions left alone.
LEMMA SendReplyPlain ==
    ASSUME TypeOK, NEW i \in Server, AeSendReply(i), Grown(i)
    PROVE  Plain(i)
BY EmitAction DEF AeSendReply, Send, Plain

\* ae_finish commits, or replies.
LEMMA FinishPlain ==
    ASSUME TypeOK, NEW i \in Server, NEW s, FollowerCommit(i) \in Index,
           AeFinish(i, s)
    PROVE  Plain(i)
BY AdvancePlain, SendReplyPlain, StayGrown DEF AeFinish

\* raft89__become_leader.
LEMMA BecomePlain ==
    ASSUME TypeOK, NEW i \in Server, NEW s, UNCHANGED lastLog,
           BecomeLeader(i, s)
    PROVE  /\ Plain(i)
           /\ \/ UNCHANGED <<role, peerView>>
              \/ /\ role' = Set(role, i, "LEADER")
                 /\ matchIndex' = Set(matchIndex, i, [j \in Server |-> 0])
<1>1. lastIndex'[i] \in Index
  BY DEF TypeOK, lastLog
<1> QED BY <1>1, EmitAction, StayGrown, BroadcastPlain DEF BecomeLeader, Plain

---------------------------------------------------------------------------
(* Handlers.                                                               *)

\* How a step of i moves its standing and its view of the peers.
Turn(i) ==
    /\ \A j \in Server \ {i} :
          role'[j] = role[j] /\ matchIndex'[j] = matchIndex[j]
    /\ role'[i] = "LEADER" => role[i] # "FOLLOWER"
    /\ role'[i] = "CANDIDATE" /\ action'[i].type # "HARD_STATE" =>
         role[i] = "CANDIDATE"
    /\ action'[i].type = "LOG_TRUNCATE" => role'[i] = "FOLLOWER"
    /\ role[i] = "LEADER" /\ role'[i] = "LEADER" =>
         \A j \in Server : matchIndex'[i][j] >= matchIndex[i][j]
    /\ Grown(i)

\* A match index is not above itself.
LEMMA MatchStays ==
    ASSUME TypeOK, NEW i \in Server, NEW j \in Server
    PROVE  matchIndex[i][j] \in Nat /\ matchIndex[i][j] >= matchIndex[i][j]
<1>1. matchIndex[i][j] \in Index
  BY DEF TypeOK
<1> QED BY <1>1, Limits DEF Index

\* A step that keeps its role, or steps down.
LEMMA PlainTurn ==
    ASSUME TypeOK, NEW i \in Server, Plain(i), UNCHANGED matchIndex,
           role' = role \/ role' = Set(role, i, "FOLLOWER")
    PROVE  Turn(i)
<1>1. role \in [Server -> Role]
  BY DEF TypeOK
<1>2. /\ \A j \in Server \ {i} : role'[j] = role[j]
      /\ role'[i] \in {role[i], "FOLLOWER"}
  BY <1>1 DEF Set
<1>3. \A j \in Server : matchIndex'[i][j] >= matchIndex[i][j]
  BY MatchStays
<1> QED BY <1>2, <1>3 DEF Turn, Plain

\* raft89__become_leader by a candidate.
LEMMA BecomeTurn ==
    ASSUME TypeOK, NEW i \in Server, NEW s, UNCHANGED lastLog,
           role[i] = "CANDIDATE", BecomeLeader(i, s)
    PROVE  Turn(i)
<1>1. CASE UNCHANGED <<role, peerView>>
  BY <1>1, BecomePlain, PlainTurn DEF peerView
<1>2. CASE /\ role' = Set(role, i, "LEADER")
           /\ matchIndex' = Set(matchIndex, i, [j \in Server |-> 0])
  <2>1. /\ \A j \in Server \ {i} :
              role'[j] = role[j] /\ matchIndex'[j] = matchIndex[j]
        /\ role'[i] = "LEADER"
    BY <1>2 DEF TypeOK, Set
  <2>2. Plain(i)
    BY BecomePlain
  <2> QED BY <2>1, <2>2 DEF Turn, Plain
<1> QED BY <1>1, <1>2, BecomePlain

\* A step that persists a hard state.
LEMMA PersistTurn ==
    ASSUME TypeOK, NEW i \in Server, NEW t, NEW v, NEW s,
           Emit(i, HardState(t, v), s), UNCHANGED <<progress, peerView>>,
           \/ role' = role
           \/ role' = Set(role, i, "FOLLOWER")
           \/ role' = Set(role, i, "CANDIDATE")
    PROVE  Turn(i)
<1>1. role \in [Server -> Role]
  BY DEF TypeOK
<1>2. /\ \A j \in Server \ {i} : role'[j] = role[j]
      /\ role'[i] = "LEADER" => role[i] = "LEADER"
  BY <1>1 DEF Set
<1>3. action'[i].type = "HARD_STATE"
  BY EmitAction DEF HardState
<1> QED BY <1>2, <1>3, MatchStays, StayGrown DEF Turn, peerView

\* A step that keeps its standing and truncates nothing.
LEMMA KeepTurn ==
    ASSUME TypeOK, NEW i \in Server, Grown(i), UNCHANGED <<role, matchIndex>>,
           action'[i].type # "LOG_TRUNCATE"
    PROVE  Turn(i)
BY MatchStays DEF Turn

\* A call without any change, or one that only replies.
LEMMA StandingTurn ==
    ASSUME TypeOK, NEW i \in Server, Plain(i), UNCHANGED <<role, matchIndex>>
    PROVE  Turn(i)
BY PlainTurn

\* A call that leaves everything as it is, at an idle node.
LEMMA IgnoreTurn ==
    ASSUME TypeOK, NEW i \in Server, action[i] = NoAction,
           UNCHANGED <<role, matchIndex, progress, action>>
    PROVE  Turn(i)
BY StayGrown, StandingTurn DEF Plain, NoAction

\* raft89__recv_request_vote.
LEMMA RequestVoteTurn ==
    ASSUME TypeOK, NEW i \in Server, NEW m, RecvRequestVote(i, m)
    PROVE  Turn(i)
<1>1. ASSUME NEW j, NEW t, NEW g, ReplyVote(i, j, t, g)
      PROVE  Turn(i)
  BY <1>1, EmitAction, StayGrown, StandingTurn
     DEF ReplyVote, Send, Plain, standing, peerView
<1>2. ASSUME NEW j, NEW t, NEW v, NEW g, PersistVoteThenReply(i, j, t, v, g),
             role' = role \/ role' = Set(role, i, "FOLLOWER")
      PROVE  Turn(i)
  BY <1>2, PersistTurn DEF PersistVoteThenReply
<1> QED BY <1>1, <1>2 DEF RecvRequestVote, VoteNewTerm

\* raft89__step_down_new_term.
LEMMA StepDownTurn ==
    ASSUME TypeOK, NEW i \in Server, NEW t, StepDownNewTerm(i, t)
    PROVE  Turn(i)
BY PersistTurn DEF StepDownNewTerm

\* raft89__recv_vote_response.
LEMMA VoteResponseTurn ==
    ASSUME TypeOK, NEW i \in Server, action[i] = NoAction, NEW m,
           RecvVoteResponse(i, m)
    PROVE  Turn(i)
<1>1. CASE NewerTerm(i, m) /\ StepDownNewTerm(i, m.term)
  BY <1>1, StepDownTurn
<1>2. CASE UNCHANGED <<role, progress, peerView, control>>
  BY <1>2, IgnoreTurn DEF peerView, control
<1>3. CASE /\ role[i] = "CANDIDATE"
           /\ UNCHANGED lastLog
           /\ BecomeLeader(i, step[i])
  BY <1>3, BecomeTurn
<1>4. Ignore(i) => UNCHANGED <<role, progress, peerView, control>>
  BY DEF Ignore, standing
<1> QED BY <1>1, <1>2, <1>3, <1>4 DEF RecvVoteResponse

\* handle_ae_failure only moves a next index.
LEMMA FailureTurn ==
    ASSUME TypeOK, NEW i \in Server, NEW m, HandleAeFailure(i, m)
    PROVE  Turn(i)
<1>1. UNCHANGED <<role, matchIndex, progress>>
  BY DEF HandleAeFailure, standing
<1>2. \/ LeaderSendTo(i, m.from, step[i])
      \/ Fault(i, step[i])
  BY DEF HandleAeFailure
<1>3. Plain(i)
  BY <1>1, <1>2, SendToPlain, EmitAction, StayGrown DEF Plain
<1> QED BY <1>1, <1>3, StandingTurn

\* A match index only goes up (raft89__recv_ae_response).
LEMMA SuccessTurn ==
    ASSUME TypeOK, NEW i \in Server, NEW m \in Message, m.type = "AER",
           NewMatch(i, m), HandleAeSuccess(i, m)
    PROVE  Turn(i)
<1>1. /\ m.from \in Server /\ m.match \in Index
      /\ UNCHANGED <<role, lastLog>>
  BY MessageFields DEF HandleAeSuccess, standing
<1>2. /\ \A j \in Server \ {i} : matchIndex'[j] = matchIndex[j]
      /\ \A j \in Server :
            matchIndex'[i][j] = IF j = m.from THEN m.match ELSE matchIndex[i][j]
  BY <1>1 DEF HandleAeSuccess, TypeOK
<1>3. matchIndex[i][m.from] \in Nat /\ m.match \in Nat
  BY <1>1, MatchStays, Limits DEF Index
<1>4. \A j \in Server : matchIndex'[i][j] >= matchIndex[i][j]
  BY <1>2, <1>3, MatchStays DEF NewMatch
<1>5. Plain(i)
  <2>1. lastIndex'[i] \in Index
    BY <1>1 DEF TypeOK, lastLog
  <2> QED BY <2>1, MaybeCommitPlain DEF HandleAeSuccess
<1> QED BY <1>1, <1>2, <1>4, <1>5 DEF Turn, Plain

\* raft89__recv_ae_response.
LEMMA AeResponseTurn ==
    ASSUME TypeOK, NEW i \in Server, action[i] = NoAction, NEW m \in Message,
           m.type = "AER", RecvAeResponse(i, m)
    PROVE  Turn(i)
<1>1. Ignore(i) => Turn(i)
  BY IgnoreTurn DEF Ignore, standing, peerView, control
<1> QED BY <1>1, StepDownTurn, FailureTurn, SuccessTurn DEF RecvAeResponse

\* The commit index a follower computes is an index.
LEMMA FollowerCommitTyped ==
    ASSUME TypeOK', NEW i \in Server
    PROVE  FollowerCommit(i) \in Index
<1>1. ae'[i] \in Stash /\ lastIndex'[i] \in Index
  BY DEF TypeOK
<1>2. ae'[i].commit \in Index /\ ae'[i].match \in Index
  BY <1>1, StashFields
<1> QED BY <1>1, <1>2 DEF FollowerCommit, MinOf

\* ae_process makes a follower of the node (raft89__recv_append_entries).
LEMMA ProcessTurn ==
    ASSUME TypeOK, TypeOK', NEW i \in Server, NEW s, NEW a, NEW es,
           AeProcess(i, s, a, es)
    PROVE  Turn(i)
<1>1. /\ role' = Set(role, i, "FOLLOWER")
      /\ UNCHANGED matchIndex
  BY DEF AeProcess, peerView
<1>2. role'[i] = "FOLLOWER"
  BY <1>1 DEF TypeOK, Set
<1>3. ASSUME Grown(i)
      PROVE  Turn(i)
  BY <1>1, <1>2, <1>3 DEF Turn, Set, TypeOK
<1>4. CASE UNCHANGED progress
  BY <1>3, <1>4, StayGrown
<1>5. CASE \E x : AeFinish(i, x)
  BY <1>3, <1>5, FinishPlain, FollowerCommitTyped DEF Plain
<1> QED BY <1>4, <1>5 DEF AeProcess, AeApplyEntries

\* raft89__recv_append_entries.
LEMMA AppendEntriesTurn ==
    ASSUME TypeOK, TypeOK', NEW i \in Server, action[i] = NoAction,
           "nomem" \notin Faults, NEW m, RecvAppendEntries(i, m)
    PROVE  Turn(i)
<1>1. CASE SendAeFailure(i, m.from)
  BY <1>1, EmitAction, StayGrown, StandingTurn
     DEF SendAeFailure, Send, Plain, standing, peerView
<1>2. CASE StartAeHardState(i, m)
  BY <1>2, PersistTurn DEF StartAeHardState
<1> QED BY <1>1, <1>2, ProcessTurn DEF RecvAppendEntries, StashFails

\* raft89_recv.
LEMMA RecvTurn ==
    ASSUME TypeOK, TypeOK', "nomem" \notin Faults, NEW i \in Server,
           NEW m \in msgs, Recv(i, m)
    PROVE  Turn(i)
<1>1. m \in Message /\ action[i] = NoAction
  BY DEF TypeOK, Recv, Ready
<1> QED BY <1>1, RequestVoteTurn, VoteResponseTurn, AppendEntriesTurn,
           AeResponseTurn DEF Recv

\* A step of a leader's broadcast by itself.
LEMMA BroadcastTurn ==
    ASSUME TypeOK, TypeOK', NEW i \in Server, NEW c,
           UNCHANGED <<standing, peerView>>, LeaderBroadcastNext(i, c)
    PROVE  Turn(i)
<1>1. lastIndex'[i] \in Index
  BY DEF TypeOK
<1> QED BY <1>1, BroadcastPlain, StandingTurn DEF standing, peerView

\* raft89_tick.
LEMMA TickTurn ==
    ASSUME TypeOK, TypeOK', NEW i \in Server, Tick(i)
    PROVE  Turn(i)
<1>1. action[i] = NoAction
  BY DEF Tick, Ready
<1>2. CASE TickLeader(i)
  BY <1>2, BroadcastTurn DEF TickLeader
<1>3. CASE StartElection(i)
  <2>1. CASE Ignore(i)
    BY <1>1, <2>1, IgnoreTurn DEF Ignore, standing, peerView, control
  <2>2. CASE /\ role' = Set(role, i, "CANDIDATE")
             /\ Emit(i, HardState(currentTerm[i] + 1, i), "ELECTION_BROADCAST")
             /\ UNCHANGED <<progress, peerView>>
    BY <2>2, PersistTurn
  <2> QED BY <1>3, <2>1, <2>2 DEF StartElection
<1> QED BY <1>2, <1>3 DEF Tick, TickFollower

\* raft89_proposev.
LEMMA ProposeTurn ==
    ASSUME TypeOK, NEW i \in Server, NEW cmds, Propose(i, cmds)
    PROVE  Turn(i)
<1>1. UNCHANGED <<role, matchIndex, progress>>
  BY DEF Propose, Proposev, standing, peerView
<1>2. action'[i].type # "LOG_TRUNCATE"
  <2>1. \/ \E es : Emit(i, LogAppend(FirstNew(i), es), "LEADER_APPEND")
        \/ Fault(i, step[i])
        \/ Return(i, step[i])
    BY DEF Propose, Proposev
  <2>2. ASSUME NEW es, Emit(i, LogAppend(FirstNew(i), es), "LEADER_APPEND")
        PROVE  action'[i].type = "LOG_APPEND"
    BY <2>2, EmitAction DEF LogAppend
  <2> QED BY <2>1, <2>2, EmitAction
<1> QED BY <1>1, <1>2, StayGrown, KeepTurn

\* The continuation of an election (raft89__election_send_next).
LEMMA ElectionTurn ==
    ASSUME TypeOK, NEW i \in Server, role[i] = "CANDIDATE",
           ElectionSendNext(i)
    PROVE  Turn(i)
<1>1. UNCHANGED lastLog
  BY DEF ElectionSendNext
<1>2. CASE BecomeLeader(i, "NONE")
  BY <1>1, <1>2, BecomeTurn
<1>3. CASE /\ \/ \E m : Emit(i, Send(m), "ELECTION_BROADCAST")
              \/ Return(i, "NONE")
           /\ UNCHANGED <<role, progress, peerView>>
  <2>1. action'[i].type \in {"SEND", "NONE"}
    <3>1. ASSUME NEW m, Emit(i, Send(m), "ELECTION_BROADCAST")
          PROVE  action'[i].type = "SEND"
      BY <3>1, EmitAction DEF Send
    <3> QED BY <1>3, <3>1, EmitAction
  <2> QED BY <1>3, <2>1, StayGrown, KeepTurn DEF peerView
<1> QED BY <1>2, <1>3 DEF ElectionSendNext

\* raft89__apply_ack moves the applied position by one.
LEMMA ApplyAckTurn ==
    ASSUME TypeOK, NEW i \in Server, ApplyAck(i),
           appliedIndex[i] + 1 <= commitIndex[i]
    PROVE  Turn(i)
<1>1. /\ UNCHANGED <<role, matchIndex, commitIndex>>
      /\ appliedIndex' = Set(appliedIndex, i, Inc(appliedIndex[i]))
  BY DEF ApplyAck, standing, peerView
<1>2. Grown(i)
  <2>1. appliedIndex[i] \in Index /\ commitIndex[i] \in Index
    BY DEF TypeOK
  <2>2. appliedIndex'[i] = Inc(appliedIndex[i])
    BY <1>1 DEF Set, TypeOK
  <2>3. Inc(appliedIndex[i]) = appliedIndex[i] + 1
    BY <2>1, Limits DEF Inc, Index
  <2> QED BY <1>1, <2>1, <2>2, <2>3, Limits DEF Grown, Index
<1>3. action'[i].type # "LOG_TRUNCATE"
  <2>1. CASE AeSendReply(i)
    BY <2>1, EmitAction DEF AeSendReply, Send
  <2>2. CASE \E k : EmitNextApply(i, k, "NONE")
    BY <2>2, NextApplyType
  <2>3. CASE Return(i, "NONE")
    BY <2>3, EmitAction
  <2> QED BY <2>1, <2>2, <2>3 DEF ApplyAck
<1> QED BY <1>1, <1>2, <1>3, KeepTurn

\* The continuations after a change of the follower's log.
LEMMA AfterLogTurn ==
    ASSUME TypeOK, TypeOK', NEW i \in Server,
           AeAfterTruncate(i) \/ AeAfterAppend(i)
    PROVE  Turn(i)
<1>1. UNCHANGED <<role, matchIndex>>
  BY DEF AeAfterTruncate, AeAfterAppend, standing, peerView
<1>2. CASE /\ \/ \E k, es : Emit(i, LogAppend(k, es), "AE_APPEND")
              \/ \E s : Fault(i, s)
           /\ UNCHANGED progress
  <2>1. ASSUME NEW k, NEW es, Emit(i, LogAppend(k, es), "AE_APPEND")
        PROVE  action'[i].type = "LOG_APPEND"
    BY <2>1, EmitAction DEF LogAppend
  <2> QED BY <1>1, <1>2, <2>1, EmitAction, StayGrown, KeepTurn
<1>3. CASE AeFinish(i, "AE_APPEND")
  BY <1>1, <1>3, FinishPlain, FollowerCommitTyped, StandingTurn
<1> QED BY <1>2, <1>3 DEF AeAfterTruncate, AeAfterAppend, LastUnreadable

\* raft89_action_done, whatever the continuation.
LEMMA DoneTurn ==
    ASSUME NodesInv, NodesInv', VoteInv, NEW i \in Server, ActionDone(i)
    PROVE  Turn(i)
<1>1. /\ TypeOK /\ TypeOK' /\ LocalInv(i) /\ StepFits(i)
      /\ action[i] \in Action
  BY DEF NodesInv, ActionDone, LocalInv, TypeOK
<1>2. CASE step[i] = "ELECTION_BROADCAST" /\ ElectionSendNext(i)
  BY <1>1, <1>2, ElectionTurn DEF VoteInv, NodeInv, Electing
<1>3. CASE VoteResponseSend(i)
  BY <1>1, <1>3, EmitAction, StayGrown, KeepTurn
     DEF VoteResponseSend, Send, standing, peerView
<1>4. CASE LeaderBroadcastOn(i)
  BY <1>1, <1>4, BroadcastTurn DEF LeaderBroadcastOn
<1>5. CASE LeaderAfterAppend(i)
  BY <1>1, <1>5, BroadcastTurn DEF LeaderAfterAppend
<1>6. CASE AeContinue(i)
  BY <1>1, <1>6, ProcessTurn DEF AeContinue
<1>7. CASE AeAfterTruncate(i) \/ AeAfterAppend(i)
  BY <1>1, <1>7, AfterLogTurn
<1>8. CASE step[i] = "APPLY" /\ ApplyAck(i)
  <2>1. appliedIndex[i] + 1 <= commitIndex[i]
    BY <1>1, <1>8, StepActions DEF LocalInv, ActionFits
  <2> QED BY <1>1, <1>8, <2>1, ApplyAckTurn
<1>9. CASE EndOfChain(i)
  BY <1>1, <1>9, EmitAction, StayGrown, KeepTurn
     DEF EndOfChain, standing, peerView
<1> QED BY <1>2, <1>3, <1>4, <1>5, <1>6, <1>7, <1>8, <1>9
        DEF ActionDone, Resume

---------------------------------------------------------------------------
(* A step of the cluster is a step of one node.                            *)

\* The other nodes stay as they are.
Others(i) ==
    \A j \in Server \ {i} :
        /\ hard'[j] = hard[j] /\ log'[j] = log[j] /\ app'[j] = app[j]
        /\ currentTerm'[j] = currentTerm[j] /\ role'[j] = role[j]
        /\ commitIndex'[j] = commitIndex[j]
        /\ appliedIndex'[j] = appliedIndex[j]
        /\ afterApply'[j] = afterApply[j]
        /\ matchIndex'[j] = matchIndex[j]
        /\ faulted'[j] = faulted[j] /\ action'[j] = action[j]
        /\ step'[j] = step[j]
        /\ ae'[j] = ae[j] /\ pending'[j] = pending[j]

\* The host calls node i, or acknowledges its action.
Call(i) ==
    \/ \E m \in msgs : Recv(i, m)
    \/ Tick(i)
    \/ \E cmds \in Batches : Propose(i, cmds)

\* A host effect is on the state of one node.
LEMMA EffectOthers ==
    ASSUME TypeOK, NEW i \in Server, HostEffect(i) \/ PartialEffect(i),
           NEW j \in Server \ {i}
    PROVE  app'[j] = app[j]
<1>1. HostEffect(i) => app'[j] = app[j]
  BY DEF HostEffect, Set, TypeOK
<1> QED BY <1>1 DEF PartialEffect, durable

\* A handled call with a proper turn leaves the others alone.
LEMMA HandledOthers ==
    ASSUME NEW i \in Server, Called(i), Handled(i), Turn(i),
           \A j \in Server \ {i} : app'[j] = app[j]
    PROVE  Others(i)
BY DEF Called, Handled, Turn, Others, DurableMoves, TermMoves, Moves,
   ProgressMoves, ControlMoves, StashMoves

\* A public call.
LEMMA CallOthers ==
    ASSUME NodesInv, NodesInv', "nomem" \notin Faults, NEW i \in Server,
           Call(i)
    PROVE  Called(i) /\ Handled(i) /\ Turn(i) /\ Others(i)
<1>1. TypeOK /\ TypeOK'
  BY DEF NodesInv
<1>2. Called(i) /\ Handled(i)
  BY RecvHandled, TickCallHandled, ProposeCallHandled DEF Call
<1>3. Turn(i)
  BY <1>1, RecvTurn, TickTurn, ProposeTurn DEF Call
<1>4. UNCHANGED app
  BY DEF Call, Recv, Tick, Propose, durable
<1> QED BY <1>2, <1>3, <1>4, HandledOthers

\* An acknowledgement.
LEMMA DoneOthers ==
    ASSUME NodesInv, NodesInv', VoteInv, "nomem" \notin Faults,
           NEW i \in Server, ActionDone(i)
    PROVE  Called(i) /\ Effect(i) /\ Handled(i) /\ Turn(i) /\ Others(i)
<1>1. TypeOK /\ HostEffect(i)
  BY DEF NodesInv, ActionDone
<1>2. Called(i) /\ Effect(i) /\ Handled(i) /\ Turn(i)
  BY DoneHandled, DoneTurn
<1> QED BY <1>1, <1>2, EffectOthers, HandledOthers

\* A latched fault and a crash.
LEMMA CrashOthers ==
    ASSUME NodesInv, NEW i \in Server, ActionFatal(i) \/ Restart(i)
    PROVE  Others(i)
<1>1. TypeOK /\ LocalInv(i)
  BY DEF NodesInv
<1>2. CASE ActionFatal(i)
  BY <1>1, <1>2 DEF ActionFatal, Others, durable, termVars, standing,
     progress, peerView, stash, Set, TypeOK
<1>3. CASE Restart(i)
  <2>1. DurableMoves(i) /\ \A j \in Server \ {i} : app'[j] = app[j]
    BY <1>1, <1>3, PartialEffects, EffectOthers DEF Restart
  <2>2. \A j \in Server \ {i} :
           /\ currentTerm'[j] = currentTerm[j] /\ role'[j] = role[j]
           /\ commitIndex'[j] = commitIndex[j]
           /\ appliedIndex'[j] = appliedIndex[j]
           /\ afterApply'[j] = afterApply[j]
           /\ matchIndex'[j] = matchIndex[j]
    BY <1>1, <1>3 DEF Restart, Set, TypeOK
  <2>3. \A j \in Server \ {i} :
           /\ faulted'[j] = faulted[j] /\ action'[j] = action[j]
           /\ step'[j] = step[j] /\ ae'[j] = ae[j] /\ pending'[j] = pending[j]
    BY <1>1, <1>3 DEF Restart, Set, TypeOK
  <2> QED BY <2>1, <2>2, <2>3 DEF Others, DurableMoves
<1> QED BY <1>2, <1>3

\* Every step of the cluster is one of these of some node.
LEMMA NextCases ==
    ASSUME Next
    PROVE  \E i \in Server :
              \/ Call(i) /\ UNCHANGED msgs
              \/ Done(i)
              \/ Fatal(i)
              \/ CrashRestart(i)
BY DEF Next, Receive, Timeout, ClientRequest, Call

---------------------------------------------------------------------------
(* Theorems.                                                               *)

\* Only a follower truncates its log.
Duty == \A i \in Server : action[i].type = "LOG_TRUNCATE" => role[i] = "FOLLOWER"

\* The invariants of single nodes, of voting and of duties together.
LocalState == NodesInv /\ VoteInv /\ Duty

\* A proper turn keeps the duties.
LEMMA TurnDuty ==
    ASSUME Duty, NEW i \in Server, Turn(i), Others(i)
    PROVE  Duty'
BY DEF Duty, Turn, Others

\* No step makes a leader truncate.
LEMMA LocalStateNext ==
    ASSUME LocalState, "nomem" \notin Faults, [Next]_vars
    PROVE  LocalState'
<1>1. NodesInv /\ NodesInv' /\ VoteInv /\ VoteInv' /\ Duty
  BY NodesNext, VoteInvNext DEF LocalState
<1> SUFFICES Duty'
  BY <1>1 DEF LocalState
<1>2. CASE UNCHANGED vars
  BY <1>1, <1>2 DEF vars, nodeVars, Duty, control, standing
<1>3. ASSUME NEW i \in Server, Call(i) \/ Done(i)
      PROVE  Duty'
  BY <1>1, <1>3, CallOthers, DoneOthers, TurnDuty DEF Done
<1>4. ASSUME NEW i \in Server, Fatal(i)
      PROVE  Duty'
  BY <1>1, <1>4 DEF Fatal, ActionFatal, Duty, standing
<1>5. ASSUME NEW i \in Server, CrashRestart(i)
      PROVE  Duty'
  <2>1. Others(i) /\ TypeOK
    BY <1>1, <1>5, CrashOthers DEF CrashRestart, NodesInv
  <2>2. action'[i].type = "NONE"
    BY <1>5, <2>1 DEF CrashRestart, Restart, Set, TypeOK, NoAction
  <2> QED BY <1>1, <2>1, <2>2 DEF Duty, Others
<1> QED BY <1>2, <1>3, <1>4, <1>5, NextCases

\* A cluster starts without actions.
LEMMA LocalStateInit == Init => LocalState
BY NodesInit, VoteInvInit DEF Init, LocalState, Duty, NoAction

\* The node-local invariant and the duties hold always.
LEMMA LocalStateHolds ==
    ASSUME "nomem" \notin Faults
    PROVE  Spec => []LocalState
BY LocalStateInit, LocalStateNext, PTL DEF Spec

\* A log is a prefix of itself and of itself continued.
LEMMA PrefixOfLonger ==
    ASSUME NEW l \in Seq(Entry), NEW es \in Seq(Entry)
    PROVE  IsPrefix(l, l) /\ IsPrefix(l, l \o es)
<1>1. Len(l) \in Nat /\ Len(es) \in Nat
  BY LenProperties
<1>2. Len(l \o es) = Len(l) + Len(es)
  BY ConcatProperties
<1>3. SubSeq(l, 1, Len(l)) = SubSeq(l \o es, 1, Len(l))
  <2>1. \A k \in 1..Len(l) : (l \o es)[k] = l[k]
    BY ConcatProperties
  <2> QED BY <1>1, <2>1
<1> QED BY <1>1, <1>2, <1>3 DEF IsPrefix

\* A node that stays leader keeps its log or appends to it.
LEMMA LeaderAppends ==
    ASSUME LocalState, LocalState', "nomem" \notin Faults, NEW i \in Server,
           Call(i) \/ Done(i) \/ Fatal(i) \/ CrashRestart(i),
           NEW j \in Server, role[j] = "LEADER", role'[j] = "LEADER"
    PROVE  IsPrefix(log[j], log'[j])
<1>1. /\ NodesInv /\ NodesInv' /\ VoteInv /\ TypeOK
      /\ log[j] \in Seq(Entry) /\ log'[j] \in Seq(Entry)
  BY DEF LocalState, NodesInv, TypeOK
<1>2. CASE log'[j] = log[j]
  BY <1>1, <1>2, PrefixOfLonger
<1>3. CASE j # i
  BY <1>1, <1>2, <1>3, CallOthers, DoneOthers, CrashOthers
     DEF Others, Done, Fatal, CrashRestart
<1>4. CASE j = i /\ (Call(i) \/ Fatal(i))
  BY <1>2, <1>4 DEF Call, Recv, Tick, Propose, durable, Fatal, ActionFatal
<1>5. CASE j = i /\ Done(i)
  <2>1. Effect(i)
    BY <1>1, <1>5, DoneOthers DEF Done
  <2>2. action[i].type # "LOG_TRUNCATE"
    BY <1>5 DEF LocalState, Duty
  <2>3. CASE action[i].type = "LOG_APPEND"
    <3>1. action[i].entries \in Seq(Entry)
      BY <1>1, <2>3, ActionFields DEF TypeOK
    <3> QED BY <1>1, <1>5, <2>1, <2>3, <3>1, PrefixOfLonger DEF Effect
  <2> QED BY <1>2, <1>5, <2>1, <2>2, <2>3 DEF Effect
<1>6. CASE j = i /\ CrashRestart(i)
  BY <1>1, <1>6 DEF CrashRestart, Restart, Set, TypeOK
<1> QED BY <1>3, <1>4, <1>5, <1>6

\* I06: a node that stays leader never loses or rewrites an entry of its own
\* log, whatever it receives (raft89_proposev, raft89__leader_after_append).
THEOREM LeaderAppendOnlyHolds ==
    ASSUME "nomem" \notin Faults
    PROVE  Spec => LeaderAppendOnly
<1>1. ASSUME LocalState, LocalState', [Next]_vars
      PROVE  [\A i \in Server :
                 role[i] = "LEADER" /\ role'[i] = "LEADER" =>
                     IsPrefix(log[i], log'[i])]_vars
  BY <1>1, NextCases, LeaderAppends
<1> QED BY <1>1, LocalStateHolds, PTL DEF Spec, LeaderAppendOnly

\* Positions do not go back, except in a crash.
LEMMA ProgressKept ==
    ASSUME LocalState, LocalState', "nomem" \notin Faults, NEW i \in Server,
           Call(i) \/ Done(i) \/ Fatal(i) \/ CrashRestart(i),
           NEW j \in Server, ~CrashRestart(j)
    PROVE  /\ commitIndex'[j] >= commitIndex[j]
           /\ appliedIndex'[j] >= appliedIndex[j]
           /\ role[j] = "LEADER" /\ role'[j] = "LEADER" =>
                \A k \in Server : matchIndex'[j][k] >= matchIndex[j][k]
<1>1. NodesInv /\ NodesInv' /\ VoteInv /\ TypeOK
  BY DEF LocalState, NodesInv
<1>2. CASE UNCHANGED <<progress, matchIndex>>
  BY <1>1, <1>2, StayGrown, MatchStays DEF Grown
<1>3. CASE j = i /\ (Call(i) \/ Done(i))
  BY <1>1, <1>3, CallOthers, DoneOthers DEF Turn, Grown, Done
<1>4. CASE j = i /\ Fatal(i)
  BY <1>2, <1>4 DEF Fatal, ActionFatal, peerView
<1>5. CASE j # i
  <2>1. /\ commitIndex'[j] = commitIndex[j]
        /\ appliedIndex'[j] = appliedIndex[j]
        /\ matchIndex'[j] = matchIndex[j]
    BY <1>1, <1>5, CallOthers, DoneOthers, CrashOthers
       DEF Others, Done, Fatal, CrashRestart
  <2>2. commitIndex[j] \in Nat /\ appliedIndex[j] \in Nat
    BY <1>1, Limits DEF TypeOK, Index
  <2> QED BY <1>1, <2>1, <2>2, MatchStays
<1> QED BY <1>3, <1>4, <1>5

\* I11, I12 and I19: within one incarnation commit and applied positions
\* never go back, nor does match_index within one leadership
\* (raft89__advance_commit, raft89__recv_ae_response).
THEOREM ProgressMonotoneHolds ==
    ASSUME "nomem" \notin Faults
    PROVE  Spec => ProgressMonotone
<1>1. ASSUME LocalState, LocalState', [Next]_vars
      PROVE  [\A i \in Server :
                 ~CrashRestart(i) =>
                     /\ commitIndex'[i] >= commitIndex[i]
                     /\ appliedIndex'[i] >= appliedIndex[i]
                     /\ role[i] = "LEADER" /\ role'[i] = "LEADER" =>
                          \A j \in Server :
                             matchIndex'[i][j] >= matchIndex[i][j]]_vars
  BY <1>1, NextCases, ProgressKept
<1> QED BY <1>1, LocalStateHolds, PTL DEF Spec, ProgressMonotone

---------------------------------------------------------------------------
(* The past.                                                               *)

\* The type of the hard states.
HardStates == [Server -> [term : Term, vote : Id]]

\* The type of the logs.
Logs == [Server -> Seq(Entry)]

---------------------------------------------------------------------------
(* Common prefixes.                                                        *)

\* Lengths are natural numbers.
LEMMA LenNat ==
    ASSUME NEW l \in Seq(Entry)
    PROVE  Len(l) \in Nat
BY LenProperties

\* Having a common prefix is symmetric and transitive.
LEMMA SameSym ==
    ASSUME NEW l, NEW m, NEW k, Same(l, m, k)
    PROVE  Same(m, l, k)
BY DEF Same

\* Agreement of logs up to k is transitive.
LEMMA SameTrans ==
    ASSUME NEW l, NEW m, NEW n, NEW k, Same(l, m, k), Same(m, n, k)
    PROVE  Same(l, n, k)
BY DEF Same

\* A shorter prefix is common too.
LEMMA SameShorter ==
    ASSUME NEW l \in Seq(Entry), NEW m \in Seq(Entry), NEW k \in Int,
           NEW h \in Int, h <= k, Same(l, m, k)
    PROVE  Same(l, m, h)
<1>1. Len(l) \in Nat /\ Len(m) \in Nat
  BY LenNat
<1> QED BY <1>1 DEF Same

\* The empty prefix is common.
LEMMA SameNone ==
    ASSUME NEW l \in Seq(Entry), NEW m \in Seq(Entry)
    PROVE  Same(l, m, 0) /\ Same(l, l, Len(l))
<1>1. Len(l) \in Nat /\ Len(m) \in Nat
  BY LenNat
<1> QED BY <1>1 DEF Same

\* The leaders' logs are logs.
LEMMA LeaderLog ==
    ASSUME NEW L, LeaderLogs(L), NEW u \in DOMAIN L
    PROVE  /\ u \in Term /\ u \in Nat
           /\ L[u] \in Seq(Entry) /\ Len(L[u]) \in Nat
           /\ Agrees(L, L[u])
BY LenNat, Limits DEF LeaderLogs, Term

\* I05: logs that agree with the leaders' logs match each other.
LEMMA AgreeingLogsMatch ==
    ASSUME NEW L, NEW l, NEW m, Agrees(L, l), Agrees(L, m),
           NEW k, k \in 1..Len(l), k \in 1..Len(m), l[k].term = m[k].term
    PROVE  Same(l, m, k)
BY SameSym, SameTrans DEF Agrees

\* Terms never decrease along a log that agrees with the leaders'.
LEMMA TermsOrdered ==
    ASSUME NEW L, LeaderLogs(L), NEW l \in Seq(Entry), Agrees(L, l),
           NEW k \in 1..Len(l), NEW g \in 1..k
    PROVE  l[g].term <= l[k].term
<1> DEFINE t == l[k].term
<1>1. t \in DOMAIN L /\ Same(l, L[t], k)
  BY DEF Agrees
<1>2. Len(L[t]) \in Nat /\ Len(l) \in Nat
  BY <1>1, LeaderLog, LenNat
<1>3. k \in 1..Len(L[t]) /\ l[g] = L[t][g] /\ l[k] = L[t][k]
  BY <1>1, <1>2 DEF Same
<1> QED BY <1>1, <1>3 DEF LeaderLogs

---------------------------------------------------------------------------
(* Quorums.                                                                *)

\* Two quorums have a member in common.
LEMMA QuorumsShare ==
    ASSUME NEW Q \in Quorums, NEW R \in Quorums
    PROVE  \E j \in Server : j \in Q /\ j \in R
<1>1. Q \in SUBSET Server /\ R \in SUBSET Server
  BY DEF Quorums
<1>2. IsQuorum(Cardinality(Q)) /\ IsQuorum(Cardinality(R))
  BY DEF Quorums
<1>3. Q \cap R # {}
  BY <1>1, <1>2, QuorumsMeet
<1> QED BY <1>1, <1>3

\* What is chosen is not lost.
LEMMA ChosenNotLost ==
    ASSUME NEW h, NEW A, NEW t, NEW k, Chosen(A, t, k), Lost(h, A, t, k)
    PROVE  FALSE
BY QuorumsShare DEF Chosen, Lost

\* What is chosen is an entry of its leader.
LEMMA ChosenHeld ==
    ASSUME NEW L, NEW A, NEW h, NEW l, AcksKept(L, A, h, l),
           NEW t, NEW k, Chosen(A, t, k)
    PROVE  /\ t \in Term /\ k \in Index
           /\ t \in DOMAIN L /\ Holds(L[t], t, k)
<1>1. PICK Q \in Quorums : \A i \in Q : <<i, t, k>> \in A
  BY DEF Chosen
<1>2. PICK j \in Server : j \in Q
  BY QuorumsShare
<1>3. <<j, t, k>> \in Server \X Term \X Index
  BY <1>1, <1>2 DEF AcksKept
<1> QED BY <1>1, <1>2, <1>3 DEF AcksKept

\* Later leaders have what is committed.
LEMMA CommittedInLeader ==
    ASSUME NEW L, NEW A, NEW h, NEW l, LeaderLogs(L), AcksKept(L, A, h, l),
           LeadersComplete(L, A, h),
           NEW s \in Seq(Entry), NEW v \in Nat, NEW c \in Nat,
           Committed(L, A, s, v, c), NEW u \in DOMAIN L, v <= u
    PROVE  Same(s, L[u], c)
<1>1. L[u] \in Seq(Entry) /\ u \in Nat /\ Agrees(L, L[u])
  BY LeaderLog
<1>2. CASE c = 0
  BY <1>1, <1>2, SameNone
<1>3. ASSUME NEW t \in DOMAIN L, NEW k \in 1..Len(L[t]),
             t <= v, c <= k, Chosen(A, t, k), Same(s, L[t], c)
      PROVE  Same(s, L[u], c)
  <2>1. t \in Nat /\ L[t] \in Seq(Entry) /\ k \in Int
    BY LeaderLog
  <2>2. CASE t = u
    BY <1>3, <2>2
  <2>3. CASE t < u
    <3>1. L[t][k].term = t
      BY <1>3, ChosenHeld DEF Holds
    <3>2. Holds(L[u], t, k)
      BY <1>3, <2>3, <3>1, ChosenNotLost DEF LeadersComplete
    <3>3. Same(L[u], L[t], k)
      BY <1>1, <3>2 DEF Holds, Agrees
    <3>4. Same(L[t], L[u], c)
      BY <1>1, <1>3, <2>1, <3>3, SameSym, SameShorter
    <3> QED BY <1>3, <3>4, SameTrans
  <2> QED BY <1>1, <1>3, <2>1, <2>2, <2>3
<1> QED BY <1>2, <1>3 DEF Committed

\* Committed prefixes are prefixes of each other.
LEMMA CommittedAgree ==
    ASSUME NEW L, NEW A, NEW h, NEW l, LeaderLogs(L), AcksKept(L, A, h, l),
           LeadersComplete(L, A, h),
           NEW s \in Seq(Entry), NEW v \in Nat, NEW c \in Nat,
           Committed(L, A, s, v, c),
           NEW r \in Seq(Entry), NEW w \in Nat, NEW d \in Nat,
           Committed(L, A, r, w, d),
           c <= d
    PROVE  Same(s, r, c)
<1>1. CASE c = 0
  BY <1>1, SameNone
<1>2. ASSUME NEW t \in DOMAIN L, NEW k \in 1..Len(L[t]), t <= v, c <= k,
             Chosen(A, t, k), Same(s, L[t], c),
             NEW x \in DOMAIN L, NEW y \in 1..Len(L[x]), x <= w, d <= y,
             Chosen(A, x, y), Same(r, L[x], d)
      PROVE  Same(s, r, c)
  <2>1. /\ t \in Nat /\ L[t] \in Seq(Entry)
        /\ x \in Nat /\ L[x] \in Seq(Entry)
    BY LeaderLog
  <2>2. Committed(L, A, s, t, c)
    <3>1. t <= t
      BY <2>1
    <3> QED BY <1>2, <3>1 DEF Committed
  <2>3. Committed(L, A, r, x, d)
    <3>1. x <= x
      BY <2>1
    <3> QED BY <1>2, <3>1 DEF Committed
  <2>4. CASE t <= x
    <3>1. Same(s, L[x], c)
      BY <2>1, <2>2, <2>4, CommittedInLeader
    <3>2. Same(L[x], r, c)
      BY <1>2, <2>1, SameShorter, SameSym
    <3> QED BY <3>1, <3>2, SameTrans
  <2>5. CASE x <= t
    <3>1. Same(r, L[t], d)
      BY <2>1, <2>3, <2>5, CommittedInLeader
    <3>2. Same(L[t], r, c)
      BY <2>1, <3>1, SameShorter, SameSym
    <3> QED BY <1>2, <3>2, SameTrans
  <2> QED BY <2>1, <2>4, <2>5
<1>3. c # 0 => d # 0
  OBVIOUS
<1> QED BY <1>1, <1>2, <1>3 DEF Committed

---------------------------------------------------------------------------
(* A step of node i adds to the past.                                      *)

\* The leaders' logs grow.
Extends(L, M) ==
    /\ DOMAIN L \subseteq DOMAIN M
    /\ \A u \in DOMAIN L : Same(L[u], M[u], Len(L[u]))

\* Only i acknowledges, in its new term.
News(A, B, g, i) ==
    /\ A \subseteq B
    /\ \A j, t, k :
          <<j, t, k>> \in B => <<j, t, k>> \in A \/ (j = i /\ t = g[i].term)

\* Only i changes its hard state, and never back.
Ahead(h, g, i) ==
    /\ h \in HardStates
    /\ g \in HardStates
    /\ \A j \in Server \ {i} : g[j] = h[j]
    /\ \/ g[i] = h[i]
       \/ g[i].term > h[i].term
       \/ g[i].term = h[i].term /\ h[i].vote = NoId

\* The leaders' logs grow by the news of node i only.
Grows(L, A, h, M, B, g, i) ==
    /\ LeaderLogs(L)
    /\ LeaderLogs(M)
    /\ Extends(L, M)
    /\ News(A, B, g, i)
    /\ Ahead(h, g, i)

\* Hard states are terms and votes.
LEMMA HardTerms ==
    ASSUME NEW h \in HardStates, NEW j \in Server
    PROVE  h[j].term \in Term /\ h[j].term \in Nat /\ h[j].vote \in Id
BY Limits DEF HardStates, Term

\* Durable terms do not go back.
LEMMA TermsLater ==
    ASSUME NEW i \in Server, NEW h, NEW g, Ahead(h, g, i), NEW j \in Server
    PROVE  /\ h[j].term \in Nat /\ g[j].term \in Nat
           /\ g[j].term >= h[j].term
<1>1. h[j].term \in Nat /\ g[j].term \in Nat
  BY HardTerms DEF Ahead
<1> QED BY <1>1 DEF Ahead

\* What is lost stays lost.
LEMMA LostLater ==
    ASSUME NEW i \in Server, NEW L, NEW A, NEW h, NEW M, NEW B, NEW g,
           Grows(L, A, h, M, B, g, i),
           NEW t \in Term, NEW k, Lost(h, A, t, k)
    PROVE  Lost(g, B, t, k)
<1>1. PICK Q \in Quorums : \A j \in Q : h[j].term > t /\ <<j, t, k>> \notin A
  BY DEF Lost
<1>2. ASSUME NEW j \in Q
      PROVE  g[j].term > t /\ <<j, t, k>> \notin B
  <2>1. j \in Server /\ t \in Nat
    BY Limits DEF Quorums, Term
  <2>2. h[j].term \in Nat /\ g[j].term \in Nat /\ g[j].term >= h[j].term
    BY <2>1, TermsLater DEF Grows
  <2>3. h[j].term > t /\ <<j, t, k>> \notin A
    BY <1>1
  <2>4. g[j].term > t
    BY ONLY <2>1, <2>2, <2>3
  <2> QED BY <2>1, <2>2, <2>3, <2>4 DEF Grows, News
<1> QED BY <1>2 DEF Lost

\* What is chosen stays chosen.
LEMMA ChosenLater ==
    ASSUME NEW A, NEW B, A \subseteq B, NEW t, NEW k, Chosen(A, t, k)
    PROVE  Chosen(B, t, k)
BY DEF Chosen

\* A term that has been reached stays reached.
LEMMA ReachedLater ==
    ASSUME NEW i \in Server, NEW h, NEW g, Ahead(h, g, i), NEW u \in Term,
           Reached(h, u)
    PROVE  Reached(g, u)
<1>1. PICK Q \in Quorums :
        \A j \in Q : h[j].term > u \/ (h[j].term = u /\ h[j].vote # NoId)
  BY DEF Reached
<1>2. ASSUME NEW j \in Q
      PROVE  g[j].term > u \/ (g[j].term = u /\ g[j].vote # NoId)
  <2>1. j \in Server /\ u \in Nat
    BY Limits DEF Quorums, Term
  <2>2. h[j].term \in Nat /\ g[j].term \in Nat /\ g[j].term >= h[j].term
    BY <2>1, TermsLater
  <2> QED BY <1>1, <2>1, <2>2 DEF Ahead
<1> QED BY <1>2 DEF Reached

\* A prefix of a leader's log stays one.
LEMMA SameLater ==
    ASSUME NEW L, NEW M, LeaderLogs(L), LeaderLogs(M), Extends(L, M),
           NEW u \in DOMAIN L, NEW l, NEW k \in Int, Same(l, L[u], k)
    PROVE  u \in DOMAIN M /\ Same(l, M[u], k)
<1>1. /\ u \in DOMAIN M /\ Same(L[u], M[u], Len(L[u])) /\ k <= Len(L[u])
      /\ L[u] \in Seq(Entry) /\ M[u] \in Seq(Entry) /\ Len(L[u]) \in Nat
  BY LeaderLog DEF Extends, Same
<1>2. Same(L[u], M[u], k)
  BY <1>1, SameShorter
<1> QED BY <1>1, <1>2, SameTrans

\* What a leader held it holds.
LEMMA HeldLater ==
    ASSUME NEW L, NEW M, LeaderLogs(L), LeaderLogs(M), Extends(L, M),
           NEW u \in DOMAIN L, NEW t, NEW k, Holds(L[u], t, k)
    PROVE  u \in DOMAIN M /\ Holds(M[u], t, k) /\ M[u][k] = L[u][k]
<1>1. /\ L[u] \in Seq(Entry) /\ Len(L[u]) \in Nat
      /\ u \in DOMAIN M /\ Len(M[u]) \in Nat
      /\ Same(L[u], M[u], Len(L[u]))
  BY LeaderLog DEF Extends
<1> QED BY <1>1 DEF Same, Holds

\* A log that agreed with the leaders' does.
LEMMA AgreesLater ==
    ASSUME NEW L, NEW M, LeaderLogs(L), LeaderLogs(M), Extends(L, M),
           NEW l, Len(l) \in Nat, Agrees(L, l)
    PROVE  Agrees(M, l)
BY SameLater DEF Agrees

\* What is committed stays committed.
LEMMA CommittedLater ==
    ASSUME NEW i \in Server, NEW L, NEW A, NEW h, NEW M, NEW B, NEW g,
           Grows(L, A, h, M, B, g, i),
           NEW l, NEW u \in Nat, NEW v \in Nat, u <= v, NEW c \in Nat,
           Committed(L, A, l, u, c)
    PROVE  Committed(M, B, l, v, c)
<1>1. CASE c = 0
  BY <1>1 DEF Committed
<1>2. ASSUME NEW t \in DOMAIN L, NEW k \in 1..Len(L[t]), t <= u, c <= k,
             Chosen(A, t, k), Same(l, L[t], c)
      PROVE  Committed(M, B, l, v, c)
  <2>1. /\ t \in Nat /\ Len(L[t]) \in Nat
        /\ t \in DOMAIN M /\ Len(M[t]) \in Nat /\ Len(L[t]) <= Len(M[t])
    BY LeaderLog DEF Grows, Extends, Same
  <2>2. Same(l, M[t], c) /\ Chosen(B, t, k)
    BY <1>2, SameLater, ChosenLater DEF Grows, News
  <2>3. k \in 1..Len(M[t]) /\ t <= v
    BY <1>2, <2>1
  <2> QED BY <1>2, <2>1, <2>2, <2>3 DEF Committed
<1> QED BY <1>1, <1>2 DEF Committed

\* Less is committed as well.
LEMMA CommittedLess ==
    ASSUME NEW L, LeaderLogs(L), NEW A, NEW l \in Seq(Entry), NEW m,
           NEW u, NEW c \in Nat, NEW d \in Nat, d <= c,
           Committed(L, A, l, u, c), Same(m, l, d)
    PROVE  Committed(L, A, m, u, d)
<1>1. CASE c = 0
  BY <1>1 DEF Committed
<1>2. ASSUME NEW t \in DOMAIN L, NEW k \in 1..Len(L[t]), t <= u, c <= k,
             Chosen(A, t, k), Same(l, L[t], c)
      PROVE  Committed(L, A, m, u, d)
  <2>1. L[t] \in Seq(Entry)
    BY LeaderLog
  <2>2. Same(m, L[t], d)
    BY <1>2, <2>1, SameShorter, SameTrans
  <2>3. d <= k
    BY <1>2
  <2> QED BY <1>2, <2>2, <2>3 DEF Committed
<1> QED BY <1>1, <1>2 DEF Committed

---------------------------------------------------------------------------
(* The parts of the past after a step.                                     *)

\* Only i changes its log.
LogMoves(l, m, i) ==
    /\ l \in Logs
    /\ m \in Logs
    /\ \A j \in Server \ {i} : m[j] = l[j]
    /\ \A j \in Server : Len(m[j]) <= IndexMax

\* The acknowledgements of i after its step.
LEMMA AcksAfter ==
    ASSUME NEW i \in Server, NEW A, NEW g, NEW m, NEW B,
           B = A \union NewAcks(g, m, i)
    PROVE  /\ News(A, B, g, i)
           /\ \A k : Holds(m[i], g[i].term, k) => <<i, g[i].term, k>> \in B
           /\ \A j, t, k : <<j, t, k>> \in B =>
                 \/ <<j, t, k>> \in A
                 \/ j = i /\ t = g[i].term /\ Holds(m[i], t, k)
BY DEF NewAcks, News, Holds

\* Logs still agree with the leaders' if that of i does.
LEMMA LogsAgreeNext ==
    ASSUME NEW i \in Server, NEW L, NEW A, NEW h, NEW M, NEW B, NEW g,
           Grows(L, A, h, M, B, g, i), NEW l, NEW m, LogMoves(l, m, i),
           LogsAgree(L, h, l), Agrees(M, m[i]),
           \A k \in 1..Len(m[i]) : m[i][k].term <= g[i].term
    PROVE  LogsAgree(M, g, m)
<1> SUFFICES ASSUME NEW j \in Server
             PROVE  /\ Agrees(M, m[j])
                    /\ \A k \in 1..Len(m[j]) : m[j][k].term <= g[j].term
  BY DEF LogsAgree
<1>1. CASE j = i
  BY <1>1
<1>2. CASE j # i
  <2>1. m[j] = l[j] /\ g[j] = h[j] /\ Len(l[j]) \in Nat
    BY <1>2, LenNat DEF LogMoves, Logs, Grows, Ahead
  <2> QED BY <2>1, AgreesLater DEF LogsAgree, Grows
<1> QED BY <1>1, <1>2

\* Acknowledged entries are still held or lost if i gave up lost ones only.
LEMMA AcksKeptNext ==
    ASSUME NEW i \in Server, NEW L, NEW A, NEW h, NEW M, NEW B, NEW g,
           Grows(L, A, h, M, B, g, i), NEW l, NEW m, LogMoves(l, m, i),
           B = A \union NewAcks(g, m, i), LogsAgree(M, g, m),
           AcksKept(L, A, h, l),
           \A t \in Term, k \in Index :
              Holds(l[i], t, k) => Holds(m[i], t, k) \/ Lost(h, A, t, k)
    PROVE  AcksKept(M, B, g, m)
<1>0. /\ \A k : Holds(m[i], g[i].term, k) => <<i, g[i].term, k>> \in B
      /\ \A j, t, k : <<j, t, k>> \in B =>
            \/ <<j, t, k>> \in A
            \/ j = i /\ t = g[i].term /\ Holds(m[i], t, k)
  BY DEF NewAcks, Holds
<1>1. Ahead(h, g, i) /\ LeaderLogs(L) /\ LeaderLogs(M) /\ Extends(L, M)
  BY DEF Grows
<1>2. B \subseteq Server \X Term \X Index
  <2>1. ASSUME NEW k \in 1..Len(m[i])
        PROVE  <<i, g[i].term, k>> \in Server \X Term \X Index
    <3>1. Len(m[i]) \in Nat /\ Len(m[i]) <= IndexMax /\ g[i].term \in Term
      BY <1>1, LenNat, HardTerms DEF LogMoves, Logs, Ahead
    <3>2. k \in Index
      BY <3>1, Limits DEF Index
    <3> QED BY <3>1, <3>2
  <2> QED BY <2>1 DEF NewAcks, AcksKept
<1>3. ASSUME NEW j \in Server, NEW t \in Term, NEW k \in Index,
             <<j, t, k>> \in B
      PROVE  /\ t \in DOMAIN M
             /\ Holds(M[t], t, k)
             /\ t <= g[j].term
             /\ Holds(m[j], t, k) \/ Lost(g, B, t, k)
  <2>1. CASE <<j, t, k>> \in A
    <3>1. /\ t \in DOMAIN L /\ Holds(L[t], t, k) /\ t <= h[j].term
          /\ Holds(l[j], t, k) \/ Lost(h, A, t, k)
      BY <2>1 DEF AcksKept
    <3>2. t \in DOMAIN M /\ Holds(M[t], t, k)
      BY <1>1, <3>1, HeldLater
    <3>3. t <= g[j].term
      <4>1. t \in Nat /\ h[j].term \in Nat /\ g[j].term \in Nat
            /\ g[j].term >= h[j].term
        BY <1>1, TermsLater, Limits DEF Term
      <4> QED BY ONLY <3>1, <4>1
    <3>4. Holds(m[j], t, k) \/ Lost(h, A, t, k)
      BY <3>1 DEF LogMoves
    <3> QED BY <3>2, <3>3, <3>4, LostLater
  <2>2. CASE j = i /\ t = g[i].term /\ Holds(m[i], t, k)
    <3>1. k \in 1..Len(m[i]) /\ m[i][k].term = t
      BY <2>2 DEF Holds
    <3>2. t \in DOMAIN M /\ Same(m[i], M[t], k)
      BY <3>1 DEF LogsAgree, Agrees
    <3>3. Len(M[t]) \in Nat
      BY <1>1, <3>2, LeaderLog
    <3>4. Holds(M[t], t, k)
      BY <3>1, <3>2, <3>3 DEF Same, Holds
    <3>5. t <= g[i].term
      BY <1>1, <2>2, HardTerms DEF Ahead
    <3> QED BY <2>2, <3>2, <3>4, <3>5
  <2> QED BY <1>0, <1>3, <2>1, <2>2
<1>4. ASSUME NEW j \in Server, NEW k \in 1..Len(m[j]),
             m[j][k].term = g[j].term
      PROVE  <<j, g[j].term, k>> \in B
  <2>1. CASE j = i
    BY <1>0, <1>4, <2>1 DEF Holds
  <2>2. CASE j # i
    BY <1>1, <1>4, <2>2 DEF LogMoves, Ahead, AcksKept
  <2> QED BY <2>1, <2>2
<1> QED BY <1>2, <1>3, <1>4 DEF AcksKept

\* What a new leader's predecessors may have got chosen: leaders other than
\* that of a new term u stay complete when the logs grow.
LEMMA LeadersCompleteNext ==
    ASSUME NEW i \in Server, NEW L, NEW A, NEW h, NEW M, NEW B, NEW g,
           Grows(L, A, h, M, B, g, i), NEW l, AcksKept(L, A, h, l),
           LeadersComplete(L, A, h),
           \A u \in DOMAIN M \ DOMAIN L :
              /\ Reached(g, u)
              /\ \A t \in DOMAIN M : \A k \in 1..Len(M[t]) :
                    t < u /\ M[t][k].term = t =>
                        Holds(M[u], t, k) \/ Lost(g, B, t, k),
           \A t \in DOMAIN M \ DOMAIN L : \A k \in 1..Len(M[t]) :
              M[t][k].term # t
    PROVE  LeadersComplete(M, B, g)
<1>1. Ahead(h, g, i) /\ LeaderLogs(L) /\ LeaderLogs(M) /\ Extends(L, M)
  BY DEF Grows
<1>2. ASSUME NEW u \in DOMAIN L
      PROVE  Reached(g, u)
  BY <1>1, <1>2, ReachedLater, LeaderLog DEF LeadersComplete
<1>3. ASSUME NEW u \in DOMAIN L, NEW t \in DOMAIN M,
             NEW k \in 1..Len(M[t]), t < u, M[t][k].term = t
      PROVE  Holds(M[u], t, k) \/ Lost(g, B, t, k)
  <2>1. t \in DOMAIN L
    BY <1>3
  <2>2. /\ t \in Term /\ t \in Nat /\ Len(M[t]) \in Nat
        /\ Len(L[t]) \in Nat /\ u \in Nat
        /\ L[t] \in Seq(Entry) /\ M[t] \in Seq(Entry)
    BY <1>1, <2>1, LeaderLog
  <2>4. CASE k \in 1..Len(L[t])
    <3>1. Same(L[t], M[t], Len(L[t]))
      BY <1>1, <2>1 DEF Extends
    <3>2. L[t][k].term = t
      BY <1>3, <2>4, <3>1 DEF Same
    <3>3. Holds(L[u], t, k) \/ Lost(h, A, t, k)
      BY <1>3, <2>1, <2>4, <3>2 DEF LeadersComplete
    <3> QED BY <1>1, <2>2, <3>3, HeldLater, LostLater
  <2>5. CASE k \notin 1..Len(L[t])
    <3>1. PICK Q \in Quorums : \A j \in Q :
             g[j].term > u \/ (g[j].term = u /\ g[j].vote # NoId)
      BY <1>2 DEF Reached
    <3>2. ASSUME NEW j \in Q
          PROVE  g[j].term > t /\ <<j, t, k>> \notin B
      <4>1. j \in Server /\ g[j].term \in Nat
        BY <1>1, HardTerms DEF Quorums, Ahead
      <4>2. g[j].term > u \/ g[j].term = u
        BY <3>1
      <4>3. g[j].term > t
        BY ONLY <1>3, <2>2, <4>1, <4>2
      <4>4. <<j, t, k>> \notin A
        BY <2>5, <4>1 DEF AcksKept, Holds
      <4>5. ~(j = i /\ t = g[i].term)
        BY <2>2, <4>1, <4>3
      <4> QED BY <4>3, <4>4, <4>5 DEF Grows, News
    <3> QED BY <3>2 DEF Lost
  <2> QED BY <2>4, <2>5
<1> QED BY <1>2, <1>3 DEF LeadersComplete

\* Applications have committed entries still, if i applied one.
LEMMA AppsCommittedNext ==
    ASSUME NEW i \in Server, NEW L, NEW A, NEW h, NEW M, NEW B, NEW g,
           Grows(L, A, h, M, B, g, i), NEW l, NEW m, LogMoves(l, m, i),
           NEW a \in Logs, NEW b, \A j \in Server \ {i} : b[j] = a[j],
           AppsCommitted(L, A, h, l, a),
           Same(b[i], m[i], Len(b[i])),
           Committed(M, B, b[i], g[i].term, Len(b[i]))
    PROVE  AppsCommitted(M, B, g, m, b)
<1> SUFFICES ASSUME NEW j \in Server, j # i
             PROVE  /\ Same(b[j], m[j], Len(b[j]))
                    /\ Committed(M, B, b[j], g[j].term, Len(b[j]))
  BY DEF AppsCommitted
<1>1. /\ b[j] = a[j] /\ m[j] = l[j] /\ g[j] = h[j]
      /\ Len(a[j]) \in Nat /\ h[j].term \in Nat
  BY LenNat, HardTerms DEF LogMoves, Grows, Ahead, Logs
<1>2. Same(a[j], l[j], Len(a[j])) /\ Committed(L, A, a[j], h[j].term, Len(a[j]))
  BY DEF AppsCommitted
<1> QED BY <1>1, <1>2, CommittedLater

---------------------------------------------------------------------------
(* The log of a leader is recorded.                                        *)

\* Its entries of other terms are those of earlier leaders.
Recordable(L, u, r) ==
    /\ u \in Term
    /\ r \in Seq(Entry)
    /\ u \in DOMAIN L => Same(L[u], r, Len(L[u]))
    /\ \A k \in 1..Len(r) :
          /\ r[k].term <= u
          /\ \A g \in 1..k : r[g].term <= r[k].term
          /\ \/ r[k].term = u
             \/ r[k].term \in DOMAIN L /\ Same(r, L[r[k].term], k)

\* Recording it extends the leaders' logs.
LEMMA RecordExtends ==
    ASSUME NEW L, LeaderLogs(L), NEW u, NEW r, Recordable(L, u, r),
           NEW M, M = Recorded(L, u, r)
    PROVE  LeaderLogs(M) /\ Extends(L, M)
<1>1. /\ DOMAIN M = DOMAIN L \union {u} /\ M[u] = r
      /\ \A v \in DOMAIN L : v # u => M[v] = L[v]
  BY DEF Recorded
<1>2. r \in Seq(Entry) /\ Len(r) \in Nat /\ u \in Term
  BY LenNat DEF Recordable
<1>3. Extends(L, M)
  <2>1. ASSUME NEW v \in DOMAIN L
        PROVE  Same(L[v], M[v], Len(L[v]))
    <3>1. L[v] \in Seq(Entry)
      BY LeaderLog
    <3> QED BY <1>1, <3>1, SameNone DEF Recordable
  <2> QED BY <1>1, <2>1 DEF Extends
<1>4. Agrees(M, r)
  <2>1. ASSUME NEW k \in 1..Len(r)
        PROVE  r[k].term \in DOMAIN M /\ Same(r, M[r[k].term], k)
    <3>1. CASE r[k].term = u
      <4>1. Same(r, r, k)
        BY <1>2 DEF Same
      <4> QED BY <1>1, <3>1, <4>1
    <3>2. CASE r[k].term # u
      BY <1>1, <3>2 DEF Recordable
    <3> QED BY <3>1, <3>2
  <2> QED BY <2>1 DEF Agrees
<1>5. ASSUME NEW v \in DOMAIN L, NEW k \in 1..Len(L[v])
      PROVE  L[v][k].term \in DOMAIN M /\ Same(L[v], M[L[v][k].term], k)
  <2> DEFINE t == L[v][k].term
  <2>1. t \in DOMAIN L /\ Same(L[v], L[t], k)
    BY LeaderLog DEF Agrees
  <2>2. L[t] \in Seq(Entry) /\ M[t] \in Seq(Entry) /\ Len(L[t]) \in Nat
    BY <1>1, <1>2, <2>1, LeaderLog
  <2>3. Same(L[t], M[t], Len(L[t])) /\ k <= Len(L[t]) /\ k \in Int
    BY <1>3, <2>1 DEF Extends, Same
  <2>4. Same(L[t], M[t], k)
    BY <2>2, <2>3, SameShorter
  <2> QED BY <1>1, <2>1, <2>4, SameTrans
<1>6. ASSUME NEW v \in DOMAIN M
      PROVE  /\ M[v] \in Seq(Entry)
             /\ Agrees(M, M[v])
             /\ \A k \in 1..Len(M[v]) :
                   /\ M[v][k].term <= v
                   /\ \A g \in 1..k : M[v][g].term <= M[v][k].term
  <2>1. CASE v = u
    BY <1>1, <1>2, <1>4, <2>1 DEF Recordable
  <2>2. CASE v # u
    <3>1. v \in DOMAIN L /\ M[v] = L[v]
      BY <1>1, <2>2
    <3>2. Agrees(M, L[v])
      BY <1>5, <3>1 DEF Agrees
    <3> QED BY <3>1, <3>2 DEF LeaderLogs
  <2> QED BY <2>1, <2>2
<1>7. DOMAIN M \subseteq Term
  BY <1>1, <1>2 DEF LeaderLogs
<1> QED BY <1>3, <1>6, <1>7 DEF LeaderLogs

\* A leader records its longer log.
LEMMA AppendRecordable ==
    ASSUME NEW L, LeaderLogs(L), NEW u \in DOMAIN L, NEW r \in Seq(Entry),
           Len(L[u]) <= Len(r),
           \A k \in 1..Len(L[u]) : r[k] = L[u][k],
           \A k \in 1..Len(r) : k > Len(L[u]) => r[k].term = u
    PROVE  Recordable(L, u, r)
<1>1. /\ u \in Term /\ u \in Nat /\ L[u] \in Seq(Entry) /\ Len(L[u]) \in Nat
      /\ Len(r) \in Nat
  BY LeaderLog, LenNat
<1>2. Same(L[u], r, Len(L[u]))
  BY <1>1 DEF Same
<1>3. ASSUME NEW k \in 1..Len(r), k > Len(L[u]), NEW g \in 1..k
      PROVE  r[g].term <= u
  <2>1. CASE g \in 1..Len(L[u])
    BY <2>1 DEF LeaderLogs
  <2>2. CASE g \notin 1..Len(L[u])
    <3>1. g \in 1..Len(r) /\ g > Len(L[u])
      BY <1>1, <1>3, <2>2
    <3> QED BY <1>1, <3>1
  <2> QED BY <2>1, <2>2
<1>4. ASSUME NEW k \in 1..Len(r)
      PROVE  /\ r[k].term <= u
             /\ \A g \in 1..k : r[g].term <= r[k].term
             /\ \/ r[k].term = u
                \/ r[k].term \in DOMAIN L /\ Same(r, L[r[k].term], k)
  <2>1. CASE k > Len(L[u])
    BY <1>1, <1>3, <2>1
  <2>2. CASE k <= Len(L[u])
    <3>1. k \in 1..Len(L[u]) /\ r[k] = L[u][k]
      BY <1>1, <2>2
    <3>2. \A g \in 1..k : r[g] = L[u][g]
      BY <1>1, <3>1
    <3>3. /\ r[k].term <= u
          /\ \A g \in 1..k : r[g].term <= r[k].term
      BY <3>1, <3>2 DEF LeaderLogs
    <3>4. r[k].term \in DOMAIN L /\ Same(L[u], L[r[k].term], k)
      BY <3>1, LeaderLog DEF Agrees
    <3>5. Same(r, L[u], k)
      BY <1>1, <3>1, <3>2 DEF Same
    <3> QED BY <3>3, <3>4, <3>5, SameTrans
  <2> QED BY <1>1, <2>1, <2>2
<1> QED BY <1>1, <1>2, <1>4 DEF Recordable

\* A new leader records the log it has; its term is in no log yet.
LEMMA ElectRecordable ==
    ASSUME NEW L, LeaderLogs(L), NEW u \in Term, u \notin DOMAIN L,
           NEW r \in Seq(Entry), Agrees(L, r),
           \A k \in 1..Len(r) : r[k].term <= u
    PROVE  /\ Recordable(L, u, r)
           /\ \A k \in 1..Len(r) : r[k].term < u
<1>1. ASSUME NEW k \in 1..Len(r)
      PROVE  r[k].term \in DOMAIN L /\ r[k].term # u /\ Same(r, L[r[k].term], k)
  BY DEF Agrees
<1>2. ASSUME NEW k \in 1..Len(r)
      PROVE  r[k].term < u
  <2>1. r[k].term \in Nat /\ u \in Nat
    BY <1>1, LeaderLog, Limits DEF Term
  <2> QED BY <1>1, <2>1
<1>3. ASSUME NEW k \in 1..Len(r), NEW g \in 1..k
      PROVE  r[g].term <= r[k].term
  BY <1>3, TermsOrdered
<1> QED BY <1>1, <1>2, <1>3 DEF Recordable

---------------------------------------------------------------------------
(* Votes and conflicts.                                                    *)

\* An entry that a log holds is not fresher than its end.
LEMMA EndIsLast ==
    ASSUME NEW L, LeaderLogs(L), NEW l \in Seq(Entry), Agrees(L, l),
           NEW t, NEW k, Holds(l, t, k)
    PROVE  /\ l # << >> /\ LastTermOf(l) = l[Len(l)].term
           /\ LastTermOf(l) \in Nat /\ t \in Nat /\ k \in Nat
           /\ t <= LastTermOf(l) /\ k <= Len(l)
<1>1. Len(l) \in Nat /\ k \in 1..Len(l) /\ l[k].term = t
  BY LenNat DEF Holds
<1>2. Len(l) \in 1..Len(l) /\ k \in 1..Len(l)
  BY <1>1
<1>3. l # << >>
  BY <1>1, EmptySeq
<1>4. LastTermOf(l) = l[Len(l)].term
  BY <1>3 DEF LastTermOf, Last
<1>5. l[k].term <= l[Len(l)].term
  BY <1>2, TermsOrdered
<1>6. l[k].term \in Nat /\ l[Len(l)].term \in Nat
  BY <1>2, LeaderLog DEF Agrees
<1> QED BY <1>1, <1>3, <1>4, <1>5, <1>6

\* A candidate at least as fresh as a log is as fresh as anything in it.
LEMMA FreshBeyond ==
    ASSUME NEW L, LeaderLogs(L), NEW l \in Seq(Entry), Agrees(L, l),
           NEW t, NEW k, Holds(l, t, k), NEW x \in Nat, NEW n \in Nat,
           LogIsFresh(x, n, LastTermOf(l), Len(l))
    PROVE  LogIsFresh(x, n, t, k)
<1> DEFINE y == LastTermOf(l)
           o == Len(l)
<1>1. y \in Nat /\ t \in Nat /\ k \in Nat /\ o \in Nat /\ t <= y /\ k <= o
  BY EndIsLast, LenNat
<1>2. x > y \/ (x = y /\ n >= o)
  BY DEF LogIsFresh
<1> HIDE DEF y, o
<1>3. x > t \/ (x = t /\ n >= k)
  BY ONLY <1>1, <1>2, x \in Nat, n \in Nat
<1> QED BY <1>3 DEF LogIsFresh

\* A log as fresh as an entry of an earlier leader has it, or its last leader
\* knows that the entry is lost.
LEMMA FreshHolds ==
    ASSUME NEW L, NEW A, NEW h, LeaderLogs(L), LeadersComplete(L, A, h),
           NEW r \in Seq(Entry), Agrees(L, r),
           NEW t \in DOMAIN L, NEW k \in 1..Len(L[t]), L[t][k].term = t,
           LogIsFresh(LastTermOf(r), Len(r), t, k)
    PROVE  Holds(r, t, k) \/ Lost(h, A, t, k)
<1>1. /\ t \in Term /\ t \in Nat /\ L[t] \in Seq(Entry) /\ Len(L[t]) \in Nat
      /\ Len(r) \in Nat /\ k \in Nat /\ k # 0
  BY LeaderLog, LenNat
<1>2. CASE r = << >>
  <2>1. LastTermOf(r) = 0 /\ Len(r) = 0
    BY <1>2, EmptySeq DEF LastTermOf
  <2> QED BY <1>1, <2>1 DEF LogIsFresh
<1>3. CASE r # << >>
  <2> DEFINE n == Len(r)
             x == r[n].term
  <2>1. n \in 1..n /\ LastTermOf(r) = x
    BY <1>1, <1>3, EmptySeq DEF LastTermOf, Last
  <2>2. x \in DOMAIN L /\ Same(r, L[x], n)
    BY <2>1 DEF Agrees
  <2>3. x \in Nat /\ Len(L[x]) \in Nat /\ L[x] \in Seq(Entry)
    BY <2>2, LeaderLog
  <2>4. \/ x > t
        \/ x = t /\ n >= k
    BY <2>1 DEF LogIsFresh
  <2>5. CASE x = t /\ n >= k
    <3>1. k \in 1..n
      BY <1>1, <2>5
    <3> QED BY <2>2, <2>5, <3>1 DEF Same, Holds
  <2>6. ASSUME x > t, Holds(L[x], t, k)
        PROVE  Holds(r, t, k)
    <3>1. k \in 1..Len(L[x]) /\ L[x][k].term = t /\ L[x][n].term = x
      BY <2>1, <2>2, <2>6 DEF Holds, Same
    <3>2. ~(n < k)
      <4>1. SUFFICES ASSUME n < k PROVE FALSE
        OBVIOUS
      <4>2. n \in 1..k
        BY <1>1, <2>1, <4>1
      <4>3. x <= t
        BY <2>2, <3>1, <4>2 DEF LeaderLogs
      <4> QED BY <1>1, <2>3, <2>6, <4>3
    <3>3. k \in 1..n
      BY <1>1, <3>2
    <3> QED BY <2>2, <3>1, <3>3 DEF Same, Holds
  <2>7. x > t => Holds(L[x], t, k) \/ Lost(h, A, t, k)
    BY <1>1, <2>2, <2>3 DEF LeadersComplete
  <2> QED BY <2>4, <2>5, <2>6, <2>7
<1> QED BY <1>2, <1>3

\* A vote is fresh with respect to everything its voter has acknowledged.
LEMMA VoteFresh ==
    ASSUME NEW L, NEW A, NEW h, NEW l \in Logs, LeaderLogs(L),
           LogsAgree(L, h, l), AcksKept(L, A, h, l),
           NEW i \in Server, NEW x \in Nat, NEW n \in Nat,
           LogIsFresh(x, n, LastTermOf(l[i]), Len(l[i])),
           NEW t \in Term, NEW k \in Index, <<i, t, k>> \in A
    PROVE  LogIsFresh(x, n, t, k) \/ Lost(h, A, t, k)
<1>1. Holds(l[i], t, k) \/ Lost(h, A, t, k)
  BY DEF AcksKept
<1>2. l[i] \in Seq(Entry) /\ Agrees(L, l[i])
  BY DEF Logs, LogsAgree
<1> QED BY <1>1, <1>2, FreshBeyond

\* Who is elected by a quorum holds what an earlier leader may have got
\* chosen.
LEMMA ElectComplete ==
    ASSUME NEW i \in Server, NEW L, NEW A, NEW h, NEW M, NEW B, NEW g,
           Grows(L, A, h, M, B, g, i), NEW l \in Logs,
           LogsAgree(L, h, l), AcksKept(L, A, h, l), LeadersComplete(L, A, h),
           NEW u \in Term, NEW Q \in Quorums,
           \A v \in Q :
              /\ g[v].term >= u
              /\ v # i =>
                   \A t \in Term, k \in Index : <<v, t, k>> \in A /\ t < u =>
                      \/ LogIsFresh(LastTermOf(l[i]), Len(l[i]), t, k)
                      \/ Lost(h, A, t, k),
           NEW t \in DOMAIN L, NEW k \in 1..Len(L[t]), L[t][k].term = t,
           t < u
    PROVE  Holds(l[i], t, k) \/ Lost(g, B, t, k)
<1>1. LeaderLogs(L) /\ Ahead(h, g, i) /\ News(A, B, g, i)
  BY DEF Grows
<1>2. /\ t \in Term /\ t \in Nat /\ u \in Nat /\ l[i] \in Seq(Entry)
      /\ Agrees(L, l[i])
  BY <1>1, LeaderLog, Limits DEF Term, Logs, LogsAgree
<1>3. CASE \E v \in Q : <<v, t, k>> \in A
  <2>1. PICK v \in Q : <<v, t, k>> \in A
    BY <1>3
  <2>2. v \in Server /\ k \in Index
    <3>1. <<v, t, k>> \in Server \X Term \X Index
      BY <2>1 DEF AcksKept
    <3> QED BY <3>1
  <2>3. CASE v = i
    BY <1>2, <2>1, <2>2, <2>3, LostLater DEF AcksKept
  <2>4. CASE v # i
    <3>1. \/ LogIsFresh(LastTermOf(l[i]), Len(l[i]), t, k)
          \/ Lost(h, A, t, k)
      BY <1>2, <2>1, <2>2, <2>4
    <3>2. Holds(l[i], t, k) \/ Lost(h, A, t, k)
      BY <1>1, <1>2, <3>1, FreshHolds
    <3> QED BY <1>2, <3>2, LostLater
  <2> QED BY <2>3, <2>4
<1>4. CASE \A v \in Q : <<v, t, k>> \notin A
  <2>1. ASSUME NEW v \in Q
        PROVE  g[v].term > t /\ <<v, t, k>> \notin B
    <3>1. v \in Server /\ g[v].term \in Nat /\ g[v].term >= u
      BY <1>1, HardTerms DEF Quorums, Ahead
    <3>2. g[v].term > t
      BY ONLY <1>2, <3>1, t < u
    <3>3. ~(v = i /\ t = g[i].term)
      BY <1>2, <3>1, <3>2
    <3> QED BY <1>1, <1>4, <3>2, <3>3 DEF News
  <2> QED BY <2>1 DEF Lost
<1> QED BY <1>3, <1>4

\* A log conflicts with that of a later leader beyond what is committed.
LEMMA ConflictBeyond ==
    ASSUME NEW L, NEW A, NEW h, NEW l, LeaderLogs(L), AcksKept(L, A, h, l),
           LeadersComplete(L, A, h),
           NEW s \in Seq(Entry), NEW v \in Nat, NEW c \in Nat,
           Committed(L, A, s, v, c), NEW u \in DOMAIN L, v <= u,
           NEW k \in Nat \ {0}, s[k].term # L[u][k].term
    PROVE  c < k
<1>1. Same(s, L[u], c)
  BY CommittedInLeader
<1> QED BY <1>1 DEF Same

\* What a log holds from its first conflict with a later leader on is lost.
LEMMA ConflictLost ==
    ASSUME NEW L, NEW A, NEW h, LeaderLogs(L), LeadersComplete(L, A, h),
           NEW s \in Seq(Entry), Agrees(L, s), NEW u \in DOMAIN L,
           \A k \in 1..Len(s) : s[k].term <= u,
           NEW f \in Nat \ {0}, s[f].term # L[u][f].term,
           NEW t, NEW k, Holds(s, t, k), f <= k
    PROVE  Lost(h, A, t, k)
<1>1. k \in 1..Len(s) /\ s[k].term = t /\ t <= u
  BY DEF Holds
<1>2. t \in DOMAIN L /\ Same(s, L[t], k) /\ Len(s) \in Nat
  BY <1>1, LenNat DEF Agrees
<1>3. /\ t \in Nat /\ u \in Nat /\ Len(L[t]) \in Nat /\ Len(L[u]) \in Nat
      /\ Agrees(L, L[u])
  BY <1>2, LeaderLog
<1>4. f \in 1..k /\ k \in 1..Len(L[t]) /\ L[t][k].term = t
  BY <1>1, <1>2, <1>3 DEF Same
<1>5. ~Same(s, L[u], k)
  BY <1>4 DEF Same
<1>6. t < u
  BY <1>1, <1>2, <1>3, <1>5
<1>7. ~Holds(L[u], t, k)
  BY <1>1, <1>3, <1>5, AgreeingLogsMatch DEF Holds
<1> QED BY <1>2, <1>4, <1>6, <1>7 DEF LeadersComplete

---------------------------------------------------------------------------
(* What a step of node i does.                                             *)

\* m is l, continued with some of the entries es.
Appended(l, m, es) ==
    /\ Len(l) <= Len(m)
    /\ Len(m) <= Len(l) + Len(es)
    /\ \A k \in 1..Len(l) : m[k] = l[k]
    /\ \A k \in 1..Len(m) : k > Len(l) => m[k] = es[k - Len(l)]

\* m is l, cut at or after f.
Cut(l, m, f) ==
    /\ f - 1 <= Len(m)
    /\ Len(m) <= Len(l)
    /\ \A k \in 1..Len(m) : m[k] = l[k]

\* The durable state of i: its action has some effect, or none.
Effected(i) ==
    LET a == action[i]
    IN  \/ hard'[i] = hard[i] /\ log'[i] = log[i] /\ app'[i] = app[i]
        \/ /\ a.type = "HARD_STATE"
           /\ hard'[i] = [term |-> a.term, vote |-> a.vote]
           /\ log'[i] = log[i] /\ app'[i] = app[i]
        \/ /\ a.type = "LOG_APPEND"
           /\ Appended(log[i], log'[i], a.entries)
           /\ hard'[i] = hard[i] /\ app'[i] = app[i]
        \/ /\ a.type = "LOG_TRUNCATE"
           /\ Cut(log[i], log'[i], a.first)
           /\ hard'[i] = hard[i] /\ app'[i] = app[i]
        \/ /\ a.type = "APPLY"
           /\ app'[i] = Applied(app[i], a.index, a.entry)
           /\ hard'[i] = hard[i] /\ log'[i] = log[i]

\* A step of i, as far as its standing, its durable state, its messages and
\* the other nodes are concerned.
Move(i) ==
    /\ Effected(i)
    /\ Others(i)
    /\ role'[i] = "LEADER" => role[i] # "FOLLOWER"
    /\ role'[i] = "CANDIDATE" /\ action'[i].type # "HARD_STATE" =>
         role[i] = "CANDIDATE"
    /\ /\ action[i].type = "HARD_STATE"
       /\ role'[i] # "FOLLOWER"
       /\ action'[i].type # "HARD_STATE"
       => hard'[i] = [term |-> action[i].term, vote |-> action[i].vote]
    /\ msgs \subseteq msgs'
    /\ \A m \in msgs' :
          m \in msgs \/ (action[i].type = "SEND" /\ m = action[i].msg)

\* An append of some first entries.
LEMMA AppendedFirst ==
    ASSUME NEW l \in Seq(Entry), NEW es \in Seq(Entry), NEW n \in Nat,
           n <= Len(es)
    PROVE  Appended(l, l \o SubSeq(es, 1, n), es)
<1> DEFINE s == SubSeq(es, 1, n)
<1>1. Len(l) \in Nat /\ Len(es) \in Nat
  BY LenNat
<1>2. s \in Seq(Entry) /\ Len(s) = n /\ \A k \in 1..n : s[k] = es[k]
  <2>1. \A k \in 1..n : es[k] \in Entry
    BY <1>1, ElementOfSeq
  <2> QED BY <2>1, <1>1, CutLog, SubSeqProperties
<1> HIDE DEF s
<1>3. /\ Len(l \o s) = Len(l) + n
      /\ \A k \in 1..Len(l) + n :
            (l \o s)[k] = IF k <= Len(l) THEN l[k] ELSE s[k - Len(l)]
  BY <1>2, ConcatProperties
<1>4. ASSUME NEW k \in 1..Len(l \o s), k > Len(l)
      PROVE  (l \o s)[k] = es[k - Len(l)]
  <2>1. k - Len(l) \in 1..n /\ ~(k <= Len(l)) /\ k \in 1..Len(l) + n
    BY <1>1, <1>3, <1>4
  <2> QED BY <1>2, <1>3, <2>1
<1>5. \A k \in 1..Len(l) : (l \o s)[k] = l[k]
  BY <1>1, <1>3
<1>6. Len(l) <= Len(l \o s) /\ Len(l \o s) <= Len(l) + Len(es)
  BY <1>1, <1>3
<1> QED BY <1>4, <1>5, <1>6 DEF Appended, s

\* A log cut at k.
LEMMA CutAt ==
    ASSUME NEW l \in Seq(Entry), NEW k \in Nat, k <= Len(l), NEW f \in Nat,
           f - 1 <= k
    PROVE  Cut(l, SubSeq(l, 1, k), f)
<1>1. Len(l) \in Nat
  BY LenNat
<1>2. \A g \in 1..k : l[g] \in Entry
  BY <1>1, ElementOfSeq
<1>3. /\ Len(SubSeq(l, 1, k)) = k
      /\ \A g \in 1..k : SubSeq(l, 1, k)[g] = l[g]
  BY <1>1, <1>2, CutLog, SubSeqProperties
<1> QED BY <1>1, <1>3 DEF Cut

\* The complete effect of an action.
LEMMA DoneEffected ==
    ASSUME NEW i \in Server, TypeOK, LocalInv(i), HostEffect(i)
    PROVE  Effected(i)
<1> DEFINE a == action[i]
<1>1. /\ Effect(i) /\ a \in Action
      /\ log[i] \in Seq(Entry) /\ Len(log[i]) \in Nat
  BY HostEffects, LenNat DEF TypeOK
<1>2. /\ a.type # "APPLY" => app'[i] = app[i]
      /\ a.type = "APPLY" => app'[i] = Applied(app[i], a.index, a.entry)
  BY DEF HostEffect, Set, TypeOK
<1>3. CASE a.type = "LOG_APPEND"
  <2>1. a.entries \in Seq(Entry) /\ Len(a.entries) \in Nat
    BY <1>1, <1>3, ActionFields, LenNat
  <2>2. SubSeq(a.entries, 1, Len(a.entries)) = a.entries
    BY <2>1, SubSeqFull
  <2>3. Appended(log[i], log[i] \o SubSeq(a.entries, 1, Len(a.entries)),
                 a.entries)
    <3>1. Len(a.entries) <= Len(a.entries)
      BY <2>1
    <3> QED BY <1>1, <2>1, <3>1, AppendedFirst
  <2> QED BY <1>1, <1>2, <1>3, <2>2, <2>3 DEF Effect, Effected
<1>4. CASE a.type = "LOG_TRUNCATE"
  <2>1. /\ a.first \in Nat /\ a.first - 1 \in Nat
        /\ a.first - 1 <= Len(log[i])
    <3>1. a.first \in Index /\ commitIndex[i] \in Index
          /\ a.first > commitIndex[i] /\ a.first <= Len(log[i])
      BY <1>1, <1>4, ActionFields DEF LocalInv, ActionFits, TypeOK
    <3> QED BY <1>1, <3>1, Limits DEF Index
  <2>2. Cut(log[i], SubSeq(log[i], 1, a.first - 1), a.first)
    BY <1>1, <2>1, CutAt
  <2> QED BY <1>1, <1>2, <1>4, <2>2 DEF Effect, Effected
<1>5. CASE a.type \notin {"LOG_APPEND", "LOG_TRUNCATE"}
  BY <1>1, <1>2, <1>5 DEF Effect, Effected
<1> QED BY <1>3, <1>4, <1>5

\* What a crash may leave of it.
LEMMA CrashEffected ==
    ASSUME NEW i \in Server, TypeOK, LocalInv(i), PartialEffect(i)
    PROVE  Effected(i)
<1> DEFINE a == action[i]
<1>1. /\ a \in Action
      /\ log[i] \in Seq(Entry) /\ Len(log[i]) \in Nat
  BY LenNat DEF TypeOK
<1>2. CASE UNCHANGED durable
  BY <1>2 DEF durable, Effected
<1>3. CASE HostEffect(i)
  BY <1>3, DoneEffected
<1>4. ASSUME a.type = "LOG_APPEND", NEW n \in 1..Len(a.entries)-1,
             log' = Set(log, i, Written(log[i], a.first,
                                        SubSeq(a.entries, 1, n))),
             UNCHANGED <<hard, app>>
      PROVE  Effected(i)
  <2>1. /\ a.entries \in Seq(Entry) /\ a.first = Len(log[i]) + 1
        /\ Len(a.entries) \in Nat
    BY <1>1, <1>4, ActionFields, LenNat DEF LocalInv, ActionFits
  <2>2. n \in Nat /\ n <= Len(a.entries)
    BY <2>1
  <2>3. SubSeq(a.entries, 1, n) \in Seq(Entry)
    BY <2>1, <2>2, CutLog
  <2>4. log'[i] = log[i] \o SubSeq(a.entries, 1, n)
    BY <1>1, <1>4, <2>1, <2>3, WrittenAtEnd DEF Set, TypeOK
  <2>5. Appended(log[i], log'[i], a.entries)
    BY <1>1, <2>1, <2>2, <2>4, AppendedFirst
  <2> QED BY <1>4, <2>5 DEF Effected
<1>5. ASSUME a.type = "LOG_TRUNCATE", NEW k \in a.first..Len(log[i])-1,
             log' = Set(log, i, SubSeq(log[i], 1, k)),
             UNCHANGED <<hard, app>>
      PROVE  Effected(i)
  <2>1. a.first \in Nat
    BY <1>1, <1>5, ActionFields, Limits DEF Index
  <2>2. k \in Nat /\ k <= Len(log[i]) /\ a.first - 1 <= k
    BY <1>1, <2>1
  <2>3. log'[i] = SubSeq(log[i], 1, k)
    BY <1>5 DEF Set, TypeOK
  <2>4. Cut(log[i], log'[i], a.first)
    BY <1>1, <2>1, <2>2, <2>3, CutAt
  <2> QED BY <1>5, <2>4 DEF Effected
<1> QED BY <1>2, <1>3, <1>4, <1>5 DEF PartialEffect

\* Every step of the cluster is such a step of some node.
LEMMA StepMoves ==
    ASSUME LocalState, LocalState', "nomem" \notin Faults, NEW i \in Server,
           \/ Call(i) /\ UNCHANGED msgs
           \/ Done(i)
           \/ Fatal(i)
           \/ CrashRestart(i)
    PROVE  Move(i)
<1>1. /\ NodesInv /\ NodesInv' /\ VoteInv /\ TypeOK /\ LocalInv(i)
      /\ action[i] \in Action
  BY DEF LocalState, NodesInv, TypeOK
<1>2. Others(i)
  BY <1>1, CallOthers, DoneOthers, CrashOthers DEF Done, Fatal, CrashRestart
<1>3. /\ msgs \subseteq msgs'
      /\ \A m \in msgs' :
            m \in msgs \/ (action[i].type = "SEND" /\ m = action[i].msg)
  BY DEF Done, Fatal, CrashRestart, Outgoing
<1>4. CASE Call(i)
  <2>1. UNCHANGED durable /\ action[i] = NoAction
    BY <1>4 DEF Call, Recv, Tick, Propose, Ready
  <2>2. Turn(i)
    BY <1>1, <1>4, CallOthers
  <2> QED BY <1>2, <1>3, <2>1, <2>2 DEF Move, Turn, Effected, durable, NoAction
<1>5. CASE Done(i)
  <2>1. Turn(i) /\ Effect(i)
    BY <1>1, <1>5, DoneOthers DEF Done
  <2>2. Effected(i)
    BY <1>1, <1>5, DoneEffected DEF Done, ActionDone
  <2> QED BY <1>2, <1>3, <2>1, <2>2 DEF Move, Turn, Effect
<1>6. CASE Fatal(i)
  BY <1>2, <1>3, <1>6
     DEF Fatal, ActionFatal, Move, Effected, durable, standing
<1>7. CASE CrashRestart(i)
  <2>1. Effected(i)
    BY <1>1, <1>7, CrashEffected DEF CrashRestart, Restart
  <2>2. role'[i] = "FOLLOWER"
    BY <1>1, <1>7 DEF CrashRestart, Restart, Set, TypeOK
  <2> QED BY <1>2, <1>3, <2>1, <2>2 DEF Move
<1> QED BY <1>4, <1>5, <1>6, <1>7

---------------------------------------------------------------------------
(* What it does to hard states and logs.                                   *)

\* The variables of the past have their types.
LEMMA PastTyped ==
    ASSUME LocalState
    PROVE  /\ hard \in HardStates /\ log \in Logs /\ app \in Logs
           /\ \A j \in Server :
                 /\ hard[j].term = currentTerm[j]
                 /\ hard[j].term \in Term /\ hard[j].term \in Nat
                 /\ log[j] \in Seq(Entry) /\ Len(log[j]) \in Nat
                 /\ Len(log[j]) <= IndexMax
                 /\ app[j] \in Seq(Entry) /\ Len(app[j]) \in Nat
                 /\ action[j] \in Action
<1>1. TypeOK /\ hard \in HardStates /\ log \in Logs /\ app \in Logs
  BY DEF LocalState, NodesInv, TypeOK, HardStates, Logs
<1>2. ASSUME NEW j \in Server
      PROVE  /\ hard[j].term = currentTerm[j]
             /\ Len(log[j]) <= IndexMax
  BY DEF LocalState, VoteInv, NodeInv, Coherent, NodesInv, LocalInv, Ordered
<1> QED BY <1>1, <1>2, HardTerms, LenNat DEF Logs, TypeOK

\* The types of the durable state after a step.
LEMMA PastTypedNext ==
    ASSUME LocalState'
    PROVE  /\ hard' \in HardStates /\ log' \in Logs /\ app' \in Logs
           /\ \A j \in Server :
                 /\ hard'[j].term = currentTerm'[j]
                 /\ hard'[j].term \in Term /\ hard'[j].term \in Nat
                 /\ log'[j] \in Seq(Entry) /\ Len(log'[j]) \in Nat
                 /\ Len(log'[j]) <= IndexMax
                 /\ app'[j] \in Seq(Entry) /\ Len(app'[j]) \in Nat
                 /\ action'[j] \in Action
<1>1. TypeOK' /\ hard' \in HardStates /\ log' \in Logs /\ app' \in Logs
  BY DEF LocalState, NodesInv, TypeOK, HardStates, Logs
<1>2. ASSUME NEW j \in Server
      PROVE  /\ hard'[j].term = currentTerm'[j]
             /\ Len(log'[j]) <= IndexMax
  BY DEF LocalState, VoteInv, NodeInv, Coherent, NodesInv, LocalInv, Ordered
<1> QED BY <1>1, <1>2, HardTerms, LenNat DEF Logs, TypeOK

\* Hard states go ahead, and the log of i is the only one that changes.
LEMMA MoveAhead ==
    ASSUME LocalState, LocalState', NEW i \in Server, Move(i)
    PROVE  Ahead(hard, hard', i) /\ LogMoves(log, log', i)
<1>1. \A j \in Server \ {i} : hard'[j] = hard[j] /\ log'[j] = log[j]
  BY DEF Move, Others
<1>2. CASE hard'[i] = hard[i]
  BY <1>1, <1>2, PastTyped, PastTypedNext DEF Ahead, LogMoves
<1>3. CASE /\ action[i].type = "HARD_STATE"
           /\ hard'[i] = [term |-> action[i].term, vote |-> action[i].vote]
  <2>1. \/ action[i].term > hard[i].term
        \/ action[i].term = hard[i].term /\ hard[i].vote = NoId
    BY <1>3 DEF LocalState, VoteInv, NodeInv, Forward
  <2> QED BY <1>1, <1>3, <2>1, PastTyped, PastTypedNext DEF Ahead, LogMoves
<1> QED BY <1>2, <1>3 DEF Move, Effected

\* The outstanding action of a candidate does not concern the log, that of a
\* leader does not concern the hard state.
LEMMA RoleActions ==
    ASSUME LocalState, NEW L, NEW A, NEW i \in Server, ActionSound(L, A, i)
    PROVE  /\ role[i] \in Role
           /\ role[i] = "CANDIDATE" =>
                action[i].type \notin {"LOG_APPEND", "LOG_TRUNCATE"}
           /\ role[i] = "LEADER" =>
                action[i].type \notin {"HARD_STATE", "LOG_TRUNCATE"}
<1>1. role[i] \in Role
  BY DEF LocalState, NodesInv, TypeOK
<1>2. action[i].type = "HARD_STATE" => role[i] # "LEADER"
  BY DEF LocalState, VoteInv, NodeInv, Forward
<1> QED BY <1>1, <1>2 DEF ActionSound

\* Who campaigns after the step of i did so before, or i has just started.
LEMMA CampaignFrom ==
    ASSUME LocalState, LocalState', NEW L, NEW A, NEW i \in Server, Move(i),
           ActionSound(L, A, i), VotesSound(A, i),
           NEW j \in Server, NEW u, Campaigns(j, u)'
    PROVE  /\ log'[j] = log[j]
           /\ \/ Campaigns(j, u)
              \/ /\ j = i
                 /\ u > hard[i].term
                 /\ hard'[i] = [term |-> u, vote |-> i]
<1>1. /\ role'[j] = "CANDIDATE" /\ currentTerm'[j] = u
      /\ action'[j].type # "HARD_STATE"
  BY DEF Campaigns
<1>2. CASE j # i
  BY <1>1, <1>2 DEF Move, Others, Campaigns
<1>3. CASE j = i
  <2>1. role[i] = "CANDIDATE" /\ role'[i] # "FOLLOWER"
    BY <1>1, <1>3 DEF Move
  <2>2. log'[i] = log[i]
    BY <2>1, RoleActions DEF Move, Effected
  <2>3. hard[i].term = currentTerm[i] /\ hard'[i].term = u
    BY <1>1, <1>3, PastTyped, PastTypedNext
  <2>4. CASE action[i].type = "HARD_STATE"
    <3>1. hard'[i] = [term |-> action[i].term, vote |-> action[i].vote]
      BY <1>1, <1>3, <2>1, <2>4 DEF Move
    <3>2. action[i].vote = i
      BY <2>1, <2>4 DEF LocalState, VoteInv, NodeInv, Forward
    <3>3. action[i].term > hard[i].term
      BY <2>1, <2>4 DEF VotesSound
    <3> QED BY <1>3, <2>2, <2>3, <3>1, <3>2, <3>3
  <2>5. CASE action[i].type # "HARD_STATE"
    <3>1. hard'[i] = hard[i]
      BY <2>5 DEF Move, Effected
    <3> QED BY <1>3, <2>1, <2>2, <2>3, <2>5, <3>1 DEF Campaigns
  <2> QED BY <2>4, <2>5
<1> QED BY <1>2, <1>3

---------------------------------------------------------------------------
(* Elections.                                                              *)

\* The quorum Q has made i the leader of term u.
Wins(L, A, i, u, Q) ==
    /\ role[i] = "CANDIDATE"
    /\ log'[i] = log[i]
    /\ hard'[i] = [term |-> u, vote |-> i]
    /\ u \in Term
    /\ u \notin DOMAIN L
    /\ Q \in Quorums
    /\ i \in Q
    /\ \A v \in Q :
          /\ hard'[v].term > u \/ hard'[v] = [term |-> u, vote |-> i]
          /\ v # i =>
               /\ \E m \in msgs : /\ Granted(m)
                                  /\ m.from = v /\ m.to = i /\ m.term = u
               /\ \A t \in Term, k \in Index : <<v, t, k>> \in A /\ t < u =>
                     \/ LogIsFresh(LastTermOf(log[i]), Len(log[i]), t, k)
                     \/ Lost(hard, A, t, k)

\* A message from another node was there before the step of i.
LEMMA OldMessage ==
    ASSUME LocalState, NEW i \in Server, Move(i), NEW m \in msgs',
           m.from # i
    PROVE  m \in msgs
BY DEF Move, LocalState, VoteInv, NodeInv, Backed, Stamped

\* The votes of a new leader are those of a quorum.
LEMMA NewVotes ==
    ASSUME LocalState, LocalState', NEW i \in Server, Move(i),
           role'[i] = "LEADER"
    PROVE  /\ votes'[i] \in Quorums /\ i \in votes'[i]
           /\ hard'[i] = [term |-> currentTerm'[i], vote |-> i]
           /\ \A v \in votes'[i] :
                 /\ \/ hard'[v].term > currentTerm'[i]
                    \/ hard'[v] = [term |-> currentTerm'[i], vote |-> i]
                 /\ v # i => \E m \in msgs :
                                /\ Granted(m) /\ m.from = v /\ m.to = i
                                /\ m.term = currentTerm'[i]
<1>1. /\ votes'[i] \subseteq Server /\ IsQuorum(Cardinality(votes'[i]))
      /\ action'[i].type # "HARD_STATE"
  <2>1. votes' \in [Server -> SUBSET Server]
    BY DEF LocalState, NodesInv, TypeOK
  <2>2. Elected(i)' /\ Forward(i)'
    BY DEF LocalState, VoteInv, NodeInv
  <2> QED BY <2>1, <2>2 DEF Elected, Forward
<1>2. /\ hard'[i].vote = i /\ hard'[i].term = currentTerm'[i]
      /\ i \in votes'[i]
      /\ \A v \in votes'[i] \ {i} :
            \E m \in msgs' : /\ Granted(m) /\ m.from = v /\ m.to = i
                             /\ m.term = currentTerm'[i]
  BY <1>1 DEF LocalState, VoteInv, NodeInv, Supported, Coherent
<1>3. hard'[i] = [term |-> currentTerm'[i], vote |-> i]
  BY <1>2, PastTypedNext DEF HardStates
<1>4. ASSUME NEW v \in votes'[i], v # i
      PROVE  /\ \/ hard'[v].term > currentTerm'[i]
                \/ hard'[v] = [term |-> currentTerm'[i], vote |-> i]
             /\ \E m \in msgs : /\ Granted(m) /\ m.from = v /\ m.to = i
                                /\ m.term = currentTerm'[i]
  <2>1. PICK m \in msgs' : /\ Granted(m) /\ m.from = v /\ m.to = i
                           /\ m.term = currentTerm'[i]
    BY <1>2, <1>4
  <2>2. m \in msgs
    BY <1>4, <2>1, OldMessage
  <2>3. \/ hard'[m.from].term > m.term
        \/ hard'[m.from] = [term |-> m.term, vote |-> m.to]
    BY <2>1 DEF LocalState, VoteInv, VoteBarrier, Sent, Granted
  <2> QED BY <2>1, <2>2, <2>3
<1>5. votes'[i] \in Quorums
  BY <1>1 DEF Quorums
<1> QED BY <1>2, <1>3, <1>4, <1>5

\* Nobody has granted a vote to i in a term it has not come to.
LEMMA NoEarlyVote ==
    ASSUME NEW L, NEW A, Sound(L, A), NEW i \in Server, NEW m \in msgs,
           Granted(m), m.to = i, m.from # i
    PROVE  VoteSound(A, m.from, i, m.term) /\ m.term <= hard[i].term
BY DEF Sound, MessageSound, Granted, VoteSound

\* A node becomes leader by the votes of a quorum, in a new term.
LEMMA BecomesLeader ==
    ASSUME LocalState, LocalState', NEW L, NEW A, Sound(L, A),
           NEW i \in Server, Move(i), role'[i] = "LEADER", role[i] # "LEADER"
    PROVE  Wins(L, A, i, currentTerm'[i], votes'[i])
<1> DEFINE u == currentTerm'[i]
           Q == votes'[i]
<1>1. /\ Q \in Quorums /\ i \in Q
      /\ hard'[i] = [term |-> u, vote |-> i]
      /\ \A v \in Q :
            /\ hard'[v].term > u \/ hard'[v] = [term |-> u, vote |-> i]
            /\ v # i => \E m \in msgs :
                           /\ Granted(m) /\ m.from = v /\ m.to = i
                           /\ m.term = u
  BY NewVotes
<1>2. /\ ActionSound(L, A, i) /\ VotesSound(A, i) /\ CampaignLost(L, i)
      /\ LeadersComplete(L, A, hard)
  BY DEF Sound, NodeSound, Past
<1>3. role[i] = "CANDIDATE" /\ u \in Term /\ u \in Nat
  BY <1>2, RoleActions, PastTypedNext DEF Move, Role
<1>4. log'[i] = log[i]
  BY <1>2, <1>3, RoleActions DEF Move, Effected
<1>5. ASSUME NEW v \in Q, v # i
      PROVE  VoteSound(A, v, i, u) /\ u <= hard[i].term
  BY <1>1, <1>5, NoEarlyVote
<1>6. CASE action[i].type = "HARD_STATE"
  <2>1. action'[i].type # "HARD_STATE"
    BY DEF LocalState, VoteInv, NodeInv, Forward
  <2>2. hard'[i].term = action[i].term
    BY <1>6, <2>1 DEF Move
  <2>3. u > hard[i].term /\ hard[i].term \in Nat
    BY <1>1, <1>2, <1>3, <1>6, <2>2, PastTyped DEF VotesSound
  <2>4. \A v \in Q : v = i
    BY <1>3, <1>5, <2>3
  <2>5. u \notin DOMAIN L
    <3>1. SUFFICES ASSUME Reached(hard, u) PROVE FALSE
      BY <1>2 DEF LeadersComplete
    <3>2. PICK R \in Quorums : \A v \in R :
             hard[v].term > u \/ (hard[v].term = u /\ hard[v].vote # NoId)
      BY <3>1 DEF Reached
    <3>3. i \in R
      BY <1>1, <2>4, QuorumsShare
    <3> QED BY <1>3, <2>3, <3>2, <3>3
  <2> QED BY <1>1, <1>3, <1>4, <2>4, <2>5 DEF Wins
<1>7. CASE action[i].type # "HARD_STATE"
  <2>1. hard'[i] = hard[i]
    BY <1>7 DEF Move, Effected
  <2>2. Campaigns(i, u)
    BY <1>3, <1>7, <2>1, PastTyped, PastTypedNext DEF Campaigns
  <2>3. u \notin DOMAIN L
    <3>1. SUFFICES ASSUME u \in DOMAIN L PROVE FALSE
      OBVIOUS
    <3>2. PICK R \in Quorums : \A j \in R :
             /\ hard[j].term = u => hard[j].vote \notin {i, NoId}
             /\ \A m \in msgs :
                   m.type = "RVR" /\ m.granted /\ m.from = j /\ m.term = u
                       => m.to # i
      BY <2>2, <3>1, <1>2 DEF CampaignLost
    <3>3. PICK v \in Server : v \in R /\ v \in Q
      BY <1>1, QuorumsShare
    <3>4. CASE v = i
      BY <1>1, <2>1, <3>2, <3>3, <3>4
    <3>5. CASE v # i
      BY <1>1, <3>2, <3>3, <3>5 DEF Granted
    <3> QED BY <3>4, <3>5
  <2>4. ASSUME NEW v \in Q, v # i, NEW t \in Term, NEW k \in Index,
               <<v, t, k>> \in A, t < u
        PROVE  \/ LogIsFresh(LastTermOf(log[i]), Len(log[i]), t, k)
               \/ Lost(hard, A, t, k)
    BY <1>5, <2>2, <2>4 DEF VoteSound
  <2> QED BY <1>1, <1>3, <1>4, <2>3, <2>4 DEF Wins
<1> QED BY <1>6, <1>7

---------------------------------------------------------------------------
(* The past after the step.                                                *)

\* i, the leader of term u, has appended entries of its term.
LedOn(L, i, u) ==
    /\ role[i] = "LEADER"
    /\ u = hard[i].term /\ u \in DOMAIN L /\ L[u] = log[i]
    /\ action[i].type = "LOG_APPEND"
    /\ \A k \in 1..Len(action[i].entries) : action[i].entries[k].term = u
    /\ Appended(log[i], log'[i], action[i].entries)
    /\ hard'[i] = hard[i] /\ app'[i] = app[i]

\* i does not lead, or it leads with the log that is recorded already.
NotLed(L, i) ==
    /\ role'[i] = "LEADER" =>
         /\ currentTerm'[i] \in DOMAIN L
         /\ L[currentTerm'[i]] = log'[i]
    /\ role[i] = "LEADER" => log'[i] = log[i]

\* How the leaders' logs may change.
LEMMA LogCases ==
    ASSUME LocalState, LocalState', NEW L, NEW A, Sound(L, A),
           NEW i \in Server, Move(i), NEW M, NEW B, Inherits(L, A, M, B, i)
    PROVE  \/ NotLed(L, i) /\ M = L
           \/ /\ LedOn(L, i, hard[i].term)
              /\ M = Recorded(L, hard[i].term, log'[i])
           \/ /\ Wins(L, A, i, currentTerm'[i], votes'[i])
              /\ M = Recorded(L, currentTerm'[i], log'[i])
<1>1. Leads(L, A, i) /\ ActionSound(L, A, i) /\ M = NextLogs(L, i)
  BY DEF Sound, NodeSound, Inherits
<1>2. hard[i].term = currentTerm[i] /\ hard'[i].term = currentTerm'[i]
  BY PastTyped, PastTypedNext
<1>3. CASE role'[i] = "LEADER" /\ role[i] # "LEADER"
  BY <1>1, <1>3, BecomesLeader DEF NextLogs
<1>4. CASE role[i] = "LEADER"
  <2>1. action[i].type \notin {"HARD_STATE", "LOG_TRUNCATE"}
    BY <1>1, <1>4, RoleActions
  <2>2. hard'[i] = hard[i]
    BY <2>1 DEF Move, Effected
  <2>3. CASE log'[i] = log[i]
    BY <1>1, <1>2, <1>4, <2>2, <2>3 DEF NotLed, Leads, NextLogs
  <2>4. CASE log'[i] # log[i]
    <3>1. /\ action[i].type = "LOG_APPEND"
          /\ Appended(log[i], log'[i], action[i].entries)
          /\ app'[i] = app[i]
      BY <2>1, <2>4 DEF Move, Effected
    <3>2. \A k \in 1..Len(action[i].entries) :
             action[i].entries[k].term = hard[i].term
      BY <1>1, <1>2, <1>4, <3>1 DEF ActionSound
    <3>3. LedOn(L, i, hard[i].term)
      BY <1>1, <1>2, <1>4, <2>2, <3>1, <3>2 DEF LedOn, Leads
    <3>4. M = Recorded(L, hard[i].term, log'[i])
      BY <1>1, <1>4, <2>4 DEF NextLogs
    <3> QED BY <3>3, <3>4
  <2> QED BY <2>3, <2>4
<1>5. CASE role'[i] # "LEADER" /\ role[i] # "LEADER"
  BY <1>1, <1>5 DEF NotLed, NextLogs
<1> QED BY <1>3, <1>4, <1>5

\* An appending leader's log can be recorded.
LEMMA LedOnRecordable ==
    ASSUME LocalState, LocalState', NEW L, LeaderLogs(L),
           NEW i \in Server, NEW u, LedOn(L, i, u)
    PROVE  Recordable(L, u, log'[i])
<1> DEFINE es == action[i].entries
<1>1. /\ u \in DOMAIN L /\ L[u] = log[i] /\ log'[i] \in Seq(Entry)
      /\ Len(log[i]) \in Nat /\ Len(log'[i]) \in Nat
      /\ Appended(log[i], log'[i], es) /\ Len(es) \in Nat
  BY PastTyped, PastTypedNext, ActionFields, LenNat DEF LedOn
<1>2. ASSUME NEW k \in 1..Len(log'[i]), k > Len(log[i])
      PROVE  log'[i][k].term = u
  <2>1. /\ Len(log'[i]) <= Len(log[i]) + Len(es)
        /\ log'[i][k] = es[k - Len(log[i])]
    BY <1>1, <1>2 DEF Appended
  <2>2. k - Len(log[i]) \in 1..Len(es)
    <3> DEFINE x == Len(log[i])
               y == Len(log'[i])
               z == Len(es)
    <3>1. /\ x \in Nat /\ y \in Nat /\ z \in Nat
          /\ k \in 1..y /\ k > x /\ y <= x + z
      BY <1>1, <1>2, <2>1
    <3> HIDE DEF x, y, z
    <3>2. k - x \in 1..z
      BY ONLY <3>1
    <3> QED BY <3>2 DEF x, z
  <2> QED BY <2>1, <2>2 DEF LedOn
<1> QED BY <1>1, <1>2, AppendRecordable DEF Appended

\* So can the log of a new leader, which has no entry of the new term.
LEMMA WinsRecordable ==
    ASSUME LocalState, LocalState', NEW L, NEW A, Past(L, A, hard, log, app),
           NEW i \in Server, Move(i), NEW u, NEW Q, Wins(L, A, i, u, Q)
    PROVE  /\ Recordable(L, u, log'[i])
           /\ \A k \in 1..Len(log'[i]) : log'[i][k].term < u
           /\ u \in Term /\ u \notin DOMAIN L
<1>1. /\ LeaderLogs(L) /\ LogsAgree(L, hard, log)
      /\ log'[i] = log[i] /\ log[i] \in Seq(Entry)
      /\ u \in Term /\ u \notin DOMAIN L /\ u \in Nat
      /\ hard'[i].term = u /\ hard[i].term \in Nat /\ u >= hard[i].term
  <2>1. hard'[i].term >= hard[i].term
    BY MoveAhead, TermsLater
  <2> QED BY <2>1, PastTyped, PastTypedNext DEF Past, Wins
<1>2. ASSUME NEW k \in 1..Len(log[i])
      PROVE  log[i][k].term <= u
  <2>1. log[i][k].term <= hard[i].term /\ log[i][k].term \in DOMAIN L
    BY <1>1 DEF LogsAgree, Agrees
  <2>2. log[i][k].term \in Nat
    BY <1>1, <2>1, LeaderLog
  <2> QED BY ONLY <1>1, <2>1, <2>2
<1>3. Agrees(L, log[i])
  BY <1>1 DEF LogsAgree
<1> QED BY <1>1, <1>2, <1>3, ElectRecordable

\* The past grows.
LEMMA PastGrows ==
    ASSUME LocalState, LocalState', NEW L, NEW A, Sound(L, A),
           NEW i \in Server, Move(i), NEW M, NEW B, Inherits(L, A, M, B, i)
    PROVE  Grows(L, A, hard, M, B, hard', i)
<1>1. LeaderLogs(L) /\ Past(L, A, hard, log, app)
  BY DEF Sound, Past
<1>2. News(A, B, hard', i)
  BY DEF Inherits, NewAcks, News
<1>3. Ahead(hard, hard', i)
  BY MoveAhead
<1>4. CASE M = L
  <2>1. \A u \in DOMAIN L : Same(L[u], L[u], Len(L[u]))
    BY <1>1, SameNone, LeaderLog
  <2> QED BY <1>1, <1>2, <1>3, <1>4, <2>1 DEF Grows, Extends
<1>5. ASSUME NEW u, Recordable(L, u, log'[i]), M = Recorded(L, u, log'[i])
      PROVE  LeaderLogs(M) /\ Extends(L, M)
  BY <1>1, <1>5, RecordExtends
<1>6. CASE LedOn(L, i, hard[i].term) /\ M = Recorded(L, hard[i].term, log'[i])
  <2>1. Recordable(L, hard[i].term, log'[i])
    BY <1>1, <1>6, LedOnRecordable
  <2> QED BY <1>1, <1>2, <1>3, <1>5, <1>6, <2>1 DEF Grows
<1>7. CASE /\ Wins(L, A, i, currentTerm'[i], votes'[i])
           /\ M = Recorded(L, currentTerm'[i], log'[i])
  <2>1. Recordable(L, currentTerm'[i], log'[i])
    BY <1>1, <1>7, WinsRecordable
  <2> QED BY <1>1, <1>2, <1>3, <1>5, <1>7, <2>1 DEF Grows
<1> QED BY <1>4, <1>6, <1>7, LogCases

---------------------------------------------------------------------------
(* The durable state after the step.                                       *)

\* i has taken a step and M, B is the past that the past L, A leaves.
Hands(L, A, M, B, i) ==
    /\ LocalState
    /\ LocalState'
    /\ Sound(L, A)
    /\ Move(i)
    /\ Inherits(L, A, M, B, i)

\* A prefix of a leader's log agrees with the leaders' logs.
LEMMA PrefixAgrees ==
    ASSUME NEW L, LeaderLogs(L), NEW u \in DOMAIN L, NEW l \in Seq(Entry),
           Same(l, L[u], Len(l))
    PROVE  /\ Agrees(L, l)
           /\ \A k \in 1..Len(l) : l[k].term <= u
<1>1. ASSUME NEW k \in 1..Len(l)
      PROVE  l[k].term \in DOMAIN L /\ Same(l, L[l[k].term], k) /\ l[k].term <= u
  <2>1. Len(l) \in Nat /\ L[u] \in Seq(Entry) /\ Len(L[u]) \in Nat
    BY LenNat, LeaderLog
  <2>2. l[k] = L[u][k] /\ k \in 1..Len(L[u])
    BY <2>1 DEF Same
  <2>3. L[u][k].term \in DOMAIN L /\ Same(L[u], L[L[u][k].term], k)
        /\ L[u][k].term <= u
    BY <2>2 DEF LeaderLogs, Agrees
  <2>4. Same(l, L[u], k)
    BY <2>1, SameShorter
  <2> QED BY <2>2, <2>3, <2>4, SameTrans
<1> QED BY <1>1 DEF Agrees

\* An append of a leader's next entries gives a prefix of the leader's log.
LEMMA AppendedSame ==
    ASSUME NEW l \in Seq(Entry), NEW m \in Seq(Entry), NEW es \in Seq(Entry),
           NEW r \in Seq(Entry), Appended(l, m, es),
           Same(l, r, Len(l)), Len(l) + Len(es) <= Len(r),
           \A k \in 1..Len(es) : es[k] = r[Len(l) + k]
    PROVE  Same(m, r, Len(m))
<1> DEFINE x == Len(l)
           y == Len(m)
           z == Len(es)
<1>1. /\ x \in Nat /\ y \in Nat /\ z \in Nat /\ Len(r) \in Nat
      /\ x <= y /\ y <= x + z /\ x + z <= Len(r)
  BY LenNat DEF Appended
<1>2. ASSUME NEW k \in 1..y
      PROVE  m[k] = r[k]
  <2>1. CASE k <= x
    <3>1. k \in 1..x
      BY <1>1, <2>1
    <3> QED BY <3>1 DEF Same, Appended
  <2>2. CASE k > x
    <3>1. k - x \in 1..z /\ x + (k - x) = k
      <4> HIDE DEF x, y, z
      <4> QED BY <1>1, <2>2
    <3>2. m[k] = es[k - x]
      BY <2>2 DEF Appended
    <3>3. es[k - x] = r[x + (k - x)]
      BY <3>1
    <3> QED BY <3>1, <3>2, <3>3
  <2> QED BY <1>1, <2>1, <2>2
<1>3. y <= Len(r) /\ y <= y
  <2> HIDE DEF x, y, z
  <2> QED BY <1>1
<1> QED BY <1>2, <1>3 DEF Same

\* A cut log has a common prefix with the log.
LEMMA CutSame ==
    ASSUME NEW l \in Seq(Entry), NEW m \in Seq(Entry), NEW f, Cut(l, m, f)
    PROVE  Same(m, l, Len(m))
BY LenNat DEF Cut, Same

\* What i has appended as a follower is a prefix of its leader's log.
LEMMA FollowerAppended ==
    ASSUME LocalState, LocalState', NEW L, NEW A, LeaderLogs(L),
           NEW i \in Server, ActionSound(L, A, i), role[i] # "LEADER",
           action[i].type = "LOG_APPEND",
           Appended(log[i], log'[i], action[i].entries)
    PROVE  /\ hard[i].term \in DOMAIN L
           /\ Same(log'[i], L[hard[i].term], Len(log'[i]))
<1> DEFINE es == action[i].entries
           u == hard[i].term
<1>1. /\ log[i] \in Seq(Entry) /\ log'[i] \in Seq(Entry)
      /\ es \in Seq(Entry) /\ u = currentTerm[i]
  BY PastTyped, PastTypedNext, ActionFields
<1>2. /\ u \in DOMAIN L
      /\ Same(log[i], L[u], Len(log[i]))
      /\ Len(log[i]) + Len(es) <= Len(L[u])
      /\ \A k \in 1..Len(es) : es[k] = L[u][Len(log[i]) + k]
  BY <1>1 DEF ActionSound
<1>3. L[u] \in Seq(Entry)
  BY <1>2, LeaderLog
<1> HIDE DEF es, u
<1>4. Same(log'[i], L[u], Len(log'[i]))
  BY <1>1, <1>2, <1>3, AppendedSame DEF es
<1> QED BY <1>2, <1>4 DEF u

\* The log of i agrees with the leaders' logs.
LEMMA HandsLogs ==
    ASSUME NEW L, NEW A, NEW M, NEW B, NEW i \in Server, Hands(L, A, M, B, i)
    PROVE  LogsAgree(M, hard', log')
<1>1. /\ LocalState /\ LocalState' /\ Sound(L, A) /\ Move(i)
      /\ Inherits(L, A, M, B, i)
  BY DEF Hands
<1>2. /\ LeaderLogs(L) /\ LogsAgree(L, hard, log) /\ ActionSound(L, A, i)
  BY <1>1 DEF Sound, Past, NodeSound
<1>3. /\ Grows(L, A, hard, M, B, hard', i)
      /\ LeaderLogs(M) /\ Extends(L, M)
      /\ hard'[i].term >= hard[i].term
  <2>1. Grows(L, A, hard, M, B, hard', i)
    BY <1>1, PastGrows
  <2> QED BY <2>1, TermsLater DEF Grows
<1>4. /\ log[i] \in Seq(Entry) /\ log'[i] \in Seq(Entry)
      /\ Len(log[i]) \in Nat /\ Len(log'[i]) \in Nat
      /\ hard[i].term \in Nat /\ hard'[i].term \in Nat
  BY <1>1, PastTyped, PastTypedNext
<1>5. /\ Agrees(L, log[i])
      /\ \A k \in 1..Len(log[i]) : log[i][k].term <= hard[i].term
  BY <1>2 DEF LogsAgree
<1>6. ASSUME Agrees(L, log'[i]),
             \A k \in 1..Len(log'[i]) : log'[i][k].term <= hard[i].term
      PROVE  /\ Agrees(M, log'[i])
             /\ \A k \in 1..Len(log'[i]) : log'[i][k].term <= hard'[i].term
  <2>1. Agrees(M, log'[i])
    BY <1>2, <1>3, <1>4, <1>6, AgreesLater
  <2>2. ASSUME NEW k \in 1..Len(log'[i])
        PROVE  log'[i][k].term <= hard'[i].term
    <3>1. log'[i][k].term <= hard[i].term /\ log'[i][k].term \in DOMAIN L
      BY <1>6 DEF Agrees
    <3>2. log'[i][k].term \in Nat
      BY <1>2, <3>1, LeaderLog
    <3> QED BY ONLY <1>3, <1>4, <3>1, <3>2
  <2> QED BY <2>1, <2>2
<1>7. /\ Agrees(M, log'[i])
      /\ \A k \in 1..Len(log'[i]) : log'[i][k].term <= hard'[i].term
  <2>1. CASE log'[i] = log[i]
    BY <1>5, <1>6, <2>1
  <2>2. CASE /\ action[i].type = "LOG_APPEND"
             /\ Appended(log[i], log'[i], action[i].entries)
             /\ role[i] # "LEADER"
    <3>1. /\ hard[i].term \in DOMAIN L
          /\ Same(log'[i], L[hard[i].term], Len(log'[i]))
      BY <1>1, <1>2, <2>2, FollowerAppended
    <3> QED BY <1>2, <1>4, <1>6, <3>1, PrefixAgrees
  <2>3. CASE role[i] = "LEADER" /\ log'[i] # log[i]
    <3>1. /\ LedOn(L, i, hard[i].term)
          /\ M = Recorded(L, hard[i].term, log'[i])
      BY <1>1, <2>3, LogCases DEF NotLed, Wins
    <3>2. /\ hard[i].term \in DOMAIN M /\ M[hard[i].term] = log'[i]
          /\ hard'[i].term = hard[i].term
      BY <3>1 DEF Recorded, LedOn
    <3> QED BY <1>3, <3>2, LeaderLog DEF LeaderLogs
  <2>4. CASE Cut(log[i], log'[i], action[i].first)
    <3>1. ASSUME NEW k \in 1..Len(log'[i])
          PROVE  /\ log'[i][k].term \in DOMAIN L
                 /\ Same(log'[i], L[log'[i][k].term], k)
                 /\ log'[i][k].term <= hard[i].term
      <4>1. k \in 1..Len(log[i]) /\ log'[i][k] = log[i][k]
        BY <1>4, <2>4 DEF Cut
      <4>2. Same(log'[i], log[i], k)
        BY <1>4, <2>4, CutSame, SameShorter
      <4> QED BY <1>5, <4>1, <4>2, SameTrans DEF Agrees
    <3> QED BY <1>6, <3>1 DEF Agrees
  <2> QED BY <1>1, <2>1, <2>2, <2>3, <2>4 DEF Move, Effected
<1>8. LogMoves(log, log', i)
  BY <1>1, MoveAhead
<1> QED BY <1>2, <1>3, <1>7, <1>8, LogsAgreeNext

\* What the step of i starts from and what it keeps.
LEMMA HandsFacts ==
    ASSUME NEW L, NEW A, NEW M, NEW B, NEW i \in Server, Hands(L, A, M, B, i)
    PROVE  /\ LocalState /\ LocalState' /\ Sound(L, A) /\ Move(i)
           /\ Inherits(L, A, M, B, i)
           /\ LeaderLogs(L) /\ LogsAgree(L, hard, log)
           /\ AcksKept(L, A, hard, log) /\ LeadersComplete(L, A, hard)
           /\ AppsCommitted(L, A, hard, log, app) /\ VotesReach(hard)
           /\ \A j \in Server : NodeSound(L, A, j)
           /\ \A m \in msgs : MessageSound(L, A, m)
           /\ Grows(L, A, hard, M, B, hard', i)
           /\ Ahead(hard, hard', i) /\ LogMoves(log, log', i)
           /\ LeaderLogs(M) /\ Extends(L, M) /\ A \subseteq B
           /\ \A j \in Server : hard'[j].term >= hard[j].term
<1>1. /\ LocalState /\ LocalState' /\ Sound(L, A) /\ Move(i)
      /\ Inherits(L, A, M, B, i)
  BY DEF Hands
<1>2. Grows(L, A, hard, M, B, hard', i)
  BY <1>1, PastGrows
<1>3. Ahead(hard, hard', i) /\ LogMoves(log, log', i)
  BY <1>1, MoveAhead
<1>4. \A j \in Server : hard'[j].term >= hard[j].term
  BY <1>3, TermsLater
<1>5. LeaderLogs(M) /\ Extends(L, M) /\ A \subseteq B
  BY <1>2 DEF Grows, News
<1> QED BY <1>1, <1>2, <1>3, <1>4, <1>5 DEF Sound, Past

\* What i has cut off cannot be chosen any more.
LEMMA HandsAcks ==
    ASSUME NEW L, NEW A, NEW M, NEW B, NEW i \in Server, Hands(L, A, M, B, i)
    PROVE  AcksKept(M, B, hard', log')
<1>1. /\ LocalState /\ LocalState' /\ LeaderLogs(L)
      /\ LeadersComplete(L, A, hard) /\ NodeSound(L, A, i) /\ Move(i)
      /\ Grows(L, A, hard, M, B, hard', i) /\ LogMoves(log, log', i)
      /\ AcksKept(L, A, hard, log)
  BY HandsFacts
<1>2. B = A \union NewAcks(hard', log', i) /\ LogsAgree(M, hard', log')
  BY HandsLogs DEF Hands, Inherits
<1>3. /\ Agrees(L, log[i])
      /\ \A k \in 1..Len(log[i]) : log[i][k].term <= hard[i].term
  BY HandsFacts DEF LogsAgree
<1>4. /\ log[i] \in Seq(Entry) /\ Len(log[i]) \in Nat /\ Len(log'[i]) \in Nat
      /\ hard[i].term = currentTerm[i] /\ action[i] \in Action
  BY <1>1, PastTyped, PastTypedNext
<1>5. ASSUME NEW t \in Term, NEW k \in Index, Holds(log[i], t, k)
      PROVE  Holds(log'[i], t, k) \/ Lost(hard, A, t, k)
  <2>1. CASE log'[i] = log[i]
    BY <1>5, <2>1
  <2>2. CASE Appended(log[i], log'[i], action[i].entries)
    BY <1>4, <1>5, <2>2 DEF Appended, Holds
  <2>3. CASE /\ action[i].type = "LOG_TRUNCATE"
             /\ Cut(log[i], log'[i], action[i].first)
    <3> DEFINE f == action[i].first
               u == hard[i].term
    <3>1. /\ u \in DOMAIN L
          /\ log[i][f].term # L[u][f].term
      BY <1>1, <1>4, <2>3 DEF NodeSound, ActionSound
    <3>2. f \in Nat \ {0}
      <4>1. f \in Index /\ commitIndex[i] \in Index /\ f > commitIndex[i]
        BY <1>1, <1>4, <2>3, ActionFields
           DEF LocalState, NodesInv, LocalInv, ActionFits, TypeOK
      <4> QED BY <4>1, Limits DEF Index
    <3>3. CASE k <= Len(log'[i])
      BY <1>4, <1>5, <2>3, <3>3 DEF Cut, Holds
    <3>4. CASE f <= k
      BY <1>1, <1>3, <1>4, <1>5, <3>1, <3>2, <3>4, ConflictLost
    <3>5. f <= k \/ k <= Len(log'[i])
      <4>1. f - 1 <= Len(log'[i]) /\ k \in Nat
        BY <2>3, Limits DEF Cut, Index
      <4> QED BY <1>4, <3>2, <4>1
    <3> QED BY <3>3, <3>4, <3>5
  <2> QED BY <1>1, <2>1, <2>2, <2>3 DEF Move, Effected
<1> QED BY <1>1, <1>2, <1>5, AcksKeptNext

\* Every leader holds what an earlier one may have got chosen, the new one
\* because its quorum would not have voted for it otherwise.
LEMMA HandsLeaders ==
    ASSUME NEW L, NEW A, NEW M, NEW B, NEW i \in Server, Hands(L, A, M, B, i)
    PROVE  LeadersComplete(M, B, hard')
<1>1. /\ LocalState /\ LocalState' /\ Sound(L, A) /\ LeaderLogs(L)
      /\ LeadersComplete(L, A, hard) /\ Move(i) /\ Inherits(L, A, M, B, i)
      /\ Grows(L, A, hard, M, B, hard', i)
      /\ AcksKept(L, A, hard, log) /\ LogsAgree(L, hard, log)
      /\ LogMoves(log, log', i)
  BY HandsFacts
<1>2. CASE DOMAIN M = DOMAIN L
  BY <1>1, <1>2, LeadersCompleteNext
<1>3. ASSUME NEW u, Wins(L, A, i, u, votes'[i]), M = Recorded(L, u, log'[i])
      PROVE  LeadersComplete(M, B, hard')
  <2> DEFINE Q == votes'[i]
  <2>1. /\ \A k \in 1..Len(log'[i]) : log'[i][k].term < u
        /\ u \in Term /\ u \in Nat /\ u \notin DOMAIN L
    <3>1. Past(L, A, hard, log, app)
      BY <1>1 DEF Sound
    <3> QED BY <1>1, <1>3, <3>1, WinsRecordable, Limits DEF Term
  <2>2. /\ DOMAIN M = DOMAIN L \union {u} /\ M[u] = log'[i]
        /\ \A t \in DOMAIN L : t # u => M[t] = L[t]
    BY <1>3 DEF Recorded
  <2>3. Q \in Quorums /\ log'[i] = log[i] /\ i \in Server
        /\ \A v \in Q :
              /\ hard'[v].term > u \/ hard'[v] = [term |-> u, vote |-> i]
              /\ v # i =>
                   \A t \in Term, k \in Index : <<v, t, k>> \in A /\ t < u =>
                      \/ LogIsFresh(LastTermOf(log[i]), Len(log[i]), t, k)
                      \/ Lost(hard, A, t, k)
    BY <1>3 DEF Wins
  <2>4. Reached(hard', u)
    <3>1. i # NoId
      BY ServerAssumption
    <3> QED BY <2>3, <3>1 DEF Reached
  <2>5. \A v \in Q : hard'[v].term >= u
    <3>1. \A v \in Q : hard'[v].term > u \/ hard'[v].term = u
      BY <2>3
    <3>2. \A v \in Q : v \in Server
      BY <2>3 DEF Quorums
    <3>3. \A v \in Q : hard'[v].term \in Nat
      BY <1>1, <3>2, PastTypedNext
    <3> QED BY <2>1, <3>1, <3>3
  <2>6. ASSUME NEW t \in DOMAIN M, NEW k \in 1..Len(M[t]),
               t < u, M[t][k].term = t
        PROVE  Holds(M[u], t, k) \/ Lost(hard', B, t, k)
    <3>1. t # u
      BY <2>1, <2>6
    <3>2. t \in DOMAIN L /\ M[t] = L[t]
      BY <2>2, <3>1
    <3>3. log \in Logs
      BY <1>1, PastTyped
    <3>4. Holds(log[i], t, k) \/ Lost(hard', B, t, k)
      BY <1>1, <2>1, <2>3, <2>5, <2>6, <3>2, <3>3, ElectComplete
    <3> QED BY <2>2, <2>3, <3>4
  <2>7. \A k \in 1..Len(M[u]) : M[u][k].term # u
    <3>1. ASSUME NEW k \in 1..Len(M[u]), M[u][k].term = u PROVE FALSE
      BY <2>1, <2>2, <3>1
    <3> QED BY <3>1
  <2>8. \A w \in DOMAIN M \ DOMAIN L : w = u
    BY <2>2
  <2> QED BY <1>1, <2>4, <2>6, <2>7, <2>8, LeadersCompleteNext
<1>4. CASE LedOn(L, i, hard[i].term) /\ M = Recorded(L, hard[i].term, log'[i])
  BY <1>2, <1>4 DEF LedOn, Recorded
<1> QED BY <1>1, <1>2, <1>3, <1>4, LogCases

\* A prefix that is long enough survives a cut beyond it and an append.
LEMMA PrefixSurvives ==
    ASSUME NEW a \in Seq(Entry), NEW l \in Seq(Entry), NEW m \in Seq(Entry),
           Same(a, l, Len(a)),
           \/ m = l
           \/ \E es : Appended(l, m, es)
           \/ \E f \in Nat : Cut(l, m, f) /\ Len(a) < f
    PROVE  Same(a, m, Len(a))
<1>1. Len(a) \in Nat /\ Len(l) \in Nat /\ Len(m) \in Nat
  BY LenNat
<1>2. CASE m = l
  BY <1>2
<1>3. ASSUME NEW es, Appended(l, m, es)
      PROVE  Same(a, m, Len(a))
  BY <1>1, <1>3 DEF Appended, Same
<1>4. ASSUME NEW f \in Nat, Cut(l, m, f), Len(a) < f
      PROVE  Same(a, m, Len(a))
  <2>1. Len(a) <= Len(m)
    <3>1. f - 1 <= Len(m)
      BY <1>4 DEF Cut
    <3> QED BY <1>1, <1>4, <3>1
  <2> QED BY <1>1, <1>4, <2>1 DEF Cut, Same
<1> QED BY <1>2, <1>3, <1>4

\* An application that gets the next entry of a log is a prefix of it.
LEMMA AppliedSame ==
    ASSUME NEW a \in Seq(Entry), NEW l \in Seq(Entry), NEW k \in Nat,
           Same(a, l, Len(a)), k \in 1..Len(l)
    PROVE  /\ Applied(a, k, l[k]) \in Seq(Entry)
           /\ Same(Applied(a, k, l[k]), l, Len(Applied(a, k, l[k])))
           /\ Len(Applied(a, k, l[k])) = Len(a) \/ Len(Applied(a, k, l[k])) = k
<1>1. Len(a) \in Nat /\ Len(l) \in Nat /\ l[k] \in Entry
  BY LenNat, ElementOfSeq
<1>2. CASE k = Len(a) + 1
  <2> DEFINE b == Append(a, l[k])
  <2>1. /\ b \in Seq(Entry) /\ Len(b) = k /\ b[k] = l[k]
        /\ \A h \in 1..Len(a) : b[h] = a[h]
    BY <1>1, <1>2, AppendProperties
  <2> HIDE DEF b
  <2>2. \A h \in 1..k : b[h] = l[h]
    <3>1. ASSUME NEW h \in 1..k PROVE b[h] = l[h]
      <4>1. h = k \/ h \in 1..Len(a)
        BY <1>1, <1>2
      <4> QED BY <2>1, <4>1 DEF Same
    <3> QED BY <3>1
  <2>3. Same(b, l, Len(b))
    BY <1>1, <2>1, <2>2 DEF Same
  <2> QED BY <1>2, <2>1, <2>3 DEF Applied, b
<1>3. CASE k # Len(a) + 1
  BY <1>3 DEF Applied
<1> QED BY <1>2, <1>3

\* What applications have is committed and survives the step.
LEMMA HandsApps ==
    ASSUME NEW L, NEW A, NEW M, NEW B, NEW i \in Server, Hands(L, A, M, B, i)
    PROVE  AppsCommitted(M, B, hard', log', app')
<1> DEFINE a == action[i]
<1>1. /\ LocalState /\ LocalState' /\ LeaderLogs(L) /\ NodeSound(L, A, i)
      /\ AcksKept(L, A, hard, log) /\ LeadersComplete(L, A, hard)
      /\ AppsCommitted(L, A, hard, log, app) /\ Move(i)
      /\ Grows(L, A, hard, M, B, hard', i) /\ LogMoves(log, log', i)
      /\ hard'[i].term >= hard[i].term
  BY HandsFacts
<1>2. /\ hard \in HardStates /\ app \in Logs
      /\ app[i] \in Seq(Entry) /\ Len(app[i]) \in Nat
      /\ app'[i] \in Seq(Entry) /\ Len(app'[i]) \in Nat
      /\ log[i] \in Seq(Entry) /\ log'[i] \in Seq(Entry)
      /\ Len(log[i]) \in Nat /\ Len(log'[i]) \in Nat
      /\ hard[i].term \in Nat /\ hard'[i].term \in Nat
      /\ hard[i].term = currentTerm[i] /\ a \in Action
      /\ commitIndex[i] \in Nat
  <2>1. commitIndex[i] \in Index
    BY <1>1 DEF LocalState, NodesInv, TypeOK
  <2> QED BY <1>1, <2>1, PastTyped, PastTypedNext, Limits DEF Index
<1>3. /\ Same(app[i], log[i], Len(app[i]))
      /\ Committed(L, A, app[i], hard[i].term, Len(app[i]))
  BY <1>1 DEF AppsCommitted
<1>4. Committed(L, A, log[i], hard[i].term, Len(app[i]))
  BY <1>1, <1>2, <1>3, SameSym, CommittedLess
<1>5. \A j \in Server \ {i} : app'[j] = app[j]
  BY <1>1 DEF Move, Others
<1>6. ASSUME Same(app'[i], log'[i], Len(app'[i])),
             Committed(L, A, app'[i], hard[i].term, Len(app'[i]))
      PROVE  AppsCommitted(M, B, hard', log', app')
  <2>1. Committed(M, B, app'[i], hard'[i].term, Len(app'[i]))
    BY <1>1, <1>2, <1>6, CommittedLater
  <2> QED BY <1>1, <1>2, <1>5, <1>6, <2>1, AppsCommittedNext
<1>7. CASE app'[i] = app[i] /\ log'[i] = log[i]
  BY <1>3, <1>6, <1>7
<1>8. CASE app'[i] = app[i] /\ Appended(log[i], log'[i], a.entries)
  BY <1>2, <1>3, <1>6, <1>8, PrefixSurvives
<1>9. CASE /\ a.type = "LOG_TRUNCATE" /\ app'[i] = app[i]
           /\ Cut(log[i], log'[i], a.first)
  <2>1. /\ hard[i].term \in DOMAIN L
        /\ log[i][a.first].term # L[hard[i].term][a.first].term
    BY <1>1, <1>2, <1>9 DEF NodeSound, ActionSound
  <2>2. a.first \in Nat \ {0}
    <3>1. a.first \in Index /\ a.first > commitIndex[i]
      BY <1>1, <1>2, <1>9, ActionFields
         DEF LocalState, NodesInv, LocalInv, ActionFits
    <3> QED BY <1>2, <3>1, Limits DEF Index
  <2>3. Len(app[i]) < a.first
    BY <1>1, <1>2, <1>4, <2>1, <2>2, ConflictBeyond
  <2> QED BY <1>2, <1>3, <1>6, <1>9, <2>2, <2>3, PrefixSurvives
<1>10. CASE /\ a.type = "APPLY" /\ log'[i] = log[i]
            /\ app'[i] = Applied(app[i], a.index, a.entry)
  <2>1. /\ a.index \in 1..Len(log[i]) /\ a.entry = log[i][a.index]
        /\ a.index <= commitIndex[i]
    <3>1. ActionSound(L, A, i)
      BY <1>1 DEF NodeSound
    <3>2. ActionFits(i)
      BY <1>1 DEF LocalState, NodesInv, LocalInv
    <3> QED BY <1>10, <3>1, <3>2 DEF ActionSound, Holds, ActionFits
  <2>2. /\ Same(app'[i], log[i], Len(app'[i]))
        /\ Len(app'[i]) = Len(app[i]) \/ Len(app'[i]) = a.index
    BY <1>2, <1>3, <1>10, <2>1, AppliedSame
  <2>3. Committed(L, A, log[i], hard[i].term, commitIndex[i])
    BY <1>1 DEF NodeSound, ProgressSound
  <2>4. CASE Len(app'[i]) = Len(app[i])
    BY <1>1, <1>2, <1>4, <1>6, <1>10, <2>2, <2>4, CommittedLess
  <2>5. CASE Len(app'[i]) = a.index
    BY <1>1, <1>2, <1>6, <1>10, <2>1, <2>2, <2>3, <2>5, CommittedLess
  <2> QED BY <2>2, <2>4, <2>5
<1> QED BY <1>1, <1>7, <1>8, <1>9, <1>10 DEF Move, Effected

\* Who is voted for has come to the term.
LEMMA HandsVotesReach ==
    ASSUME NEW L, NEW A, NEW M, NEW B, NEW i \in Server, Hands(L, A, M, B, i)
    PROVE  VotesReach(hard')
<1>1. /\ LocalState /\ LocalState' /\ VotesReach(hard) /\ Move(i)
      /\ VotesSound(A, i)
      /\ \A j \in Server : hard'[j].term >= hard[j].term
  BY HandsFacts DEF NodeSound
<1>2. \A j \in Server : hard[j].term \in Nat /\ hard'[j].term \in Nat
  BY <1>1, PastTyped, PastTypedNext
<1>3. ASSUME NEW j \in Server, hard'[j].vote \in Server
      PROVE  hard'[j].term <= hard'[hard'[j].vote].term
  <2> DEFINE v == hard'[j].vote
  <2>1. CASE hard'[j] = hard[j]
    <3>1. hard'[j].term <= hard[v].term
      BY <1>1, <1>3, <2>1 DEF VotesReach
    <3> QED BY <1>1, <1>2, <1>3, <3>1
  <2>2. CASE hard'[j] # hard[j]
    <3>1. /\ j = i /\ action[i].type = "HARD_STATE"
          /\ hard'[i] = [term |-> action[i].term, vote |-> action[i].vote]
      BY <1>1, <2>2 DEF Move, Effected, Others
    <3>2. CASE v = i
      BY <1>2, <3>1, <3>2
    <3>3. CASE v # i
      <4>1. hard'[j].term <= hard[v].term
        BY <1>1, <1>3, <3>1, <3>3 DEF VotesSound, VoteSound
      <4> QED BY <1>1, <1>2, <1>3, <4>1
    <3> QED BY <3>2, <3>3
  <2> QED BY <2>1, <2>2
<1> QED BY <1>3 DEF VotesReach

\* The next state has the past M, B.
LEMMA HandsPast ==
    ASSUME NEW L, NEW A, NEW M, NEW B, NEW i \in Server, Hands(L, A, M, B, i)
    PROVE  Past(M, B, hard', log', app')
BY HandsFacts, HandsLogs, HandsAcks, HandsLeaders, HandsApps, HandsVotesReach
   DEF Past

---------------------------------------------------------------------------
(* What was sound stays so.                                                *)

\* A campaign in a term that has a leader stays lost.
LEMMA CampaignLostNext ==
    ASSUME NEW L, NEW A, NEW M, NEW B, NEW i \in Server, Hands(L, A, M, B, i),
           NEW j \in Server
    PROVE  CampaignLost(M, j)'
<1>1. /\ LocalState /\ LocalState' /\ Sound(L, A) /\ Move(i)
      /\ Inherits(L, A, M, B, i) /\ LeadersComplete(L, A, hard)
      /\ VotesReach(hard) /\ LeaderLogs(M)
      /\ NodeSound(L, A, i) /\ NodeSound(L, A, j) /\ Ahead(hard, hard', i)
      /\ \A v \in Server : hard'[v].term >= hard[v].term
  BY HandsFacts
<1>2. \A v \in Server : hard[v].term \in Nat /\ hard'[v].term \in Nat
  BY <1>1, PastTyped, PastTypedNext
<1>3. \A Q \in Quorums : Q \subseteq Server
  BY DEF Quorums
<1> SUFFICES ASSUME NEW u \in DOMAIN M, Campaigns(j, u)'
             PROVE  \E Q \in Quorums : \A v \in Q :
                       /\ hard'[v].term >= u
                       /\ hard'[v].term = u => hard'[v].vote \notin {j, NoId}
                       /\ \A m \in msgs' :
                             m.type = "RVR" /\ m.granted /\ m.from = v
                               /\ m.term = u => m.to # j
  BY DEF CampaignLost
<1>4. u \in Nat
  BY <1>1, LeaderLog
<1>5. \/ Campaigns(j, u)
      \/ j = i /\ u > hard[i].term /\ hard'[i] = [term |-> u, vote |-> i]
  BY <1>1, CampaignFrom DEF NodeSound
<1>6. CASE u \in DOMAIN L /\ Campaigns(j, u)
  <2>1. PICK Q \in Quorums : \A v \in Q :
           /\ hard[v].term >= u
           /\ hard[v].term = u => hard[v].vote \notin {j, NoId}
           /\ \A m \in msgs :
                 m.type = "RVR" /\ m.granted /\ m.from = v /\ m.term = u
                   => m.to # j
    BY <1>1, <1>6 DEF NodeSound, CampaignLost
  <2>2. ASSUME NEW v \in Q
        PROVE  /\ hard'[v].term >= u
               /\ hard'[v].term = u => hard'[v].vote \notin {j, NoId}
    <3>1. /\ v \in Server /\ hard[v].term >= u
          /\ hard[v].term = u => hard[v].vote \notin {j, NoId}
      BY <1>3, <2>1
    <3>2. hard'[v].term >= u
      BY <1>1, <1>2, <1>4, <3>1
    <3>3. ASSUME hard'[v].term = u
          PROVE  hard'[v].vote \notin {j, NoId}
      <4>1. hard[v].term = u
        BY <1>1, <1>2, <1>4, <3>1, <3>3
      <4>2. hard'[v] = hard[v]
        <5>1. CASE v # i
          BY <1>1, <3>1, <5>1 DEF Ahead
        <5>2. CASE v = i
          BY <1>1, <1>2, <3>1, <3>3, <4>1, <5>2 DEF Ahead
        <5> QED BY <5>1, <5>2
      <4> QED BY <3>1, <4>1, <4>2
    <3> QED BY <3>2, <3>3
  <2>3. ASSUME NEW v \in Q, NEW m \in msgs',
               m.type = "RVR", m.granted, m.from = v, m.term = u
        PROVE  m.to # j
    <3>1. CASE m \in msgs
      BY <2>1, <2>3, <3>1
    <3>2. CASE action[i].type = "SEND" /\ m = action[i].msg
      <4>1. v = i /\ hard[i] = [term |-> u, vote |-> m.to]
        BY <1>1, <2>3, <3>2
           DEF LocalState, VoteInv, NodeInv, Backed, Stamped, Granted
      <4> QED BY <2>1, <4>1
    <3> QED BY <1>1, <3>1, <3>2 DEF Move
  <2> QED BY <2>2, <2>3
<1>7. CASE /\ u \in DOMAIN L
           /\ j = i /\ u > hard[i].term /\ hard'[i] = [term |-> u, vote |-> i]
  <2>1. PICK Q \in Quorums : \A v \in Q :
           hard[v].term > u \/ (hard[v].term = u /\ hard[v].vote # NoId)
    BY <1>1, <1>7 DEF LeadersComplete, Reached
  <2>2. ASSUME NEW v \in Q
        PROVE  /\ v \in Server /\ v # i /\ hard'[v] = hard[v]
               /\ hard[v].term >= u
    <3>1. v \in Server /\ hard[v].term \in Nat
      BY <1>2, <1>3
    <3>2. hard[v].term >= u
      BY <1>4, <2>1, <3>1
    <3>3. v # i
      BY <1>2, <1>4, <1>7, <3>2
    <3> QED BY <1>1, <3>1, <3>2, <3>3 DEF Ahead
  <2>3. ASSUME NEW v \in Q, hard[v].term = u
        PROVE  hard[v].vote \notin {i, NoId}
    <3>1. hard[v].vote # NoId
      BY <1>4, <2>1, <2>3
    <3>2. ASSUME hard[v].vote = i PROVE FALSE
      <4>1. u <= hard[i].term
        BY <1>1, <2>2, <2>3, <3>2 DEF VotesReach
      <4> QED BY <1>2, <1>4, <1>7, <4>1
    <3> QED BY <3>1, <3>2
  <2>4. ASSUME NEW v \in Q, NEW m \in msgs',
               m.type = "RVR", m.granted, m.from = v, m.term = u, m.to = i
        PROVE  FALSE
    <3>1. m \in msgs
      BY <1>1, <2>2, <2>4, OldMessage
    <3>2. u <= hard[i].term
      BY <1>1, <2>2, <2>4, <3>1, NoEarlyVote DEF Granted
    <3> QED BY <1>2, <1>4, <1>7, <3>2
  <2> QED BY <1>7, <2>2, <2>3, <2>4
<1>8. CASE u \notin DOMAIN L
  <2>1. role'[i] = "LEADER" /\ u = currentTerm'[i]
    <3>1. NotLed(L, i) /\ M = L => FALSE
      BY <1>8
    <3>2. LedOn(L, i, hard[i].term) /\ M = Recorded(L, hard[i].term, log'[i])
            => FALSE
      BY <1>8 DEF LedOn, Recorded
    <3>3. Wins(L, A, i, currentTerm'[i], votes'[i])
      BY <1>1, <3>1, <3>2, LogCases
    <3>4. role[i] # "LEADER"
      BY <3>3 DEF Wins
    <3> QED BY <1>1, <1>8, <3>4 DEF Inherits, NextLogs, Recorded
  <2>2. j # i
    BY <2>1 DEF Campaigns
  <2> DEFINE Q == votes'[i]
  <2>3. /\ Q \in Quorums /\ hard'[i] = [term |-> u, vote |-> i]
        /\ \A v \in Q :
              /\ hard'[v].term > u \/ hard'[v] = [term |-> u, vote |-> i]
              /\ v # i => \E m \in msgs :
                             /\ Granted(m) /\ m.from = v /\ m.to = i
                             /\ m.term = u
    BY <1>1, <2>1, NewVotes
  <2>4. ASSUME NEW v \in Q
        PROVE  /\ hard'[v].term >= u
               /\ hard'[v].term = u => hard'[v].vote \notin {j, NoId}
    <3>1. hard'[v].term > u \/ hard'[v] = [term |-> u, vote |-> i]
      BY <2>3
    <3>2. hard'[v].term \in Nat
      BY <1>2, <1>3, <2>3
    <3>3. i # NoId
      BY ServerAssumption
    <3> QED BY <1>4, <2>2, <3>1, <3>2, <3>3
  <2>5. ASSUME NEW v \in Q, NEW m \in msgs',
               m.type = "RVR", m.granted, m.from = v, m.term = u
        PROVE  m.to # j
    <3>1. CASE v = i
      <4>1. \/ hard'[i].term > u
            \/ hard'[i] = [term |-> u, vote |-> m.to]
        BY <1>1, <2>5, <3>1
           DEF LocalState, VoteInv, VoteBarrier, Sent
      <4> QED BY <1>4, <2>2, <2>3, <4>1
    <3>2. CASE v # i
      <4>1. PICK n \in msgs : Granted(n) /\ n.from = v /\ n.to = i /\ n.term = u
        BY <2>3, <3>2
      <4>2. n \in msgs' /\ OneVote'
        BY <1>1 DEF Move, LocalState, VoteInv
      <4> QED BY <2>2, <2>5, <4>1, <4>2 DEF OneVote, Granted
    <3> QED BY <3>1, <3>2
  <2> QED BY <2>3, <2>4, <2>5
<1> QED BY <1>5, <1>6, <1>7, <1>8

\* The vote of v stays sound, unless v acknowledges something of an earlier
\* term, which the term of the vote rules out.
LEMMA VoteSoundLater ==
    ASSUME NEW L, NEW A, NEW M, NEW B, NEW i \in Server, Hands(L, A, M, B, i),
           NEW v \in Server, NEW j \in Server, NEW u \in Nat,
           VoteSound(A, v, j, u), v # i \/ u <= hard'[v].term
    PROVE  VoteSound(B, v, j, u)'
<1>1. /\ LocalState /\ LocalState' /\ Move(i) /\ NodeSound(L, A, i)
      /\ Inherits(L, A, M, B, i) /\ Grows(L, A, hard, M, B, hard', i)
      /\ hard'[j].term >= hard[j].term
  BY HandsFacts
<1>2. /\ hard[j].term \in Nat /\ hard'[j].term \in Nat
      /\ hard[i].term \in Nat /\ hard'[i].term \in Nat
      /\ hard'[i].term \in Term
  BY <1>1, PastTyped, PastTypedNext
<1>3. u <= hard[j].term
  BY DEF VoteSound
<1>4. ASSUME Campaigns(j, u)', NEW t \in Term, NEW k \in Index,
             <<v, t, k>> \in B, t < u
      PROVE  \/ LogIsFresh(LastTermOf(log'[j]), Len(log'[j]), t, k)
             \/ Lost(hard', B, t, k)
  <2>1. Campaigns(j, u) /\ log'[j] = log[j]
    <3>1. /\ log'[j] = log[j]
          /\ Campaigns(j, u) \/ (j = i /\ u > hard[i].term)
      BY <1>1, <1>4, CampaignFrom DEF NodeSound
    <3> QED BY <1>2, <1>3, <3>1
  <2>2. <<v, t, k>> \in A
    <3>1. <<v, t, k>> \in A \/ (v = i /\ t = hard'[i].term)
      BY <1>1, <1>4 DEF Grows, News
    <3>2. ~(v = i /\ t = hard'[i].term)
      BY <1>2, <1>4
    <3> QED BY <3>1, <3>2
  <2>3. \/ LogIsFresh(LastTermOf(log[j]), Len(log[j]), t, k)
        \/ Lost(hard, A, t, k)
    BY <1>4, <2>1, <2>2 DEF VoteSound
  <2>4. Lost(hard, A, t, k) => Lost(hard', B, t, k)
    BY <1>1, LostLater
  <2> QED BY <2>1, <2>3, <2>4
<1>5. u <= hard'[j].term
  BY <1>1, <1>2, <1>3
<1> QED BY <1>4, <1>5 DEF VoteSound

\* Committed entries are there.
LEMMA CommittedLen ==
    ASSUME NEW L, NEW A, NEW l \in Seq(Entry), NEW u, NEW c \in Nat,
           Committed(L, A, l, u, c)
    PROVE  c <= Len(l)
BY LenNat DEF Committed, Same

\* A commit index of a leader's log is one of its longer log.
LEMMA LeaderCommitLater ==
    ASSUME NEW L, NEW A, NEW M, NEW B, NEW i \in Server, Hands(L, A, M, B, i),
           NEW u \in DOMAIN L, NEW c \in Nat, Committed(L, A, L[u], u, c)
    PROVE  Committed(M, B, M[u], u, c)
<1>1. /\ LeaderLogs(L) /\ LeaderLogs(M) /\ Extends(L, M)
      /\ Grows(L, A, hard, M, B, hard', i)
  BY HandsFacts
<1>2. u \in DOMAIN M /\ Same(L[u], M[u], Len(L[u]))
  BY <1>1 DEF Extends
<1>3. /\ u \in Nat /\ L[u] \in Seq(Entry) /\ Len(L[u]) \in Nat
      /\ M[u] \in Seq(Entry)
  BY <1>1, <1>2, LeaderLog
<1>4. c <= Len(L[u])
  BY <1>3, CommittedLen
<1>5. Same(M[u], L[u], c)
  BY <1>2, <1>3, <1>4, SameShorter, SameSym
<1>6. Committed(M, B, L[u], u, c)
  BY <1>1, <1>3, CommittedLater
<1> QED BY <1>1, <1>3, <1>5, <1>6, CommittedLess

\* A request cut out of a leader's log is one cut out of its longer log.
LEMMA FromLeaderLater ==
    ASSUME NEW L, NEW A, NEW M, NEW B, NEW i \in Server, Hands(L, A, M, B, i),
           NEW u, NEW prev \in Nat, NEW prevTerm, NEW es \in Seq(Entry),
           NEW c \in Nat, FromLeader(L, A, u, prev, prevTerm, es, c)
    PROVE  FromLeader(M, B, u, prev, prevTerm, es, c)
<1>1. LeaderLogs(L) /\ LeaderLogs(M) /\ Extends(L, M) /\ u \in DOMAIN L
  BY HandsFacts DEF FromLeader
<1>2. /\ u \in DOMAIN M /\ Len(L[u]) \in Nat /\ Len(M[u]) \in Nat
      /\ Len(L[u]) <= Len(M[u])
      /\ \A k \in 1..Len(L[u]) : M[u][k] = L[u][k]
      /\ Len(es) \in Nat
  BY <1>1, LeaderLog, LenNat DEF Extends, Same
<1>3. /\ prev + Len(es) <= Len(L[u])
      /\ \A k \in 1..Len(es) : es[k] = L[u][prev + k]
      /\ prev # 0 => L[u][prev].term = prevTerm
      /\ Committed(L, A, L[u], u, c)
  BY DEF FromLeader
<1>4. Committed(M, B, M[u], u, c)
  BY <1>1, <1>3, LeaderCommitLater
<1>5. ASSUME NEW k \in 1..Len(es)
      PROVE  prev + k \in 1..Len(L[u])
  <2> DEFINE x == Len(L[u])
             y == Len(es)
  <2>1. x \in Nat /\ y \in Nat /\ prev + y <= x /\ k \in 1..y
    BY <1>2, <1>3, <1>5
  <2> HIDE DEF x, y
  <2>2. prev + k \in 1..x
    BY ONLY <2>1, prev \in Nat
  <2> QED BY <2>2 DEF x
<1>6. prev # 0 => prev \in 1..Len(L[u])
  BY <1>2, <1>3
<1>7. prev + Len(es) <= Len(M[u])
  BY <1>2, <1>3
<1> QED BY <1>2, <1>3, <1>4, <1>5, <1>6, <1>7 DEF FromLeader

\* Acknowledgements stay.
LEMMA AckedLater ==
    ASSUME NEW L, NEW A, NEW M, NEW B, NEW i \in Server, Hands(L, A, M, B, i),
           NEW j, NEW u, NEW n \in Nat, AckedUpTo(L, A, j, u, n)
    PROVE  AckedUpTo(M, B, j, u, n)
<1>1. /\ LeaderLogs(L) /\ LeaderLogs(M) /\ Extends(L, M) /\ u \in DOMAIN L
      /\ A \subseteq B
  BY HandsFacts DEF AckedUpTo
<1>2. /\ u \in DOMAIN M /\ Len(L[u]) \in Nat /\ Len(M[u]) \in Nat
      /\ Len(L[u]) <= Len(M[u]) /\ n <= Len(L[u])
      /\ \A k \in 1..Len(L[u]) : M[u][k] = L[u][k]
  BY <1>1, LeaderLog DEF Extends, Same, AckedUpTo
<1> QED BY <1>1, <1>2 DEF AckedUpTo

\* What j holds of the log of its leader it keeps while it stays in the term.
LEMMA LogKept ==
    ASSUME NEW L, NEW A, NEW M, NEW B, NEW i \in Server, Hands(L, A, M, B, i),
           NEW j \in Server, NEW n \in Nat,
           hard'[j].term = hard[j].term, hard[j].term \in DOMAIN L,
           Same(log[j], L[hard[j].term], n)
    PROVE  /\ hard[j].term \in DOMAIN M
           /\ Same(log'[j], M[hard[j].term], n)
<1> DEFINE u == hard[j].term
<1>1. /\ LocalState /\ LocalState' /\ LeaderLogs(L) /\ LeaderLogs(M)
      /\ Extends(L, M) /\ Move(i) /\ NodeSound(L, A, i)
  BY HandsFacts
<1>2. /\ log[j] \in Seq(Entry) /\ log'[j] \in Seq(Entry)
      /\ Len(log[j]) \in Nat /\ Len(log'[j]) \in Nat
      /\ hard[j].term = currentTerm[j] /\ action[j] \in Action
  BY <1>1, PastTyped, PastTypedNext
<1>3. ASSUME Same(log'[j], log[j], n)
      PROVE  u \in DOMAIN M /\ Same(log'[j], M[u], n)
  <2>1. Same(log'[j], L[u], n)
    BY <1>3, SameTrans
  <2> QED BY <1>1, <2>1, SameLater
<1>4. n <= Len(log[j]) /\ n <= Len(L[u])
  BY DEF Same
<1>5. CASE j # i
  <2>1. log'[j] = log[j]
    BY <1>1, <1>5 DEF Move, Others
  <2> QED BY <1>1, <2>1, SameLater
<1>6. CASE log'[j] = log[j]
  BY <1>1, <1>6, SameLater
<1>7. CASE \E es : Appended(log[j], log'[j], es)
  <2>1. Same(log'[j], log[j], n)
    BY <1>2, <1>4, <1>7 DEF Appended, Same
  <2> QED BY <1>3, <2>1
<1>8. CASE /\ j = i /\ action[i].type = "LOG_TRUNCATE"
           /\ Cut(log[i], log'[i], action[i].first)
  <2> DEFINE f == action[i].first
  <2>1. log[i][f].term # L[u][f].term
    BY <1>1, <1>2, <1>8 DEF NodeSound, ActionSound
  <2>2. f \in Nat \ {0}
    <3>1. f \in Index /\ commitIndex[i] \in Index /\ f > commitIndex[i]
      BY <1>1, <1>2, <1>8, ActionFields
         DEF LocalState, NodesInv, LocalInv, ActionFits, TypeOK
    <3> QED BY <3>1, Limits DEF Index
  <2>3. n < f
    <3>1. f \notin 1..n
      BY <1>8, <2>1 DEF Same
    <3> QED BY <2>2, <3>1
  <2>4. f - 1 <= Len(log'[j])
    BY <1>8 DEF Cut
  <2>5. n <= Len(log'[j])
    BY <1>2, <2>2, <2>3, <2>4
  <2>6. Same(log'[j], log[j], n)
    BY <1>2, <1>4, <1>8, <2>5 DEF Cut, Same
  <2> QED BY <1>3, <2>6
<1> QED BY <1>1, <1>5, <1>6, <1>7, <1>8 DEF Move, Effected

\* A message stays sound.
LEMMA MessageLater ==
    ASSUME NEW L, NEW A, NEW M, NEW B, NEW i \in Server, Hands(L, A, M, B, i),
           NEW m \in Message, MessageSound(L, A, m),
           Granted(m) => m.term <= hard'[m.from].term
    PROVE  MessageSound(M, B, m)'
<1>1. /\ m.from \in Server /\ m.to \in Server /\ m.term \in Nat
      /\ m.type = "AE" => /\ m.prev \in Nat /\ m.commit \in Nat
                          /\ m.entries \in Seq(Entry)
      /\ m.type = "AER" => m.match \in Nat
  BY MessageFields, Limits DEF Term, Index
<1>2. /\ LocalState /\ LocalState' /\ Move(i) /\ NodeSound(L, A, i)
      /\ \A j \in Server : /\ hard'[j].term >= hard[j].term
                           /\ hard[j].term \in Nat /\ hard'[j].term \in Nat
  BY HandsFacts, PastTyped, PastTypedNext
<1>3. ASSUME m.term <= hard[m.from].term
      PROVE  m.term <= hard'[m.from].term
  BY <1>1, <1>2, <1>3
<1>4. ASSUME m.type = "RV"
      PROVE  /\ m.term <= hard'[m.from].term
             /\ Campaigns(m.from, m.term)' =>
                  /\ m.lastIndex = Len(log'[m.from])
                  /\ m.lastTerm = LastTermOf(log'[m.from])
  <2>1. /\ m.term <= hard[m.from].term
        /\ Campaigns(m.from, m.term) =>
             /\ m.lastIndex = Len(log[m.from])
             /\ m.lastTerm = LastTermOf(log[m.from])
    BY <1>4 DEF MessageSound
  <2>2. ASSUME Campaigns(m.from, m.term)'
        PROVE  Campaigns(m.from, m.term) /\ log'[m.from] = log[m.from]
    <3>1. /\ log'[m.from] = log[m.from]
          /\ \/ Campaigns(m.from, m.term)
             \/ m.from = i /\ m.term > hard[i].term
      BY <1>1, <1>2, <2>2, CampaignFrom DEF NodeSound
    <3>2. m.term <= hard[m.from].term
      BY <2>1
    <3>3. ~(m.from = i /\ m.term > hard[i].term)
      BY <1>1, <1>2, <3>2
    <3> QED BY <3>1, <3>3
  <2> QED BY <1>3, <2>1, <2>2
<1>5. ASSUME m.type = "RVR", m.granted, m.from # m.to
      PROVE  m.term <= hard'[m.from].term /\ VoteSound(B, m.from, m.to, m.term)'
  <2>1. VoteSound(A, m.from, m.to, m.term)
    BY <1>5 DEF MessageSound
  <2>2. m.term <= hard'[m.from].term
    BY <1>5 DEF Granted
  <2> QED BY <1>1, <2>1, <2>2, VoteSoundLater
<1>6. ASSUME m.type = "AE"
      PROVE  FromLeader(M, B, m.term, m.prev, m.prevTerm, m.entries, m.commit)
  <2>1. FromLeader(L, A, m.term, m.prev, m.prevTerm, m.entries, m.commit)
    BY <1>6 DEF MessageSound
  <2> QED BY <1>1, <1>6, <2>1, FromLeaderLater
<1>7. ASSUME m.type = "AER", m.success
      PROVE  /\ m.term <= hard'[m.from].term
             /\ AckedUpTo(M, B, m.from, m.term, m.match)
             /\ m.term = hard'[m.from].term =>
                  Same(log'[m.from], M[m.term], m.match)
  <2>1. /\ m.term <= hard[m.from].term
        /\ AckedUpTo(L, A, m.from, m.term, m.match)
        /\ m.term = hard[m.from].term =>
             Same(log[m.from], L[m.term], m.match)
    BY <1>7 DEF MessageSound
  <2>2. ASSUME m.term = hard'[m.from].term
        PROVE  Same(log'[m.from], M[m.term], m.match)
    <3>1. hard[m.from].term = m.term
      BY <1>1, <1>2, <2>1, <2>2
    <3>2. m.term \in DOMAIN L
      BY <2>1 DEF AckedUpTo
    <3> QED BY <1>1, <1>7, <2>1, <2>2, <3>1, <3>2, LogKept
  <2>3. AckedUpTo(M, B, m.from, m.term, m.match)
    BY <1>1, <1>7, <2>1, AckedLater
  <2> QED BY <1>3, <2>1, <2>2, <2>3
<1> QED BY <1>4, <1>5, <1>6, <1>7 DEF MessageSound

\* All messages of the network are sound.
LEMMA MessagesNext ==
    ASSUME NEW L, NEW A, NEW M, NEW B, NEW i \in Server, Hands(L, A, M, B, i),
           NEW m \in msgs'
    PROVE  MessageSound(M, B, m)'
<1>1. /\ LocalState /\ LocalState' /\ Move(i) /\ NodeSound(L, A, i)
      /\ \A n \in msgs : MessageSound(L, A, n)
  BY HandsFacts
<1>2. m \in Message
  BY <1>1 DEF LocalState, NodesInv, TypeOK
<1>3. m.from \in Server /\ m.term \in Nat /\ hard'[m.from].term \in Nat
  BY <1>1, <1>2, MessageFields, PastTypedNext, Limits DEF Term
<1>4. MessageSound(L, A, m)
  BY <1>1 DEF Move, NodeSound, ActionSound
<1>5. Granted(m) => m.term <= hard'[m.from].term
  <2>1. Granted(m) => \/ hard'[m.from].term > m.term
                      \/ hard'[m.from] = [term |-> m.term, vote |-> m.to]
    BY <1>1 DEF LocalState, VoteInv, VoteBarrier, Sent, Granted
  <2> QED BY <1>3, <2>1
<1> QED BY <1>2, <1>4, <1>5, MessageLater

\* Of two leaders' logs only that of i changes.
LEMMA OtherLeads ==
    ASSUME NEW L, NEW A, NEW M, NEW B, NEW i \in Server, Hands(L, A, M, B, i),
           NEW j \in Server, j # i
    PROVE  Leads(M, B, j)'
<1>1. /\ LocalState /\ LocalState' /\ Sound(L, A) /\ Move(i)
      /\ Inherits(L, A, M, B, i) /\ Leads(L, A, j) /\ TypeOK /\ VoteInv
  BY HandsFacts DEF NodeSound, LocalState, NodesInv
<1>2. /\ role'[j] = role[j] /\ currentTerm'[j] = currentTerm[j]
      /\ log'[j] = log[j] /\ matchIndex'[j] = matchIndex[j]
  BY <1>1 DEF Move, Others
<1> DEFINE u == currentTerm[j]
<1> SUFFICES ASSUME role[j] = "LEADER"
             PROVE  /\ u \in DOMAIN M
                    /\ M[u] = log[j]
                    /\ \A h \in Server \ {j} :
                          AckedUpTo(M, B, h, u, matchIndex[j][h])
  BY <1>2 DEF Leads
<1>3. /\ u \in DOMAIN L /\ L[u] = log[j]
      /\ \A h \in Server \ {j} : AckedUpTo(L, A, h, u, matchIndex[j][h])
  BY <1>1 DEF Leads
<1>4. u \in DOMAIN M /\ M[u] = log[j]
  <2>1. CASE M = L
    BY <1>3, <2>1
  <2>2. CASE LedOn(L, i, hard[i].term) /\ M = Recorded(L, hard[i].term, log'[i])
    <3>1. hard[i].term # u
      <4>1. role[i] = "LEADER" /\ hard[i].term = currentTerm[i]
        BY <1>1, <2>2, PastTyped DEF LedOn
      <4> QED BY <1>1, <4>1, OneLeader
    <3> QED BY <1>3, <2>2, <3>1 DEF Recorded
  <2>3. CASE /\ Wins(L, A, i, currentTerm'[i], votes'[i])
             /\ M = Recorded(L, currentTerm'[i], log'[i])
    <3>1. currentTerm'[i] # u
      BY <1>3, <2>3 DEF Wins
    <3> QED BY <1>3, <2>3, <3>1 DEF Recorded
  <2> QED BY <1>1, <2>1, <2>2, <2>3, LogCases
<1>5. ASSUME NEW h \in Server \ {j}
      PROVE  AckedUpTo(M, B, h, u, matchIndex[j][h])
  <2>1. matchIndex[j][h] \in Nat
    BY <1>1, Limits DEF TypeOK, Index
  <2> QED BY <1>3, <2>1, AckedLater
<1> QED BY <1>4, <1>5

\* The outstanding actions of the other nodes stay sound.
LEMMA OtherActions ==
    ASSUME NEW L, NEW A, NEW M, NEW B, NEW i \in Server, Hands(L, A, M, B, i),
           NEW j \in Server, j # i
    PROVE  ActionSound(M, B, j)'
<1>1. /\ LocalState /\ LocalState' /\ Move(i) /\ ActionSound(L, A, j)
      /\ LeaderLogs(L) /\ LeaderLogs(M) /\ Extends(L, M)
      /\ TypeOK /\ LocalInv(j) /\ VoteInv
  BY HandsFacts DEF NodeSound, LocalState, NodesInv
<1>2. /\ role'[j] = role[j] /\ currentTerm'[j] = currentTerm[j]
      /\ log'[j] = log[j] /\ action'[j] = action[j] /\ hard'[j] = hard[j]
  BY <1>1 DEF Move, Others
<1> DEFINE a == action[j]
           u == currentTerm[j]
<1>3. /\ a \in Action /\ log[j] \in Seq(Entry) /\ Len(log[j]) \in Nat
      /\ hard[j].term \in Nat
  BY <1>1, PastTyped
<1>4. ASSUME u \in DOMAIN L
      PROVE  /\ u \in DOMAIN M /\ Len(L[u]) \in Nat /\ Len(M[u]) \in Nat
             /\ Len(L[u]) <= Len(M[u])
             /\ \A k \in 1..Len(L[u]) : M[u][k] = L[u][k]
  BY <1>1, <1>4, LeaderLog DEF Extends, Same
<1>5. ASSUME a.type = "SEND"
      PROVE  MessageSound(M, B, a.msg)'
  <2>1. PICK m : m = a.msg
    OBVIOUS
  <2>2. m \in Message /\ MessageSound(L, A, m)
    BY <1>1, <1>3, <1>5, <2>1, ActionFields DEF ActionSound
  <2>3. Granted(m) => m.term <= hard'[m.from].term
    <3>1. /\ m.from = j
          /\ Granted(m) => hard[j] = [term |-> m.term, vote |-> m.to]
      BY <1>1, <1>5, <2>1 DEF VoteInv, NodeInv, Backed, Stamped
    <3> QED BY <1>2, <1>3, <3>1
  <2>4. MessageSound(M, B, m)'
    BY <2>2, <2>3, MessageLater
  <2> QED BY <1>2, <2>1, <2>4
<1>6. ASSUME a.type = "LOG_APPEND"
      PROVE  \/ /\ role[j] = "LEADER"
                /\ \A k \in 1..Len(a.entries) : a.entries[k].term = u
             \/ /\ role[j] = "FOLLOWER"
                /\ u \in DOMAIN M
                /\ Same(log[j], M[u], Len(log[j]))
                /\ Len(log[j]) + Len(a.entries) <= Len(M[u])
                /\ \A k \in 1..Len(a.entries) :
                      a.entries[k] = M[u][Len(log[j]) + k]
  <2>1. CASE role[j] = "LEADER"
    BY <1>1, <1>6, <2>1 DEF ActionSound
  <2>2. CASE role[j] # "LEADER"
    <3> DEFINE x == Len(log[j])
               y == Len(a.entries)
               z == Len(L[u])
    <3>1. /\ role[j] = "FOLLOWER" /\ u \in DOMAIN L
          /\ Same(log[j], L[u], x) /\ x + y <= z
          /\ \A k \in 1..y : a.entries[k] = L[u][x + k]
      BY <1>1, <1>6, <2>2 DEF ActionSound
    <3>2. x \in Nat /\ y \in Nat /\ z \in Nat
      BY <1>3, <1>4, <1>6, <3>1, ActionFields, LenNat
    <3>3. u \in DOMAIN M /\ Same(log[j], M[u], x)
      BY <1>1, <3>1, <3>2, SameLater
    <3>4. \A k \in 1..y : x + k \in 1..z
      <4> HIDE DEF x, y, z
      <4> QED BY <3>1, <3>2
    <3>5. x + y <= Len(M[u])
      <4> DEFINE w == Len(M[u])
      <4>1. z <= w /\ w \in Nat
        BY <1>4, <3>1
      <4> HIDE DEF w, x, y, z
      <4>2. x + y <= w
        BY <3>1, <3>2, <4>1
      <4> QED BY <4>2 DEF w
    <3> QED BY <1>4, <3>1, <3>3, <3>4, <3>5
  <2> QED BY <2>1, <2>2
<1>7. ASSUME a.type = "LOG_TRUNCATE"
      PROVE  /\ role[j] = "FOLLOWER"
             /\ u \in DOMAIN M
             /\ a.first <= Len(M[u])
             /\ Same(log[j], M[u], a.first - 1)
             /\ log[j][a.first].term # M[u][a.first].term
  <2>1. /\ role[j] = "FOLLOWER" /\ u \in DOMAIN L
        /\ a.first <= Len(L[u]) /\ Same(log[j], L[u], a.first - 1)
        /\ log[j][a.first].term # L[u][a.first].term
    BY <1>1, <1>7 DEF ActionSound
  <2>2. a.first \in Nat \ {0}
    <3>1. a.first \in Index /\ commitIndex[j] \in Index
          /\ a.first > commitIndex[j]
      BY <1>1, <1>3, <1>7, ActionFields DEF LocalInv, ActionFits, TypeOK
    <3> QED BY <3>1, Limits DEF Index
  <2>3. u \in DOMAIN M /\ Same(log[j], M[u], a.first - 1)
    BY <1>1, <2>1, <2>2, SameLater
  <2>4. a.first \in 1..Len(L[u]) /\ a.first <= Len(M[u])
    BY <1>4, <2>1, <2>2
  <2> QED BY <1>4, <2>1, <2>3, <2>4
<1>8. a.type = "APPLY" =>
        Holds(log[j], a.entry.term, a.index) /\ log[j][a.index] = a.entry
  BY <1>1 DEF ActionSound
<1> QED BY <1>2, <1>5, <1>6, <1>7, <1>8 DEF ActionSound

\* Everything about a node that does not move stays sound.
LEMMA OtherNext ==
    ASSUME NEW L, NEW A, NEW M, NEW B, NEW i \in Server, Hands(L, A, M, B, i),
           NEW j \in Server, j # i
    PROVE  NodeSound(M, B, j)'
<1>1. /\ LocalState /\ LocalState' /\ Move(i) /\ NodeSound(L, A, j)
      /\ LeaderLogs(L) /\ LeaderLogs(M) /\ Extends(L, M)
      /\ Grows(L, A, hard, M, B, hard', i) /\ TypeOK /\ VoteInv
  BY HandsFacts DEF LocalState, NodesInv
<1>2. /\ role'[j] = role[j] /\ currentTerm'[j] = currentTerm[j]
      /\ log'[j] = log[j] /\ app'[j] = app[j] /\ hard'[j] = hard[j]
      /\ commitIndex'[j] = commitIndex[j]
      /\ appliedIndex'[j] = appliedIndex[j]
      /\ afterApply'[j] = afterApply[j]
      /\ action'[j] = action[j] /\ step'[j] = step[j]
      /\ faulted'[j] = faulted[j] /\ ae'[j] = ae[j] /\ pending'[j] = pending[j]
  BY <1>1 DEF Move, Others
<1>3. /\ hard[j].term \in Nat /\ action[j] \in Action
      /\ commitIndex[j] \in Nat /\ ae[j] \in Stash /\ pending[j] \in Seq(Entry)
      /\ ae[j].prev \in Nat /\ ae[j].commit \in Nat /\ ae[j].match \in Nat
  <2>1. /\ commitIndex[j] \in Index /\ ae[j] \in Stash
        /\ pending[j] \in Seq(Entry)
    BY <1>1 DEF TypeOK
  <2> QED BY <1>1, <2>1, PastTyped, Limits DEF Stash, Index
<1>4. VotesSound(B, j)'
  <2>1. ASSUME NEW v \in Server \ {j}, hard[j].vote = v
        PROVE  VoteSound(B, j, v, hard[j].term)'
    <3>1. VoteSound(A, j, v, hard[j].term)
      BY <1>1, <2>1 DEF NodeSound, VotesSound
    <3>2. PICK u \in Nat : u = hard[j].term
      BY <1>3
    <3>3. VoteSound(B, j, v, u)'
      BY <3>1, <3>2, VoteSoundLater
    <3> QED BY <1>2, <3>2, <3>3
  <2>2. ASSUME NEW v \in Server \ {j}, action[j].type = "HARD_STATE",
               action[j].vote = v
        PROVE  VoteSound(B, j, v, action[j].term)'
    <3>1. VoteSound(A, j, v, action[j].term)
      BY <1>1, <2>2 DEF NodeSound, VotesSound
    <3>2. PICK u \in Nat : u = action[j].term
      BY <1>3, <2>2, ActionFields, Limits DEF Term
    <3>3. VoteSound(B, j, v, u)'
      BY <3>1, <3>2, VoteSoundLater
    <3> QED BY <1>2, <3>2, <3>3
  <2>3. action[j].type = "HARD_STATE" /\ role[j] = "CANDIDATE" =>
          action[j].term > hard[j].term
    BY <1>1 DEF NodeSound, VotesSound
  <2> QED BY <1>2, <2>1, <2>2, <2>3 DEF VotesSound
<1>5. ASSUME ~faulted[j]
      PROVE  StepSound(M, B, j)'
  <2>1. StepSound(L, A, j)
    BY <1>1, <1>5 DEF NodeSound
  <2>2. StashTerm(j)' = StashTerm(j)
    BY <1>2 DEF StashTerm
  <2>3. ASSUME FromLeader(L, A, StashTerm(j), ae[j].prev, ae[j].prevTerm,
                          pending[j], ae[j].commit)
        PROVE  FromLeader(M, B, StashTerm(j), ae[j].prev, ae[j].prevTerm,
                          pending[j], ae[j].commit)
    BY <1>3, <2>3, FromLeaderLater
  <2>4. ASSUME currentTerm[j] \in DOMAIN L,
               Same(log[j], L[currentTerm[j]], ae[j].match)
        PROVE  /\ currentTerm[j] \in DOMAIN M
               /\ Same(log[j], M[currentTerm[j]], ae[j].match)
    BY <1>1, <1>3, <2>4, SameLater
  <2> QED BY <1>2, <2>1, <2>2, <2>3, <2>4 DEF StepSound
<1>6. ProgressSound(M, B, j)'
  <2>1. /\ Committed(L, A, log[j], hard[j].term, commitIndex[j])
        /\ appliedIndex[j] <= Len(app[j])
    BY <1>1 DEF NodeSound, ProgressSound
  <2>2. Committed(M, B, log[j], hard[j].term, commitIndex[j])
    BY <1>1, <1>3, <2>1, CommittedLater
  <2> QED BY <1>2, <2>1, <2>2 DEF ProgressSound
<1> QED BY <1>2, <1>4, <1>5, <1>6, CampaignLostNext, OtherLeads, OtherActions
        DEF NodeSound

---------------------------------------------------------------------------
(* The node that moves.                                                    *)

\* A leader's log is the recorded one.
LEMMA MoverLeads ==
    ASSUME NEW L, NEW A, NEW M, NEW B, NEW i \in Server, Hands(L, A, M, B, i),
           role'[i] = "LEADER"
    PROVE  currentTerm'[i] \in DOMAIN M /\ M[currentTerm'[i]] = log'[i]
<1>1. /\ LocalState /\ LocalState' /\ Sound(L, A) /\ Move(i)
      /\ Inherits(L, A, M, B, i)
  BY HandsFacts
<1>2. CASE NotLed(L, i) /\ M = L
  BY <1>2 DEF NotLed
<1>3. CASE LedOn(L, i, hard[i].term) /\ M = Recorded(L, hard[i].term, log'[i])
  <2>1. hard[i].term = currentTerm'[i]
    BY <1>1, <1>3, PastTypedNext DEF LedOn
  <2> QED BY <1>3, <2>1 DEF Recorded
<1>4. CASE /\ Wins(L, A, i, currentTerm'[i], votes'[i])
           /\ M = Recorded(L, currentTerm'[i], log'[i])
  BY <1>4 DEF Recorded
<1> QED BY <1>1, <1>2, <1>3, <1>4, LogCases

\* The durable vote of i is sound.
LEMMA MoverVote ==
    ASSUME NEW L, NEW A, NEW M, NEW B, NEW i \in Server, Hands(L, A, M, B, i),
           hard'[i].vote \in Server \ {i}
    PROVE  VoteSound(B, i, hard[i].vote, hard[i].term)'
<1>1. /\ LocalState /\ LocalState' /\ Move(i) /\ VotesSound(A, i)
  BY HandsFacts DEF NodeSound
<1>2. PICK v, u : v = hard'[i].vote /\ u = hard'[i].term
  OBVIOUS
<1>3. v \in Server \ {i} /\ u \in Nat /\ u <= hard'[i].term
  BY <1>1, <1>2, PastTypedNext
<1>4. VoteSound(A, i, v, u)
  BY <1>1, <1>2, <1>3 DEF Move, Effected, VotesSound
<1>5. VoteSound(B, i, v, u)'
  BY <1>3, <1>4, VoteSoundLater
<1> QED BY <1>2, <1>5
=============================================================================
