-------------------------- MODULE Raft89NodeProof --------------------------
(***************************************************************************)
(* Elections of libraft89 are safe for every membership, every bound and   *)
(* every fault: VoteStable, VoteBarrier and ElectionSafety.  The inductive *)
(* invariant VoteInv says, node by node, what the outstanding action, the  *)
(* continuation and the votes counted so far have to do with the durable   *)
(* hard state.  It mentions neither log nor replication: of those handlers *)
(* only one fact is needed, that they are calm, i.e. neither grant a vote  *)
(* nor start or continue an election.                                      *)
(*                                                                         *)
(* Then what one node guarantees by itself, whatever the others send it and *)
(* wherever it crashes: TypeOK, IndexOrder and CacheCoherent, for every    *)
(* membership, limit, boot state and fault except a failing malloc.  The   *)
(* inductive invariant LocalInv relates the outstanding action and the     *)
(* continuation of a node to its log, its cached end of the log and the    *)
(* stashed request.  A handler is described by how each group of variables *)
(* moves (the *Moves predicates) and by how it ends (the Ends* lemmas):    *)
(* faulted, idle, or with one of the five actions.                         *)
(***************************************************************************)
EXTENDS Raft89Safety, FiniteSetTheorems, SequenceTheorems, TLAPS

---------------------------------------------------------------------------
(* Elections.                                                            *)

\* A response that grants the vote.
Granted(m) == m.type = "RVR" /\ m.granted

\* The variables the invariant is about are functions on the members.
Shape ==
    /\ hard \in [Server -> [term : Term, vote : Id]]
    /\ currentTerm \in [Server -> Term]
    /\ votedFor \in [Server -> Id]
    /\ role \in [Server -> Role]
    /\ votes \in [Server -> SUBSET Server]
    /\ action = [i \in Server |-> action[i]]
    /\ step = [i \in Server |-> step[i]]
    /\ pendingMsg = [i \in Server |-> pendingMsg[i]]

\* A message of i has a term and i as its sender; a vote goes to a member.
Stamped(i, m) ==
    /\ m.from = i
    /\ m.term \in Term
    /\ Granted(m) => m.to \in Server

\* What i believes of its hard state is what is durable.
Coherent(i) == hard[i].term = currentTerm[i] /\ hard[i].vote = votedFor[i]

\* An outstanding HARD_STATE action moves to a later term, or casts the vote
\* of this one; it belongs to a follower or starts an election.
Forward(i) ==
    action[i].type = "HARD_STATE" =>
        /\ action[i].term \in Term
        /\ action[i].vote \in Id
        /\ \/ action[i].term > hard[i].term
           \/ action[i].term = hard[i].term /\ hard[i].vote = NoId
        /\ \/ role[i] = "FOLLOWER"
           \/ /\ role[i] = "CANDIDATE"
              /\ step[i] = "ELECTION_BROADCAST"
              /\ action[i].vote = i
              /\ votes[i] = {i}

\* A granted vote on its way out is the durable vote.
Backed(i) ==
    action[i].type = "SEND" =>
        /\ Stamped(i, action[i].msg)
        /\ Granted(action[i].msg) =>
             hard[i] = [term |-> action[i].msg.term, vote |-> action[i].msg.to]

\* A reply that waits for its vote is sent only by the acknowledgement of
\* exactly that vote.
Waiting(i) ==
    step[i] = "VOTE_RESPONSE" =>
        /\ action[i].type = "HARD_STATE"
        /\ Stamped(i, pendingMsg[i])
        /\ Granted(pendingMsg[i]) =>
             /\ action[i].term = pendingMsg[i].term
             /\ action[i].vote = pendingMsg[i].to

\* An election is only continued by the candidate that started it.
Electing(i) ==
    step[i] = "ELECTION_BROADCAST" =>
        role[i] = "CANDIDATE" /\ action[i].type \in {"HARD_STATE", "SEND"}

\* Whoever campaigns or leads in its durable term has its own vote, and for
\* every other vote it counts a response that was sent.
Supported(i) ==
    role[i] # "FOLLOWER" /\ action[i].type # "HARD_STATE" =>
        /\ hard[i].vote = i
        /\ i \in votes[i]
        /\ \A j \in votes[i] \ {i} :
              \E m \in msgs : /\ Granted(m)
                              /\ m.from = j
                              /\ m.to = i
                              /\ m.term = currentTerm[i]

\* A leader has the votes of a quorum.
Elected(i) == role[i] = "LEADER" => IsQuorum(Cardinality(votes[i]))

\* What holds of one node between its steps.
NodeInv(i) ==
    /\ Coherent(i)
    /\ Forward(i)
    /\ Backed(i)
    /\ Waiting(i)
    /\ Electing(i)
    /\ Supported(i)
    /\ Elected(i)

\* A member grants at most one vote per term, ever.
OneVote ==
    \A m, n \in msgs :
        Granted(m) /\ Granted(n) /\ m.from = n.from /\ m.term = n.term
        => m.to = n.to

\* Every message in flight was sent as the sender's records allow.
AllStamped == \A m \in msgs : m.from \in Server /\ Stamped(m.from, m)

\* The inductive invariant of voting.
VoteInv ==
    /\ Shape
    /\ \A i \in Server : NodeInv(i)
    /\ AllStamped
    /\ VoteBarrier
    /\ OneVote

---------------------------------------------------------------------------
(* Calm handlers.                                                          *)

\* An action that neither casts a vote nor grants one.
Innocent(i, a) ==
    /\ a.type # "HARD_STATE"
    /\ a.type = "SEND" => Stamped(i, a.msg) /\ ~Granted(a.msg)

\* A step that neither answers a vote nor starts an election.
CalmStep(s) == s \notin {"VOTE_RESPONSE", "ELECTION_BROADCAST"}

\* The control part of i changes to an innocent action.
Calm(i) ==
    /\ action' = Set(action, i, action'[i])
    /\ step' = Set(step, i, step'[i])
    /\ Innocent(i, action'[i])
    /\ CalmStep(step'[i])

\* Actions and steps are functions on the servers.
Framed == /\ action = [j \in Server |-> action[j]]
          /\ step = [j \in Server |-> step[j]]

\* Emitting an innocent action is calm (raft89__action_begin).
LEMMA EmitCalm ==
    ASSUME Framed, NEW i \in Server, NEW a, NEW s, CalmStep(s),
           Innocent(i, a), Emit(i, a, s)
    PROVE  Calm(i)
BY DEF Framed, Emit, Set, Calm

\* Returning idle is calm.
LEMMA ReturnCalm ==
    ASSUME Framed, NEW i \in Server, NEW s, CalmStep(s), Return(i, s)
    PROVE  Calm(i)
BY EmitCalm DEF Return, NoAction, Innocent

\* Latching a fault is calm.
LEMMA FaultCalm ==
    ASSUME Framed, NEW i \in Server, NEW s, CalmStep(s), Fault(i, s)
    PROVE  Calm(i)
BY DEF Framed, Fault, Set, Calm, NoAction, Innocent

\* Emitting the next apply is calm (emit_next_apply).
LEMMA EmitNextApplyCalm ==
    ASSUME Framed, NEW i \in Server, NEW k, NEW s, CalmStep(s),
           EmitNextApply(i, k, s)
    PROVE  Calm(i)
<1>1. CASE Emit(i, Apply(k, log'[i][k]), "APPLY")
  <2>1. Innocent(i, Apply(k, log'[i][k])) /\ CalmStep("APPLY")
    BY DEF Apply, Innocent, CalmStep
  <2> QED BY <1>1, <2>1, EmitCalm
<1>2. CASE Return(i, s)
  BY <1>2, ReturnCalm
<1>3. CASE Fault(i, s)
  BY <1>3, FaultCalm
<1> QED BY <1>1, <1>2, <1>3 DEF EmitNextApply

\* Sending AppendEntries is calm (raft89__leader_send_to).
LEMMA LeaderSendToCalm ==
    ASSUME Framed, NEW i \in Server, NEW j, NEW s, CalmStep(s),
           currentTerm'[i] \in Term, LeaderSendTo(i, j, s)
    PROVE  Calm(i)
<1>1. ASSUME NEW p, NEW t, NEW c, NEW es,
             Emit(i, Send(AppendEntries(i, j, currentTerm'[i], p, t, c, es)), s)
      PROVE  Calm(i)
  <2>1. Innocent(i, Send(AppendEntries(i, j, currentTerm'[i], p, t, c, es)))
    BY DEF Innocent, Send, AppendEntries, Stamped, Granted
  <2> QED BY <1>1, <2>1, EmitCalm
<1>2. CASE Return(i, s)
  BY <1>2, ReturnCalm
<1>3. CASE Fault(i, s)
  BY <1>3, FaultCalm
<1> QED BY <1>1, <1>2, <1>3 DEF LeaderSendTo

\* Advancing the leader's commit index is calm (raft89__leader_maybe_commit).
LEMMA LeaderMaybeCommitCalm ==
    ASSUME Framed, NEW i \in Server, NEW s, CalmStep(s),
           LeaderMaybeCommit(i, s)
    PROVE  Calm(i)
BY ReturnCalm, FaultCalm, EmitNextApplyCalm
   DEF LeaderMaybeCommit, AdvanceCommit

\* A step of a heartbeat or replication broadcast is calm
\* (raft89__leader_broadcast_next).
LEMMA LeaderBroadcastNextCalm ==
    ASSUME Framed, NEW i \in Server, NEW c, currentTerm'[i] \in Term,
           LeaderBroadcastNext(i, c)
    PROVE  Calm(i)
<1>1. CalmStep("LEADER_BROADCAST") /\ CalmStep("NONE")
  BY DEF CalmStep
<1> QED BY <1>1, LeaderSendToCalm, LeaderMaybeCommitCalm DEF LeaderBroadcastNext

\* Answering AppendEntries is calm (raft89__ae_send_reply).
LEMMA AeSendReplyCalm ==
    ASSUME Framed, NEW i \in Server, currentTerm'[i] \in Term, AeSendReply(i)
    PROVE  Calm(i)
<1>1. \A l, o, h, t, k :
         Innocent(i, Send(AppendResponse(i, l, currentTerm'[i], o, h, t, k)))
  BY DEF Innocent, Send, AppendResponse, Stamped, Granted
<1>2. CalmStep("NONE")
  BY DEF CalmStep
<1> QED BY <1>1, <1>2, EmitCalm DEF AeSendReply

\* The end of AppendEntries processing is calm (ae_finish).
LEMMA AeFinishCalm ==
    ASSUME Framed, NEW i \in Server, NEW s, CalmStep(s),
           currentTerm'[i] \in Term, AeFinish(i, s)
    PROVE  Calm(i)
BY AeSendReplyCalm, EmitNextApplyCalm DEF AeFinish, AdvanceCommit

\* Storing an entry, cutting the log and appending to it are calm.
LEMMA LogActionsCalm ==
    ASSUME Framed, NEW i \in Server, NEW first, NEW es, NEW s, CalmStep(s),
           \/ Emit(i, LogAppend(first, es), s)
           \/ Emit(i, LogTruncate(first), s)
    PROVE  Calm(i)
<1>1. Innocent(i, LogAppend(first, es)) /\ Innocent(i, LogTruncate(first))
  BY DEF Innocent, LogAppend, LogTruncate
<1> QED BY <1>1, EmitCalm

\* Consistency check, conflict repair and append are calm
\* (ae_process).
LEMMA AeProcessCalm ==
    ASSUME Framed, NEW i \in Server, NEW s, CalmStep(s), NEW a, NEW es,
           currentTerm'[i] \in Term, AeProcess(i, s, a, es)
    PROVE  Calm(i)
<1>1. CalmStep("AE_APPEND") /\ CalmStep("AE_TRUNCATE")
  BY DEF CalmStep
<1>2. CASE ReplyPrefixFailure(i, a)
  BY <1>2, AeSendReplyCalm DEF ReplyPrefixFailure
<1>3. ASSUME NEW b, AeApplyEntries(i, s, b, es)
      PROVE  Calm(i)
  BY <1>1, <1>3, AeFinishCalm, ReturnCalm, LogActionsCalm
     DEF AeApplyEntries
<1>4. CASE Fault(i, s)
  BY <1>4, FaultCalm
<1> QED BY <1>2, <1>3, <1>4 DEF AeProcess

---------------------------------------------------------------------------
(* Passive handlers: calm, and they neither campaign nor count votes.      *)

\* Node i takes a step that leaves the election as it was.
Passive(i) ==
    /\ Calm(i)
    /\ role' = Set(role, i, role'[i])
    /\ role'[i] \in {role[i], "FOLLOWER"}
    /\ UNCHANGED <<votes, pendingMsg>>

\* Leaving the standing of the node alone is passive.
LEMMA StandingPassive ==
    ASSUME Shape, NEW i \in Server, Calm(i), UNCHANGED <<standing, pendingMsg>>
    PROVE  Passive(i)
BY DEF Shape, Passive, standing, Set

\* AppendEntries makes a follower and is otherwise calm.
LEMMA AeProcessPassive ==
    ASSUME Shape, NEW i \in Server, NEW s, CalmStep(s), NEW a, NEW es,
           currentTerm'[i] \in Term, AeProcess(i, s, a, es)
    PROVE  Passive(i)
<1>1. Calm(i)
  BY AeProcessCalm DEF Shape, Framed
<1>2. role' = Set(role, i, "FOLLOWER") /\ UNCHANGED <<votes, pendingMsg>>
  BY DEF AeProcess
<1>3. role'[i] = "FOLLOWER"
  BY <1>2 DEF Shape, Set
<1> QED BY <1>1, <1>2, <1>3 DEF Passive

\* Continuing after an acknowledgement is passive, except for an election
\* and a vote reply (raft89__resume).
LEMMA ResumePassive ==
    ASSUME Shape, NEW i \in Server, currentTerm'[i] \in Term, Resume(i),
           CalmStep(step[i])
    PROVE  Passive(i)
<1> Framed
  BY DEF Shape, Framed
<1>0. /\ CalmStep("NONE") /\ CalmStep("AE_APPEND")
      /\ CalmStep("AE_TRUNCATE") /\ CalmStep("AE_HARD_STATE")
  BY DEF CalmStep
<1>1. CASE LeaderBroadcastOn(i)
  BY <1>1, LeaderBroadcastNextCalm, StandingPassive DEF LeaderBroadcastOn
<1>2. CASE LeaderAfterAppend(i)
  BY <1>2, LeaderBroadcastNextCalm, StandingPassive DEF LeaderAfterAppend
<1>3. CASE AeContinue(i)
  BY <1>0, <1>3, AeProcessPassive DEF AeContinue
<1>4. CASE AeAfterTruncate(i)
  BY <1>0, <1>4, LogActionsCalm, FaultCalm, StandingPassive
     DEF AeAfterTruncate, LastUnreadable
<1>5. CASE AeAfterAppend(i)
  BY <1>0, <1>5, AeFinishCalm, FaultCalm, StandingPassive
     DEF AeAfterAppend, LastUnreadable
<1>6. CASE ApplyAck(i)
  <2>1. Calm(i)
    BY <1>0, <1>6, EmitNextApplyCalm, AeSendReplyCalm, ReturnCalm DEF ApplyAck
  <2> QED BY <1>6, <2>1, StandingPassive DEF ApplyAck
<1>7. CASE EndOfChain(i)
  BY <1>0, <1>7, ReturnCalm, StandingPassive DEF EndOfChain
<1> QED BY <1>1, <1>2, <1>3, <1>4, <1>5, <1>6, <1>7 DEF Resume, CalmStep

---------------------------------------------------------------------------
(* From one node to the cluster.                                           *)

\* Only node i changes.
Frame(i) ==
    \A j \in Server \ {i} :
        /\ hard'[j] = hard[j]
        /\ currentTerm'[j] = currentTerm[j]
        /\ votedFor'[j] = votedFor[j]
        /\ role'[j] = role[j]
        /\ votes'[j] = votes[j]
        /\ action'[j] = action[j]
        /\ step'[j] = step[j]
        /\ pendingMsg'[j] = pendingMsg[j]

\* The durable vote of i moves forward.
HardForward(i) ==
    \/ hard'[i] = hard[i]
    \/ hard'[i].term > hard[i].term
    \/ hard'[i].term = hard[i].term /\ hard[i].vote = NoId

\* The network gets at most the message being sent by i.
Network(i) ==
    /\ msgs \subseteq msgs'
    /\ \A m \in msgs' \ msgs : action[i].type = "SEND" /\ m = action[i].msg

\* The nodes that do not move keep their part of the invariant.
LEMMA OthersKeep ==
    ASSUME VoteInv, NEW i \in Server, Frame(i), Network(i),
           NEW j \in Server, j # i
    PROVE  NodeInv(j)'
<1>1. NodeInv(j)
  BY DEF VoteInv
<1>2. msgs \subseteq msgs'
  BY DEF Network
<1>3. /\ hard'[j] = hard[j] /\ currentTerm'[j] = currentTerm[j]
      /\ votedFor'[j] = votedFor[j] /\ role'[j] = role[j]
      /\ votes'[j] = votes[j] /\ action'[j] = action[j]
      /\ step'[j] = step[j] /\ pendingMsg'[j] = pendingMsg[j]
  BY DEF Frame
<1>4. Coherent(j)' /\ Forward(j)' /\ Elected(j)' /\ Electing(j)'
  BY <1>1, <1>3 DEF NodeInv, Coherent, Forward, Elected, Electing
<1>5. Backed(j)' /\ Waiting(j)'
  BY <1>1, <1>3 DEF NodeInv, Backed, Waiting
<1>6. Supported(j)'
  BY <1>1, <1>2, <1>3 DEF NodeInv, Supported
<1> QED BY <1>4, <1>5, <1>6 DEF NodeInv

\* It is enough to look at the node that moves.
LEMMA OneNodeMoves ==
    ASSUME VoteInv, NEW i \in Server, Shape', Frame(i), NodeInv(i)',
           HardForward(i), Network(i)
    PROVE  VoteInv'
<1>1. \A j \in Server : NodeInv(j)'
  BY OthersKeep
<1>2. ASSUME NEW m \in msgs'
      PROVE  m.from \in Server /\ Stamped(m.from, m)
  <2>1. CASE m \in msgs
    BY <2>1 DEF VoteInv, AllStamped
  <2>2. CASE m \notin msgs
    <3>1. action[i].type = "SEND" /\ m = action[i].msg
      BY <2>2 DEF Network
    <3>2. Stamped(i, m)
      BY <3>1 DEF VoteInv, NodeInv, Backed
    <3> QED BY <3>2 DEF Stamped
  <2> QED BY <2>1, <2>2
<1>3. AllStamped'
  BY <1>2 DEF AllStamped, Stamped, Granted
\* A granted vote is the durable one or of an earlier term, before and after.
<1>4. ASSUME NEW m \in msgs', Granted(m)
      PROVE  /\ \/ hard[m.from].term > m.term
                \/ hard[m.from] = [term |-> m.term, vote |-> m.to]
             /\ m \notin msgs =>
                  m.from = i /\ hard[i] = [term |-> m.term, vote |-> m.to]
  <2>1. CASE m \in msgs
    BY <1>4, <2>1 DEF VoteInv, VoteBarrier, Sent, Granted
  <2>2. CASE m \notin msgs
    <3>1. action[i].type = "SEND" /\ m = action[i].msg
      BY <2>2 DEF Network
    <3>2. Stamped(i, m) /\ hard[i] = [term |-> m.term, vote |-> m.to]
      BY <1>4, <3>1 DEF VoteInv, NodeInv, Backed
    <3> QED BY <3>2 DEF Stamped
  <2> QED BY <2>1, <2>2
<1>5. ASSUME NEW m \in msgs', Granted(m)
      PROVE  \/ hard'[m.from].term > m.term
             \/ hard'[m.from] = [term |-> m.term, vote |-> m.to]
  <2>1. m.from \in Server /\ m.term \in Term /\ m.to \in Server
    BY <1>2, <1>5 DEF Stamped
  <2>2. /\ hard[m.from].term \in Term /\ hard'[m.from].term \in Term
        /\ NoId \notin Server
    BY <2>1, ServerAssumption DEF VoteInv, Shape
  <2>3. CASE m.from # i
    BY <1>4, <1>5, <2>1, <2>3 DEF Frame
  <2>4. CASE m.from = i
    <3>1. CASE hard[i].term > m.term
      BY <2>1, <2>2, <2>4, <3>1, LimitAssumption DEF HardForward, Term
    <3>2. CASE hard[i] = [term |-> m.term, vote |-> m.to]
      BY <2>1, <2>2, <2>4, <3>2, LimitAssumption DEF HardForward, Term
    <3> QED BY <1>4, <1>5, <2>4, <3>1, <3>2
  <2> QED BY <2>3, <2>4
<1>6. VoteBarrier'
  BY <1>5 DEF VoteBarrier, Sent, Granted
<1>7. ASSUME NEW m \in msgs', NEW n \in msgs', Granted(m), Granted(n),
             m.from = n.from, m.term = n.term
      PROVE  m.to = n.to
  <2>1. CASE m \in msgs /\ n \in msgs
    BY <1>7, <2>1 DEF VoteInv, OneVote
  <2>2. CASE m \notin msgs \/ n \notin msgs
    <3>1. m.term \in Term
      BY <1>2 DEF Stamped
    <3>2. hard[m.from].term = m.term
      <4>1. CASE m \notin msgs
        <5>1. m.from = i /\ hard[i] = [term |-> m.term, vote |-> m.to]
          BY <1>4, <1>7, <4>1
        <5> QED BY <5>1
      <4>2. CASE n \notin msgs
        <5>1. n.from = i /\ hard[i] = [term |-> n.term, vote |-> n.to]
          BY <1>4, <1>7, <4>2
        <5> QED BY <1>7, <5>1
      <4> QED BY <2>2, <4>1, <4>2
    <3>3. ~(hard[m.from].term > m.term)
      BY <3>1, <3>2, LimitAssumption DEF Term
    <3>4. /\ hard[m.from] = [term |-> m.term, vote |-> m.to]
          /\ hard[m.from] = [term |-> m.term, vote |-> n.to]
      BY <1>4, <1>7, <3>3
    <3> QED BY <3>4
  <2> QED BY <2>1, <2>2
<1>8. OneVote'
  BY <1>7 DEF OneVote, Granted
<1> QED BY <1>1, <1>3, <1>6, <1>8 DEF VoteInv

---------------------------------------------------------------------------
(* The steps of one node.                                                  *)

\* The hard state takes the value of the acknowledged action, if it is one.
Acked(i) ==
    IF action[i].type = "HARD_STATE"
    THEN /\ hard' = Set(hard, i, [term |-> action[i].term,
                                  vote |-> action[i].vote])
         /\ currentTerm' = Set(currentTerm, i, action[i].term)
         /\ votedFor' = Set(votedFor, i, action[i].vote)
    ELSE UNCHANGED <<hard, currentTerm, votedFor>>

\* An acknowledged hard state is well formed, coherent and moves forward.
LEMMA AckedForward ==
    ASSUME VoteInv, NEW i \in Server, Acked(i)
    PROVE  /\ hard' \in [Server -> [term : Term, vote : Id]]
           /\ currentTerm' \in [Server -> Term]
           /\ votedFor' \in [Server -> Id]
           /\ Coherent(i)'
           /\ HardForward(i)
           /\ \A j \in Server \ {i} : /\ hard'[j] = hard[j]
                                      /\ currentTerm'[j] = currentTerm[j]
                                      /\ votedFor'[j] = votedFor[j]
<1>1. Shape /\ Forward(i) /\ Coherent(i)
  BY DEF VoteInv, NodeInv
<1>2. CASE action[i].type = "HARD_STATE"
  <2>1. action[i].term \in Term /\ action[i].vote \in Id
    BY <1>1, <1>2 DEF Forward
  <2>2. /\ hard' = [hard EXCEPT ![i] = [term |-> action[i].term,
                                        vote |-> action[i].vote]]
        /\ currentTerm' = [currentTerm EXCEPT ![i] = action[i].term]
        /\ votedFor' = [votedFor EXCEPT ![i] = action[i].vote]
    BY <1>2 DEF Acked, Set
  <2>3. /\ hard' \in [Server -> [term : Term, vote : Id]]
        /\ currentTerm' \in [Server -> Term]
        /\ votedFor' \in [Server -> Id]
    BY <1>1, <2>1, <2>2 DEF Shape
  <2>4. /\ hard'[i] = [term |-> action[i].term, vote |-> action[i].vote]
        /\ currentTerm'[i] = action[i].term
        /\ votedFor'[i] = action[i].vote
    BY <1>1, <2>2 DEF Shape
  <2>5. Coherent(i)' /\ HardForward(i)
    BY <1>1, <1>2, <2>4 DEF Coherent, HardForward, Forward
  <2> QED BY <1>1, <2>2, <2>3, <2>5 DEF Shape
<1>3. CASE action[i].type # "HARD_STATE"
  BY <1>1, <1>3 DEF Acked, Shape, Coherent, HardForward
<1> QED BY <1>2, <1>3

\* An idle node carries no vote or election continuation.
LEMMA IdleCalm ==
    ASSUME VoteInv, NEW i \in Server, action[i] = NoAction
    PROVE  CalmStep(step[i]) /\ action[i].type = "NONE"
BY DEF VoteInv, NodeInv, Waiting, Electing, CalmStep, NoAction

\* A passive handler keeps the invariant, whether or not its node acts on the
\* acknowledgement of a hard state.
LEMMA PassiveKeeps ==
    ASSUME VoteInv, NEW i \in Server, CalmStep(step[i]), Acked(i),
           Passive(i), Network(i)
    PROVE  VoteInv'
<1> DEFINE a == action'[i]
<1>1. Shape /\ NodeInv(i)
  BY DEF VoteInv
<1>2. /\ action' = [action EXCEPT ![i] = a]
      /\ step' = [step EXCEPT ![i] = step'[i]]
      /\ role' = [role EXCEPT ![i] = role'[i]]
      /\ role'[i] \in {role[i], "FOLLOWER"}
      /\ votes' = votes
      /\ pendingMsg' = pendingMsg
  BY DEF Passive, Calm, Set
<1>3. Innocent(i, a) /\ CalmStep(step'[i])
  BY DEF Passive, Calm
<1>4. Shape'
  <2>1. /\ hard' \in [Server -> [term : Term, vote : Id]]
        /\ currentTerm' \in [Server -> Term]
        /\ votedFor' \in [Server -> Id]
    BY <1>1, AckedForward
  <2>2. /\ role' \in [Server -> Role]
        /\ votes' \in [Server -> SUBSET Server]
    BY <1>1, <1>2 DEF Shape, Role
  <2>3. /\ action' = [j \in Server |-> action'[j]]
        /\ step' = [j \in Server |-> step'[j]]
        /\ pendingMsg' = [j \in Server |-> pendingMsg'[j]]
    BY <1>1, <1>2 DEF Shape
  <2> QED BY <2>1, <2>2, <2>3 DEF Shape
<1>5. Frame(i)
  BY <1>1, <1>2, AckedForward DEF Shape, Frame
<1>6. Forward(i)' /\ Backed(i)' /\ Waiting(i)' /\ Electing(i)'
  BY <1>3 DEF Forward, Backed, Waiting, Electing, Innocent, CalmStep
<1>7. Elected(i)'
  BY <1>1, <1>2 DEF NodeInv, Elected
<1>8. Supported(i)'
  <2>1. CASE role'[i] = "FOLLOWER"
    BY <2>1 DEF Supported
  <2>2. CASE role'[i] = role[i] /\ role[i] # "FOLLOWER"
    <3>1. action[i].type # "HARD_STATE"
      BY <1>1, <2>2 DEF NodeInv, Forward, CalmStep
    <3>2. hard'[i] = hard[i] /\ currentTerm'[i] = currentTerm[i]
      BY <3>1 DEF Acked
    <3>3. Supported(i)
      BY <1>1 DEF NodeInv
    <3> QED BY <1>2, <2>2, <3>1, <3>2, <3>3 DEF Supported, Network
  <2> QED BY <1>2, <2>1, <2>2
<1>9. NodeInv(i)'
  BY <1>6, <1>7, <1>8, AckedForward DEF NodeInv
<1> QED BY <1>4, <1>5, <1>9, AckedForward, OneNodeMoves

\* What an idle node leaves alone in a call.
Quiet(i) ==
    /\ action[i] = NoAction
    /\ UNCHANGED <<hard, currentTerm, votedFor, msgs>>

\* A function on the members, changed at one of them.
LEMMA SetMember ==
    ASSUME NEW f, f = [j \in Server |-> f[j]], NEW i \in Server, NEW v
    PROVE  /\ Set(f, i, v) = [j \in Server |-> Set(f, i, v)[j]]
           /\ Set(f, i, v)[i] = v
           /\ \A j \in Server \ {i} : Set(f, i, v)[j] = f[j]
BY DEF Set

\* What it means for the invariant's variables that only node i changes.
LEMMA NodeChanges ==
    ASSUME Shape, NEW i \in Server, NEW a, NEW s, NEW r \in Role,
           NEW vs \in SUBSET Server, NEW p,
           action' = Set(action, i, a),
           step' = Set(step, i, s),
           role' = Set(role, i, r),
           votes' = Set(votes, i, vs),
           pendingMsg' = Set(pendingMsg, i, p)
    PROVE  /\ action' = [j \in Server |-> action'[j]]
           /\ step' = [j \in Server |-> step'[j]]
           /\ role' \in [Server -> Role]
           /\ votes' \in [Server -> SUBSET Server]
           /\ pendingMsg' = [j \in Server |-> pendingMsg'[j]]
           /\ action'[i] = a /\ step'[i] = s /\ role'[i] = r
           /\ votes'[i] = vs /\ pendingMsg'[i] = p
           /\ \A j \in Server \ {i} :
                 /\ action'[j] = action[j] /\ step'[j] = step[j]
                 /\ role'[j] = role[j] /\ votes'[j] = votes[j]
                 /\ pendingMsg'[j] = pendingMsg[j]
<1>1. /\ action' = [j \in Server |-> action'[j]]
      /\ action'[i] = a /\ \A j \in Server \ {i} : action'[j] = action[j]
  <2>1. action = [j \in Server |-> action[j]]
    BY DEF Shape
  <2> QED BY ONLY <2>1, SetMember, i \in Server, action' = Set(action, i, a)
<1>2. /\ step' = [j \in Server |-> step'[j]]
      /\ step'[i] = s /\ \A j \in Server \ {i} : step'[j] = step[j]
  <2>1. step = [j \in Server |-> step[j]]
    BY DEF Shape
  <2> QED BY ONLY <2>1, SetMember, i \in Server, step' = Set(step, i, s)
<1>3. /\ pendingMsg' = [j \in Server |-> pendingMsg'[j]]
      /\ pendingMsg'[i] = p
      /\ \A j \in Server \ {i} : pendingMsg'[j] = pendingMsg[j]
  <2>1. pendingMsg = [j \in Server |-> pendingMsg[j]]
    BY DEF Shape
  <2> QED BY ONLY <2>1, SetMember, i \in Server,
                  pendingMsg' = Set(pendingMsg, i, p)
<1>4. /\ role' \in [Server -> Role]
      /\ role'[i] = r /\ \A j \in Server \ {i} : role'[j] = role[j]
  <2>1. role \in [Server -> Role]
    BY DEF Shape
  <2>2. role' = Set(role, i, r)
    OBVIOUS
  <2>3. role' \in [Server -> Role]
    BY ONLY <2>1, <2>2, i \in Server, r \in Role DEF Set
  <2> QED BY ONLY <2>1, <2>2, <2>3, i \in Server DEF Set
<1>5. /\ votes' \in [Server -> SUBSET Server]
      /\ votes'[i] = vs /\ \A j \in Server \ {i} : votes'[j] = votes[j]
  <2>1. votes \in [Server -> SUBSET Server]
    BY DEF Shape
  <2>2. votes' = Set(votes, i, vs)
    OBVIOUS
  <2>3. votes' \in [Server -> SUBSET Server]
    BY ONLY <2>1, <2>2, i \in Server, vs \in SUBSET Server DEF Set
  <2> QED BY ONLY <2>1, <2>2, <2>3, i \in Server DEF Set
<1> QED BY ONLY <1>1, <1>2, <1>3, <1>4, <1>5

\* An idle node keeps the invariant when it asks for a new hard state.
LEMMA PersistKeeps ==
    ASSUME VoteInv, NEW i \in Server, Quiet(i),
           NEW t \in Term, NEW v \in Id, NEW s, NEW r \in Role,
           NEW vs \in SUBSET Server, NEW p,
           Emit(i, HardState(t, v), s),
           role' = Set(role, i, r),
           votes' = Set(votes, i, vs),
           pendingMsg' = Set(pendingMsg, i, p),
           t > currentTerm[i] \/ (t = currentTerm[i] /\ votedFor[i] = NoId),
           IF s = "ELECTION_BROADCAST"
           THEN r = "CANDIDATE" /\ v = i /\ vs = {i}
           ELSE r = "FOLLOWER",
           s = "VOTE_RESPONSE" =>
               Stamped(i, p) /\ (Granted(p) => t = p.term /\ v = p.to)
    PROVE  VoteInv'
<1>1. Shape /\ Coherent(i)
  BY DEF VoteInv, NodeInv
<1>2. /\ action' = Set(action, i, HardState(t, v))
      /\ step' = Set(step, i, s)
      /\ hard' = hard /\ currentTerm' = currentTerm /\ votedFor' = votedFor
      /\ msgs' = msgs
  BY DEF Emit, Quiet
<1>5. /\ action' = [j \in Server |-> action'[j]]
      /\ step' = [j \in Server |-> step'[j]]
      /\ role' \in [Server -> Role]
      /\ votes' \in [Server -> SUBSET Server]
      /\ pendingMsg' = [j \in Server |-> pendingMsg'[j]]
      /\ action'[i] = HardState(t, v) /\ step'[i] = s /\ role'[i] = r
      /\ votes'[i] = vs /\ pendingMsg'[i] = p
      /\ \A j \in Server \ {i} :
            /\ action'[j] = action[j] /\ step'[j] = step[j]
            /\ role'[j] = role[j] /\ votes'[j] = votes[j]
            /\ pendingMsg'[j] = pendingMsg[j]
  BY <1>1, <1>2, NodeChanges
<1>3. Shape'
  BY <1>1, <1>2, <1>5 DEF Shape
<1>4. Frame(i)
  BY <1>2, <1>5 DEF Frame
<1>6. Coherent(i)' /\ Elected(i)' /\ Supported(i)' /\ Backed(i)'
  <2>1. Coherent(i)'
    BY <1>1, <1>2 DEF Coherent
  <2>2. role'[i] # "LEADER" /\ action'[i].type = "HARD_STATE"
    BY <1>5 DEF HardState
  <2>3. Elected(i)' /\ Supported(i)' /\ Backed(i)'
    BY <2>2 DEF Elected, Supported, Backed
  <2> QED BY <2>1, <2>3
<1>7. Forward(i)'
  <2>1. \/ action'[i].term > hard'[i].term
        \/ action'[i].term = hard'[i].term /\ hard'[i].vote = NoId
    BY <1>1, <1>2, <1>5 DEF Coherent, HardState
  <2> QED BY <1>2, <1>5, <2>1 DEF Forward, HardState
<1>8. Waiting(i)' /\ Electing(i)'
  BY <1>5 DEF Waiting, Electing, HardState
<1>9. NodeInv(i)' /\ HardForward(i) /\ Network(i)
  BY <1>2, <1>6, <1>7, <1>8 DEF NodeInv, HardForward, Network
<1> QED BY <1>3, <1>4, <1>9, OneNodeMoves

\* Only a follower has not voted in its term.
LEMMA NoVoteNoCampaign ==
    ASSUME VoteInv, NEW i \in Server, Quiet(i), votedFor[i] = NoId
    PROVE  role[i] = "FOLLOWER"
BY ServerAssumption
   DEF VoteInv, NodeInv, Supported, Coherent, Quiet, NoAction

\* Stepping down keeps the invariant (raft89__step_down_new_term).
LEMMA StepDownKeeps ==
    ASSUME VoteInv, NEW i \in Server, Quiet(i), NEW t \in Term,
           t > currentTerm[i], StepDownNewTerm(i, t)
    PROVE  VoteInv'
<1>1. /\ votes' = Set(votes, i, votes[i]) /\ votes[i] \in SUBSET Server
      /\ pendingMsg' = Set(pendingMsg, i, pendingMsg[i])
  BY DEF StepDownNewTerm, VoteInv, Shape, Set
<1>2. NoId \in Id /\ "FOLLOWER" \in Role
  BY DEF Id, Role
<1> QED BY <1>1, <1>2, PersistKeeps DEF StepDownNewTerm

\* Adopting the term of a new leader keeps the invariant
\* (start_ae_hard_state).
LEMMA StartAeKeeps ==
    ASSUME VoteInv, NEW i \in Server, Quiet(i), NEW m, m.term \in Term,
           m.term > currentTerm[i], StartAeHardState(i, m)
    PROVE  VoteInv'
<1>1. /\ votes' = Set(votes, i, votes[i]) /\ votes[i] \in SUBSET Server
      /\ pendingMsg' = Set(pendingMsg, i, pendingMsg[i])
  BY DEF StartAeHardState, VoteInv, Shape, Set
<1>2. NoId \in Id /\ "FOLLOWER" \in Role
  BY DEF Id, Role
<1> QED BY <1>1, <1>2, PersistKeeps DEF StartAeHardState

\* Starting an election keeps the invariant (raft89__start_election).
LEMMA StartElectionKeeps ==
    ASSUME VoteInv, NEW i \in Server, Quiet(i), StartElection(i)
    PROVE  VoteInv'
<1>1. CASE currentTerm[i] < TermMax /\ ~Ignore(i)
  <2>1. currentTerm[i] + 1 \in Term /\ currentTerm[i] + 1 > currentTerm[i]
    BY <1>1, LimitAssumption DEF VoteInv, Shape, Term
  <2>2. i \in Id /\ "CANDIDATE" \in Role /\ {i} \in SUBSET Server
    BY DEF Id, Role
  <2>3. pendingMsg' = Set(pendingMsg, i, pendingMsg[i])
    BY <1>1 DEF StartElection, VoteInv, Shape, Set
  <2> QED BY <1>1, <2>1, <2>2, <2>3, PersistKeeps DEF StartElection
<1>2. CASE Ignore(i)
  <2>1. Passive(i)
    BY <1>2, IdleCalm DEF Quiet, VoteInv, Shape, Ignore, standing, control,
       Passive, Calm, Set, Innocent
  <2> QED BY <2>1, IdleCalm, PassiveKeeps DEF Quiet, Acked, Network
<1> QED BY <1>1, <1>2 DEF StartElection

\* A passive call keeps the invariant.
LEMMA IdlePassiveKeeps ==
    ASSUME VoteInv, NEW i \in Server, Quiet(i), Passive(i)
    PROVE  VoteInv'
BY IdleCalm, PassiveKeeps DEF Quiet, Acked, Network

\* A call without effect keeps the invariant.
LEMMA IgnoreKeeps ==
    ASSUME VoteInv, NEW i \in Server, Quiet(i),
           UNCHANGED <<standing, control, pendingMsg>>
    PROVE  VoteInv'
<1>1. Passive(i)
  BY IdleCalm DEF Quiet, VoteInv, Shape, standing, control, Passive, Calm, Set,
     Innocent
<1> QED BY <1>1, IdlePassiveKeeps

\* Repeating the durable vote keeps the invariant (reply_vote).
LEMMA GrantAgainKeeps ==
    ASSUME VoteInv, NEW i \in Server, Quiet(i), NEW j \in Server,
           votedFor[i] = j, ReplyVote(i, j, currentTerm[i], TRUE)
    PROVE  VoteInv'
<1> DEFINE m == VoteResponse(i, j, currentTerm[i], TRUE)
<1>1. Shape /\ NodeInv(i) /\ CalmStep(step[i])
  BY IdleCalm DEF VoteInv, Quiet
<1>2. /\ action' = [action EXCEPT ![i] = Send(m)]
      /\ step' = [step EXCEPT ![i] = step[i]]
      /\ role' = role /\ votes' = votes /\ pendingMsg' = pendingMsg
      /\ hard' = hard /\ currentTerm' = currentTerm /\ votedFor' = votedFor
      /\ msgs' = msgs
  BY DEF ReplyVote, Emit, Set, standing, Quiet
<1>3. Shape' /\ Frame(i) /\ action'[i] = Send(m) /\ step'[i] = step[i]
  BY <1>1, <1>2 DEF Shape, Frame
<1>4. /\ Stamped(i, m)
      /\ hard[i] = [term |-> m.term, vote |-> m.to]
      /\ Send(m).type = "SEND" /\ Send(m).msg = m
  BY <1>1 DEF Shape, NodeInv, Coherent, Stamped, Granted, VoteResponse, Send
<1>5. Backed(i)' /\ Forward(i)' /\ Waiting(i)' /\ Electing(i)'
  BY <1>1, <1>2, <1>3, <1>4
     DEF Backed, Forward, Waiting, Electing, CalmStep
<1>6. Coherent(i)' /\ Elected(i)'
  BY <1>1, <1>2 DEF NodeInv, Coherent, Elected
<1>7. Supported(i)'
  BY <1>1, <1>2 DEF NodeInv, Supported, Quiet, NoAction
<1>8. NodeInv(i)' /\ HardForward(i) /\ Network(i)
  BY <1>2, <1>5, <1>6, <1>7 DEF NodeInv, HardForward, Network
<1> QED BY <1>3, <1>8, OneNodeMoves

\* Answering a vote request keeps the invariant (raft89__recv_request_vote).
LEMMA RecvRequestVoteKeeps ==
    ASSUME VoteInv, NEW i \in Server, Quiet(i), NEW m,
           m.from \in Server, m.term \in Term, RecvRequestVote(i, m)
    PROVE  VoteInv'
<1>1. Shape /\ Framed /\ CalmStep(step[i]) /\ currentTerm[i] \in Term
  BY IdleCalm DEF VoteInv, Quiet, Shape, Framed
<1>2. ASSUME NEW t \in Term, ReplyVote(i, m.from, t, FALSE)
      PROVE  VoteInv'
  <2>1. Innocent(i, Send(VoteResponse(i, m.from, t, FALSE)))
    BY DEF Innocent, Send, VoteResponse, Stamped, Granted
  <2>2. Calm(i)
    BY <1>1, <1>2, <2>1, EmitCalm DEF ReplyVote
  <2> QED BY <1>1, <1>2, <2>2, StandingPassive, IdlePassiveKeeps DEF ReplyVote
\* Casting a vote, or adopting a term without a vote.
<1>3. ASSUME NEW v \in Id, NEW g \in BOOLEAN, g => v = m.from,
             PersistVoteThenReply(i, m.from, m.term, v, g),
             \/ m.term > currentTerm[i]
             \/ m.term = currentTerm[i] /\ votedFor[i] = NoId,
             role' = Set(role, i, "FOLLOWER")
      PROVE  VoteInv'
  <2> DEFINE p == VoteResponse(i, m.from, m.term, g)
  <2>1. Stamped(i, p) /\ (Granted(p) => m.term = p.term /\ v = p.to)
    BY <1>3 DEF Stamped, Granted, VoteResponse
  <2>2. votes' = Set(votes, i, votes[i]) /\ votes[i] \in SUBSET Server
    BY <1>1, <1>3 DEF PersistVoteThenReply, Shape, Set
  <2>3. pendingMsg' = Set(pendingMsg, i, p) /\ "FOLLOWER" \in Role
    BY <1>3 DEF PersistVoteThenReply, Role
  <2>4. Emit(i, HardState(m.term, v), "VOTE_RESPONSE")
    BY <1>3 DEF PersistVoteThenReply
  <2> HIDE DEF p
  <2> QED BY <1>3, <2>1, <2>2, <2>3, <2>4, PersistKeeps
<1>4. ASSUME NEW f \in BOOLEAN, m.term > currentTerm[i], VoteNewTerm(i, m, f)
      PROVE  VoteInv'
  <2>1. (IF f THEN m.from ELSE NoId) \in Id
    BY DEF Id
  <2> QED BY <1>3, <1>4, <2>1 DEF VoteNewTerm
<1>5. CASE /\ m.term = currentTerm[i]
           /\ votedFor[i] = NoId
           /\ UNCHANGED <<role, leaderId>>
           /\ PersistVoteThenReply(i, m.from, m.term, m.from, TRUE)
  <2>1. role' = Set(role, i, "FOLLOWER") /\ m.from \in Id
    BY <1>1, <1>5, NoVoteNoCampaign DEF Shape, Set, Id
  <2> QED BY <1>3, <1>5, <2>1
<1>6. LogIsFresh(m.lastTerm, m.lastIndex, lastTerm[i], lastIndex[i]) \in BOOLEAN
  BY DEF LogIsFresh
<1> QED BY <1>1, <1>2, <1>4, <1>5, <1>6, GrantAgainKeeps DEF RecvRequestVote

\* A candidate that counts its votes keeps the invariant, and may lead once
\* it has a quorum.
LEMMA CampaignKeeps ==
    ASSUME VoteInv, NEW i \in Server, Acked(i), Network(i),
           NEW a, NEW s, NEW r \in {"CANDIDATE", "LEADER"},
           NEW vs \in SUBSET Server,
           action' = Set(action, i, a), Innocent(i, a),
           step' = Set(step, i, s), s # "VOTE_RESPONSE",
           s = "ELECTION_BROADCAST" => r = "CANDIDATE" /\ a.type = "SEND",
           role' = Set(role, i, r),
           votes' = Set(votes, i, vs),
           UNCHANGED pendingMsg,
           r = "LEADER" => IsQuorum(Cardinality(vs)),
           hard'[i].vote = i,
           i \in vs,
           \A j \in vs \ {i} :
              \E m \in msgs' : /\ Granted(m) /\ m.from = j /\ m.to = i
                               /\ m.term = currentTerm'[i]
    PROVE  VoteInv'
<1>1. Shape /\ NodeInv(i) /\ r \in Role
  BY DEF VoteInv, Role
<1>2. pendingMsg' = Set(pendingMsg, i, pendingMsg[i])
  BY <1>1 DEF Shape, Set
<1>5. /\ action' = [j \in Server |-> action'[j]]
      /\ step' = [j \in Server |-> step'[j]]
      /\ role' \in [Server -> Role]
      /\ votes' \in [Server -> SUBSET Server]
      /\ pendingMsg' = [j \in Server |-> pendingMsg'[j]]
      /\ action'[i] = a /\ step'[i] = s /\ role'[i] = r /\ votes'[i] = vs
      /\ \A j \in Server \ {i} :
            /\ action'[j] = action[j] /\ step'[j] = step[j]
            /\ role'[j] = role[j] /\ votes'[j] = votes[j]
            /\ pendingMsg'[j] = pendingMsg[j]
  BY <1>1, <1>2, NodeChanges
<1>3. Shape'
  BY <1>1, <1>5, AckedForward DEF Shape
<1>4. Frame(i)
  BY <1>1, <1>5, AckedForward DEF Frame
<1>6. Forward(i)' /\ Backed(i)' /\ Waiting(i)' /\ Electing(i)'
  BY <1>5 DEF Forward, Backed, Waiting, Electing, Innocent
<1>7. Elected(i)' /\ Supported(i)'
  BY <1>5 DEF Elected, Supported
<1>8. NodeInv(i)'
  BY <1>6, <1>7, AckedForward DEF NodeInv
<1> QED BY <1>3, <1>4, <1>8, AckedForward, OneNodeMoves

\* Taking over leadership, or failing to because the log is full
\* (raft89__become_leader).
LEMMA BecomeLeaderCalm ==
    ASSUME Shape, NEW i \in Server, NEW s, CalmStep(s),
           currentTerm'[i] \in Term, BecomeLeader(i, s)
    PROVE  /\ Calm(i)
           /\ \/ role' = Set(role, i, "LEADER")
              \/ role' = role
<1>1. Framed
  BY DEF Shape, Framed
<1> QED BY <1>1, FaultCalm, LeaderBroadcastNextCalm DEF BecomeLeader

\* Counting a vote keeps the invariant (raft89__recv_vote_response).
LEMMA RecvVoteResponseKeeps ==
    ASSUME VoteInv, NEW i \in Server, Quiet(i), NEW m \in msgs,
           EnvelopeValid(i, m), m.type = "RVR", RecvVoteResponse(i, m)
    PROVE  VoteInv'
<1>1. /\ Shape /\ NodeInv(i) /\ CalmStep(step[i])
      /\ action[i].type = "NONE" /\ Acked(i) /\ Network(i)
      /\ currentTerm'[i] = currentTerm[i] /\ currentTerm[i] \in Term
      /\ m.to = i /\ m.from \in Server \ {i} /\ m.term \in Term
  BY IdleCalm DEF VoteInv, Quiet, Acked, Network, Shape, EnvelopeValid,
     AllStamped, Stamped
<1>2. CASE NewerTerm(i, m) /\ StepDownNewTerm(i, m.term)
  BY <1>1, <1>2, StepDownKeeps DEF NewerTerm
<1>3. CASE Ignore(i)
  BY <1>3, IgnoreKeeps DEF Ignore
<1>4. ASSUME m.term = currentTerm[i], role[i] = "CANDIDATE", m.granted,
             NEW vs, vs = votes[i] \union {m.from},
             votes' = Set(votes, i, vs), UNCHANGED pendingMsg,
             \/ ~IsQuorum(Cardinality(vs)) /\ UNCHANGED <<role, control>>
             \/ IsQuorum(Cardinality(vs)) /\ BecomeLeader(i, step[i])
      PROVE  VoteInv'
  <2>1. vs \in SUBSET Server /\ hard'[i].vote = i /\ i \in vs
    BY <1>1, <1>4 DEF Shape, NodeInv, Supported, Quiet
  <2>2. ASSUME NEW j \in vs \ {i}
        PROVE  \E n \in msgs' : /\ Granted(n) /\ n.from = j /\ n.to = i
                                /\ n.term = currentTerm'[i]
    <3>1. CASE j = m.from
      BY <1>1, <1>4, <3>1 DEF Granted, Quiet
    <3>2. CASE j # m.from
      BY <1>1, <1>4, <3>2 DEF NodeInv, Supported, Quiet
    <3> QED BY <3>1, <3>2
  <2>3. CASE ~IsQuorum(Cardinality(vs)) /\ UNCHANGED <<role, control>>
    <3>1. /\ action' = Set(action, i, action[i])
          /\ step' = Set(step, i, step[i])
          /\ role' = Set(role, i, "CANDIDATE")
          /\ Innocent(i, action[i]) /\ step[i] # "VOTE_RESPONSE"
          /\ step[i] # "ELECTION_BROADCAST"
      BY <1>1, <1>4, <2>3 DEF Shape, Set, control, Innocent, CalmStep
    <3> QED BY <1>1, <1>4, <2>1, <2>2, <3>1, CampaignKeeps
  <2>4. CASE IsQuorum(Cardinality(vs)) /\ BecomeLeader(i, step[i])
    <3>1. Calm(i) /\ (role' = Set(role, i, "LEADER") \/ role' = role)
      BY <1>1, <2>4, BecomeLeaderCalm
    <3>2. /\ action' = Set(action, i, action'[i])
          /\ step' = Set(step, i, step'[i])
          /\ Innocent(i, action'[i]) /\ step'[i] # "VOTE_RESPONSE"
          /\ step'[i] # "ELECTION_BROADCAST"
      BY <3>1 DEF Calm, CalmStep
    <3> DEFINE a == action'[i]
               s == step'[i]
    <3>5. /\ action' = Set(action, i, a)
          /\ step' = Set(step, i, s)
          /\ Innocent(i, a) /\ s # "VOTE_RESPONSE"
          /\ s # "ELECTION_BROADCAST"
      BY <3>2
    <3> HIDE DEF a, s
    <3>3. CASE role' = Set(role, i, "LEADER")
      <4> DEFINE r == "LEADER"
      <4>1. /\ r \in {"CANDIDATE", "LEADER"} /\ role' = Set(role, i, r)
            /\ r = "LEADER" => IsQuorum(Cardinality(vs))
            /\ s = "ELECTION_BROADCAST" => r = "CANDIDATE" /\ a.type = "SEND"
        BY <2>4, <3>3, <3>5
      <4> HIDE DEF r
      <4>2. /\ VoteInv /\ i \in Server /\ Acked(i) /\ Network(i)
            /\ UNCHANGED pendingMsg /\ votes' = Set(votes, i, vs)
        BY <1>1, <1>4
      <4> QED BY ONLY <2>1, <2>2, <3>5, <4>1, <4>2, CampaignKeeps
    <3>4. CASE role' = role
      <4>1. role' = Set(role, i, "CANDIDATE")
        BY <1>1, <1>4, <3>4 DEF Shape, Set
      <4> QED BY <1>1, <1>4, <2>1, <2>2, <3>5, <4>1, CampaignKeeps
    <3> QED BY <3>1, <3>3, <3>4
  <2> QED BY <1>4, <2>3, <2>4
<1> QED BY <1>2, <1>3, <1>4 DEF RecvVoteResponse

\* Receiving AppendEntries keeps the invariant (raft89__recv_append_entries).
LEMMA RecvAppendEntriesKeeps ==
    ASSUME VoteInv, NEW i \in Server, Quiet(i), NEW m, m.term \in Term,
           RecvAppendEntries(i, m)
    PROVE  VoteInv'
<1>1. /\ Shape /\ Framed /\ CalmStep(step[i])
      /\ currentTerm'[i] = currentTerm[i] /\ currentTerm[i] \in Term
  BY IdleCalm DEF VoteInv, Quiet, Shape, Framed
<1>2. CASE SendAeFailure(i, m.from)
  <2>1. \A k : Innocent(i, Send(AppendResponse(i, m.from, currentTerm[i],
                                               FALSE, 0, 0, k)))
    BY <1>1 DEF Innocent, Send, AppendResponse, Stamped, Granted
  <2>2. Calm(i)
    BY <1>1, <1>2, <2>1, EmitCalm DEF SendAeFailure
  <2> QED BY <1>1, <1>2, <2>2, StandingPassive, IdlePassiveKeeps
          DEF SendAeFailure
<1>3. CASE m.term > currentTerm[i] /\ StartAeHardState(i, m)
  BY <1>3, StartAeKeeps
<1>4. CASE AeProcess(i, step[i], StashOf(m), m.entries)
  BY <1>1, <1>4, AeProcessPassive, IdlePassiveKeeps
<1>5. CASE StashFails(i, m)
  BY <1>5, IgnoreKeeps DEF StashFails
<1> QED BY <1>2, <1>3, <1>4, <1>5 DEF RecvAppendEntries

\* Receiving an AppendEntries response keeps the invariant
\* (raft89__recv_ae_response).
LEMMA RecvAeResponseKeeps ==
    ASSUME VoteInv, NEW i \in Server, Quiet(i), NEW m, m.term \in Term,
           RecvAeResponse(i, m)
    PROVE  VoteInv'
<1>1. /\ Shape /\ Framed /\ CalmStep(step[i]) /\ currentTerm'[i] \in Term
  BY IdleCalm DEF VoteInv, Quiet, Shape, Framed
<1>2. CASE NewerTerm(i, m) /\ StepDownNewTerm(i, m.term)
  BY <1>2, StepDownKeeps DEF NewerTerm
<1>3. CASE HandleAeFailure(i, m)
  <2>1. Calm(i)
    BY <1>1, <1>3, LeaderSendToCalm, FaultCalm DEF HandleAeFailure
  <2> QED BY <1>1, <1>3, <2>1, StandingPassive, IdlePassiveKeeps
          DEF HandleAeFailure
<1>4. CASE HandleAeSuccess(i, m)
  BY <1>1, <1>4, LeaderMaybeCommitCalm, StandingPassive, IdlePassiveKeeps
     DEF HandleAeSuccess
<1>5. CASE Ignore(i)
  BY <1>5, IgnoreKeeps DEF Ignore
<1> QED BY <1>2, <1>3, <1>4, <1>5 DEF RecvAeResponse

\* Every received message keeps the invariant (raft89_recv).
LEMMA RecvKeepsVotes ==
    ASSUME VoteInv, NEW i \in Server, NEW m \in msgs, Recv(i, m),
           UNCHANGED msgs
    PROVE  VoteInv'
<1>1. /\ Quiet(i) /\ m.from \in Server /\ m.term \in Term
      /\ EnvelopeValid(i, m)
  BY DEF Recv, Ready, durable, termVars, Quiet, VoteInv, AllStamped, Stamped
<1> QED BY <1>1, RecvRequestVoteKeeps, RecvVoteResponseKeeps,
           RecvAppendEntriesKeeps, RecvAeResponseKeeps DEF Recv

\* A tick keeps the invariant (raft89_tick).
LEMMA TickKeepsVotes ==
    ASSUME VoteInv, NEW i \in Server, Tick(i), UNCHANGED msgs
    PROVE  VoteInv'
<1>1. Quiet(i)
  BY DEF Tick, Ready, durable, termVars, Quiet
<1>2. Shape /\ Framed /\ currentTerm'[i] \in Term
  BY <1>1 DEF VoteInv, Shape, Framed, Quiet
<1>3. CASE TickLeader(i)
  BY <1>1, <1>2, <1>3, LeaderBroadcastNextCalm, StandingPassive,
     IdlePassiveKeeps DEF TickLeader
<1>4. CASE TickFollower(i)
  BY <1>1, <1>4, StartElectionKeeps DEF TickFollower
<1> QED BY <1>3, <1>4 DEF Tick

\* A proposal keeps the invariant (raft89_proposev).
LEMMA ProposeKeepsVotes ==
    ASSUME VoteInv, NEW i \in Server, NEW cmds, Propose(i, cmds),
           UNCHANGED msgs
    PROVE  VoteInv'
<1>1. Quiet(i)
  BY DEF Propose, Ready, durable, termVars, Quiet
<1>2. Shape /\ Framed /\ CalmStep(step[i]) /\ CalmStep("LEADER_APPEND")
  BY <1>1, IdleCalm DEF VoteInv, Shape, Framed, Quiet, CalmStep
<1>3. Calm(i) /\ UNCHANGED <<standing, pendingMsg>>
  BY <1>2, LogActionsCalm, FaultCalm, ReturnCalm DEF Propose, Proposev
<1> QED BY <1>1, <1>2, <1>3, StandingPassive, IdlePassiveKeeps

\* The reply to a vote request goes out after its vote (vote_response_send).
LEMMA VoteResponseSendKeeps ==
    ASSUME VoteInv, NEW i \in Server, step[i] = "VOTE_RESPONSE", Acked(i),
           Network(i), VoteResponseSend(i)
    PROVE  VoteInv'
<1> DEFINE p == pendingMsg[i]
<1>1. /\ Shape /\ NodeInv(i) /\ action[i].type = "HARD_STATE"
      /\ Stamped(i, p) /\ role[i] = "FOLLOWER"
  BY DEF VoteInv, NodeInv, Waiting, Forward
<1>2. /\ action' = [action EXCEPT ![i] = Send(p)]
      /\ step' = [step EXCEPT ![i] = "NONE"]
      /\ role' = role /\ votes' = votes /\ pendingMsg' = pendingMsg
  BY DEF VoteResponseSend, Emit, Set, standing
<1>3. Shape' /\ Frame(i)
  BY <1>1, <1>2, AckedForward DEF Shape, Frame
<1>4. /\ action'[i] = Send(p) /\ step'[i] = "NONE" /\ role'[i] = "FOLLOWER"
      /\ Send(p).type = "SEND" /\ Send(p).msg = p
  BY <1>1, <1>2 DEF Shape, Send
<1>5. hard'[i] = [term |-> action[i].term, vote |-> action[i].vote]
  BY <1>1 DEF Acked, Set, Shape
<1>6. Granted(p) => hard'[i] = [term |-> p.term, vote |-> p.to]
  BY <1>1, <1>5 DEF NodeInv, Waiting
<1>7. Backed(i)'
  BY <1>1, <1>4, <1>6 DEF Backed
<1>8. Forward(i)' /\ Waiting(i)' /\ Electing(i)' /\ Supported(i)' /\ Elected(i)'
  BY <1>4 DEF Forward, Waiting, Electing, Supported, Elected
<1>9. NodeInv(i)'
  BY <1>7, <1>8, AckedForward DEF NodeInv
<1> QED BY <1>3, <1>9, AckedForward, OneNodeMoves

\* A candidate that goes on sending requests keeps the invariant
\* (raft89__election_send_next).
LEMMA ElectionSendNextKeeps ==
    ASSUME VoteInv, NEW i \in Server, step[i] = "ELECTION_BROADCAST",
           Acked(i), Network(i), ElectionSendNext(i)
    PROVE  VoteInv'
<1>1. /\ Shape /\ Framed /\ NodeInv(i) /\ role[i] = "CANDIDATE"
      /\ action[i].type \in {"HARD_STATE", "SEND"}
      /\ CalmStep("NONE")
  BY DEF VoteInv, NodeInv, Electing, Shape, Framed, CalmStep
<1>2. /\ currentTerm'[i] \in Term
      /\ votes' = Set(votes, i, votes[i]) /\ votes[i] \in SUBSET Server
      /\ UNCHANGED pendingMsg
  BY <1>1, AckedForward DEF ElectionSendNext, Shape, Set
<1>3. /\ hard'[i].vote = i
      /\ i \in votes[i]
      /\ \A j \in votes[i] \ {i} :
            \E m \in msgs' : /\ Granted(m) /\ m.from = j /\ m.to = i
                             /\ m.term = currentTerm'[i]
  <2>1. CASE action[i].type = "HARD_STATE"
    <3>1. votes[i] = {i} /\ action[i].vote = i
      BY <1>1, <2>1 DEF NodeInv, Forward
    <3>2. hard'[i] = [term |-> action[i].term, vote |-> action[i].vote]
      BY <1>1, <2>1 DEF Acked, Set, Shape
    <3> QED BY <3>1, <3>2
  <2>2. CASE action[i].type # "HARD_STATE"
    BY <1>1, <2>2 DEF NodeInv, Supported, Acked, Network
  <2> QED BY <2>1, <2>2
<1>4. CASE IsQuorum(Cardinality(votes[i])) /\ BecomeLeader(i, "NONE")
  <2> DEFINE a == action'[i]
             s == step'[i]
  <2>1. Calm(i) /\ (role' = Set(role, i, "LEADER") \/ role' = role)
    BY <1>1, <1>2, <1>4, BecomeLeaderCalm
  <2>2. /\ action' = Set(action, i, a)
        /\ step' = Set(step, i, s)
        /\ Innocent(i, a) /\ s # "VOTE_RESPONSE"
        /\ s # "ELECTION_BROADCAST"
    BY <2>1 DEF Calm, CalmStep
  <2> HIDE DEF a, s
  <2>3. CASE role' = Set(role, i, "LEADER")
    BY <1>2, <1>3, <1>4, <2>2, <2>3, CampaignKeeps
  <2>4. CASE role' = role
    <3>1. role' = Set(role, i, "CANDIDATE")
      BY <1>1, <2>4 DEF Shape, Set
    <3> QED BY <1>2, <1>3, <2>2, <3>1, CampaignKeeps
  <2> QED BY <2>1, <2>3, <2>4
<1>5. ASSUME NEW j, NEW k, NEW t, UNCHANGED role,
             Emit(i, Send(RequestVote(i, j, currentTerm'[i], k, t)),
                  "ELECTION_BROADCAST")
      PROVE  VoteInv'
  <2> DEFINE a == Send(RequestVote(i, j, currentTerm'[i], k, t))
  <2>1. Innocent(i, a) /\ a.type = "SEND"
    BY <1>2 DEF Innocent, Send, RequestVote, Stamped, Granted
  <2>2. /\ action' = Set(action, i, a)
        /\ step' = Set(step, i, "ELECTION_BROADCAST")
        /\ role' = Set(role, i, "CANDIDATE")
    BY <1>1, <1>5 DEF Emit, Shape, Set
  <2> HIDE DEF a
  <2> QED BY <1>2, <1>3, <2>1, <2>2, CampaignKeeps
<1>6. CASE Return(i, "NONE") /\ UNCHANGED role
  <2>1. /\ action' = Set(action, i, NoAction)
        /\ step' = Set(step, i, "NONE")
        /\ role' = Set(role, i, "CANDIDATE")
        /\ Innocent(i, NoAction)
    BY <1>1, <1>6 DEF Return, Emit, Shape, Set, Innocent, NoAction
  <2> QED BY <1>2, <1>3, <2>1, CampaignKeeps
<1> QED BY <1>4, <1>5, <1>6 DEF ElectionSendNext

\* An acknowledgement keeps the invariant (raft89_action_done).
LEMMA DoneKeepsVotes ==
    ASSUME VoteInv, NEW i \in Server, Done(i)
    PROVE  VoteInv'
<1>1. Acked(i) /\ Network(i) /\ Resume(i)
  BY DEF Done, ActionDone, HostEffect, ApplyHardState, termVars, Acked,
     Network, Outgoing
<1>2. Shape /\ currentTerm'[i] \in Term
  BY <1>1, AckedForward DEF VoteInv
<1>3. CASE CalmStep(step[i])
  BY <1>1, <1>2, <1>3, ResumePassive, PassiveKeeps
<1>4. CASE step[i] = "VOTE_RESPONSE"
  BY <1>1, <1>4, VoteResponseSendKeeps DEF Resume
<1>5. CASE step[i] = "ELECTION_BROADCAST"
  BY <1>1, <1>5, ElectionSendNextKeeps DEF Resume
<1> QED BY <1>3, <1>4, <1>5 DEF CalmStep

\* Whatever part of the outstanding action a crash leaves behind, the durable
\* vote only moves forward.
LEMMA CrashForward ==
    ASSUME VoteInv, NEW i \in Server, CrashRestart(i)
    PROVE  /\ hard' \in [Server -> [term : Term, vote : Id]]
           /\ \A j \in Server \ {i} : hard'[j] = hard[j]
           /\ HardForward(i)
<1>1. Shape /\ NodeInv(i)
  BY DEF VoteInv
<1>2. \/ hard' = hard
      \/ /\ action[i].type = "HARD_STATE"
         /\ hard' = [hard EXCEPT ![i] = [term |-> action[i].term,
                                         vote |-> action[i].vote]]
  BY DEF CrashRestart, Restart, PartialEffect, HostEffect, durable, Set
<1>3. CASE hard' = hard
  BY <1>1, <1>3 DEF Shape, HardForward
<1>4. CASE /\ action[i].type = "HARD_STATE"
           /\ hard' = [hard EXCEPT ![i] = [term |-> action[i].term,
                                           vote |-> action[i].vote]]
  <2>1. action[i].term \in Term /\ action[i].vote \in Id
    BY <1>1, <1>4 DEF NodeInv, Forward
  <2>2. hard' \in [Server -> [term : Term, vote : Id]]
    BY <1>1, <1>4, <2>1 DEF Shape
  <2>3. hard'[i] = [term |-> action[i].term, vote |-> action[i].vote]
    BY <1>1, <1>4 DEF Shape
  <2>4. HardForward(i)
    BY <1>1, <1>4, <2>3 DEF NodeInv, Forward, HardForward
  <2> QED BY <1>1, <1>4, <2>2, <2>4 DEF Shape
<1> QED BY <1>2, <1>3, <1>4

\* A crash and restart keeps the invariant (raft89_create).
LEMMA CrashRestartKeeps ==
    ASSUME VoteInv, NEW i \in Server, CrashRestart(i)
    PROVE  VoteInv'
<1>1. Shape /\ NodeInv(i)
  BY DEF VoteInv
<1>2. /\ currentTerm' = [currentTerm EXCEPT ![i] = hard'[i].term]
      /\ votedFor' = [votedFor EXCEPT ![i] = hard'[i].vote]
      /\ role' = [role EXCEPT ![i] = "FOLLOWER"]
      /\ votes' = [votes EXCEPT ![i] = {}]
      /\ action' = [action EXCEPT ![i] = NoAction]
      /\ step' = [step EXCEPT ![i] = "NONE"]
      /\ pendingMsg' = [pendingMsg EXCEPT ![i] = NoMsg]
  BY DEF CrashRestart, Restart, Set
<1>3. /\ hard' \in [Server -> [term : Term, vote : Id]]
      /\ \A j \in Server \ {i} : hard'[j] = hard[j]
      /\ HardForward(i)
  BY CrashForward
<1>4. hard'[i].term \in Term /\ hard'[i].vote \in Id /\ "FOLLOWER" \in Role
  BY <1>3 DEF Role
<1>5. currentTerm' \in [Server -> Term] /\ votedFor' \in [Server -> Id]
  BY <1>1, <1>2, <1>4 DEF Shape
<1>6. role' \in [Server -> Role] /\ votes' \in [Server -> SUBSET Server]
  BY <1>1, <1>2, <1>4 DEF Shape
<1>7. Shape'
  BY <1>1, <1>2, <1>3, <1>5, <1>6 DEF Shape
<1>8. Frame(i)
  BY <1>1, <1>2, <1>3 DEF Shape, Frame
<1>9. /\ currentTerm'[i] = hard'[i].term /\ votedFor'[i] = hard'[i].vote
       /\ role'[i] = "FOLLOWER" /\ action'[i] = NoAction
       /\ step'[i] = "NONE"
  BY <1>1, <1>2 DEF Shape
<1>10. NodeInv(i)'
  BY <1>9 DEF NodeInv, Coherent, Forward, Backed, Waiting, Electing,
     Supported, Elected, NoAction
<1>11. Network(i)
  BY DEF CrashRestart, Network, Outgoing
<1> QED BY <1>3, <1>7, <1>8, <1>10, <1>11, OneNodeMoves

\* A fatal acknowledgement only latches the fault.
LEMMA FatalKeepsVotes ==
    ASSUME VoteInv, NEW i \in Server, Fatal(i)
    PROVE  VoteInv' /\ UNCHANGED hard
<1>1. /\ UNCHANGED <<hard, currentTerm, votedFor, role, votes, action, step,
                     pendingMsg, msgs>>
  BY DEF Fatal, ActionFatal, durable, termVars, standing
<1>2. \A j \in Server : NodeInv(j)'
  BY <1>1 DEF VoteInv, NodeInv, Coherent, Forward, Backed, Waiting, Electing,
     Supported, Elected
<1>3. Shape' /\ AllStamped' /\ VoteBarrier' /\ OneVote'
  BY <1>1 DEF VoteInv, Shape, AllStamped, VoteBarrier, Sent, OneVote
<1> QED BY <1>1, <1>2, <1>3 DEF VoteInv

---------------------------------------------------------------------------
(* The invariant holds.                                                    *)

\* A freshly started cluster satisfies the invariant.
LEMMA VoteInvInit == Init => VoteInv
<1> SUFFICES ASSUME Init PROVE VoteInv
  OBVIOUS
<1>1. hard \in [Server -> [term : Term, vote : Id]]
  BY BootAssumption DEF Init, BootState
<1>2. currentTerm \in [Server -> Term] /\ votedFor \in [Server -> Id]
  BY <1>1 DEF Init
<1>3. Shape
  BY <1>1, <1>2 DEF Init, Shape, Role
<1>4. ASSUME NEW i \in Server
      PROVE  NodeInv(i)
  <2>1. /\ currentTerm[i] = hard[i].term /\ votedFor[i] = hard[i].vote
        /\ role[i] = "FOLLOWER" /\ action[i] = NoAction /\ step[i] = "NONE"
    BY DEF Init
  <2> QED BY <2>1 DEF NodeInv, Coherent, Forward, Backed, Waiting, Electing,
             Supported, Elected, NoAction
<1>5. AllStamped /\ VoteBarrier /\ OneVote
  BY DEF Init, AllStamped, VoteBarrier, Sent, OneVote
<1> QED BY <1>3, <1>4, <1>5 DEF VoteInv

\* Every step keeps the invariant, and no durable vote is taken back.
LEMMA VoteInvNext ==
    ASSUME VoteInv, [Next]_vars
    PROVE  VoteInv' /\ \A j \in Server : HardForward(j)
<1>1. CASE UNCHANGED vars
  <2>1. /\ UNCHANGED <<hard, currentTerm, votedFor, role, votes, action, step,
                       pendingMsg, msgs>>
    BY <1>1 DEF vars, nodeVars, durable, termVars, standing, control
  <2>2. \A j \in Server : NodeInv(j)'
    BY <2>1 DEF VoteInv, NodeInv, Coherent, Forward, Backed, Waiting, Electing,
       Supported, Elected
  <2>3. Shape' /\ AllStamped' /\ VoteBarrier' /\ OneVote'
    BY <2>1 DEF VoteInv, Shape, AllStamped, VoteBarrier, Sent, OneVote
  <2> QED BY <2>1, <2>2, <2>3 DEF VoteInv, HardForward
<1>2. ASSUME NEW i \in Server, Receive(i)
      PROVE  VoteInv' /\ UNCHANGED hard
  BY <1>2, RecvKeepsVotes DEF Receive, Recv, durable
<1>3. ASSUME NEW i \in Server, Timeout(i)
      PROVE  VoteInv' /\ UNCHANGED hard
  BY <1>3, TickKeepsVotes DEF Timeout, Tick, durable
<1>4. ASSUME NEW i \in Server, ClientRequest(i)
      PROVE  VoteInv' /\ UNCHANGED hard
  BY <1>4, ProposeKeepsVotes DEF ClientRequest, Propose, durable
<1>5. ASSUME NEW i \in Server, Done(i)
      PROVE  VoteInv' /\ \A j \in Server : HardForward(j)
  <2>1. Acked(i)
    BY <1>5 DEF Done, ActionDone, HostEffect, ApplyHardState, termVars, Acked
  <2>2. \A j \in Server : HardForward(j)
    BY <2>1, AckedForward DEF HardForward
  <2> QED BY <1>5, <2>2, DoneKeepsVotes
<1>6. ASSUME NEW i \in Server, Fatal(i)
      PROVE  VoteInv' /\ UNCHANGED hard
  BY <1>6, FatalKeepsVotes
<1>7. ASSUME NEW i \in Server, CrashRestart(i)
      PROVE  VoteInv' /\ \A j \in Server : HardForward(j)
  BY <1>7, CrashRestartKeeps, CrashForward DEF HardForward
<1>8. UNCHANGED hard => \A j \in Server : HardForward(j)
  BY DEF HardForward
<1> QED BY <1>1, <1>2, <1>3, <1>4, <1>5, <1>6, <1>7, <1>8 DEF Next

\* VoteInv is an invariant of the cluster.
THEOREM VoteInvariance == Spec => []VoteInv
<1>1. VoteInv /\ [Next]_vars => VoteInv'
  BY VoteInvNext
<1> QED BY <1>1, VoteInvInit, PTL DEF Spec

\* A granted vote on the network is durable and stays the vote of its term,
\* for every membership and through every crash (persist_vote_then_reply).
THEOREM VoteBarrierHolds == Spec => []VoteBarrier
<1>1. VoteInv => VoteBarrier
  BY DEF VoteInv
<1> QED BY <1>1, VoteInvariance, PTL

\* The durable term never goes back and a durable vote is never changed within
\* its term (raft89__emit_hard_state, raft89__node_load).
THEOREM VoteStableHolds == Spec => VoteStable
<1>1. ASSUME VoteInv, [Next]_vars, NEW i \in Server
      PROVE  \/ hard'[i].term > hard[i].term
             \/ /\ hard'[i].term = hard[i].term
                /\ hard[i].vote \in {NoId, hard'[i].vote}
  BY <1>1, VoteInvNext DEF HardForward
<1>2. VoteInv /\ [Next]_vars =>
        [\A i \in Server :
            \/ hard'[i].term > hard[i].term
            \/ /\ hard'[i].term = hard[i].term
               /\ hard[i].vote \in {NoId, hard'[i].vote}]_vars
  BY <1>1
<1> QED BY <1>2, VoteInvariance, PTL DEF Spec, VoteStable

---------------------------------------------------------------------------
(* Two leaders of one term would share a voter.                            *)

\* Two quorums intersect (raft89__quorum).
LEMMA QuorumsMeet ==
    ASSUME NEW A \in SUBSET Server, NEW B \in SUBSET Server,
           IsQuorum(Cardinality(A)), IsQuorum(Cardinality(B))
    PROVE  A \cap B # {}
<1>1. /\ IsFiniteSet(A) /\ IsFiniteSet(B) /\ IsFiniteSet(A \cup B)
      /\ Cardinality(A \cup B) <= Cardinality(Server)
  <2>1. A \cup B \in SUBSET Server
    OBVIOUS
  <2> QED BY <2>1, ServerAssumption, FS_Subset
<1>2. /\ Cardinality(A) \in Nat /\ Cardinality(B) \in Nat
      /\ Cardinality(Server) \in Nat /\ Cardinality(A \cup B) \in Nat
  BY <1>1, ServerAssumption, FS_CardinalityType
<1>3. Cardinality(A \cup B) =
        Cardinality(A) + Cardinality(B) - Cardinality(A \cap B)
  BY <1>1, FS_Union
<1>4. ASSUME A \cap B = {}
      PROVE  FALSE
  <2>1. Cardinality(A \cap B) = 0
    BY <1>4, FS_EmptySet
  <2> QED BY <1>1, <1>2, <1>3, <2>1 DEF IsQuorum
<1> QED BY <1>4

\* Two leaders of one term are the same node.
LEMMA OneLeader ==
    ASSUME VoteInv, NEW i \in Server, NEW j \in Server,
           role[i] = "LEADER", role[j] = "LEADER",
           currentTerm[i] = currentTerm[j]
    PROVE  i = j
<1>1. /\ Shape /\ NodeInv(i) /\ NodeInv(j)
      /\ action[i].type # "HARD_STATE" /\ action[j].type # "HARD_STATE"
  BY DEF VoteInv, NodeInv, Forward
<1>2. PICK k \in Server : k \in votes[i] /\ k \in votes[j]
  <2>1. /\ votes[i] \in SUBSET Server /\ votes[j] \in SUBSET Server
        /\ IsQuorum(Cardinality(votes[i])) /\ IsQuorum(Cardinality(votes[j]))
    BY <1>1 DEF Shape, NodeInv, Elected
  <2> QED BY <2>1, QuorumsMeet
\* A vote of one leader for the other contradicts its own vote.
<1>3. ASSUME NEW a \in Server, NEW b \in Server, a # b,
             role[a] = "LEADER", role[b] = "LEADER",
             currentTerm[a] = currentTerm[b], a \in votes[b]
      PROVE  FALSE
  <2>1. /\ Supported(a) /\ Supported(b) /\ Coherent(a)
        /\ action[a].type # "HARD_STATE" /\ action[b].type # "HARD_STATE"
    BY <1>3 DEF VoteInv, NodeInv, Forward
  <2>2. PICK m \in msgs : /\ Granted(m) /\ m.from = a /\ m.to = b
                          /\ m.term = currentTerm[b]
    BY <1>3, <2>1 DEF Supported
  <2>3. /\ hard[a].term = currentTerm[a] /\ hard[a].vote = a
        /\ currentTerm[a] \in Term
    BY <1>1, <1>3, <2>1 DEF Supported, Coherent, Shape
  <2>4. \/ hard[a].term > m.term
        \/ hard[a] = [term |-> m.term, vote |-> m.to]
    BY <2>2 DEF VoteInv, VoteBarrier, Sent, Granted
  <2>5. ~(hard[a].term > m.term)
    BY <1>3, <2>2, <2>3, LimitAssumption DEF Term
  <2>6. hard[a].vote = m.to
    BY <2>4, <2>5
  <2> QED BY <1>3, <2>2, <2>3, <2>6
<1>4. CASE k = i \/ k = j
  BY <1>2, <1>3, <1>4
<1>5. CASE k # i /\ k # j
  <2>1. PICK m \in msgs : /\ Granted(m) /\ m.from = k /\ m.to = i
                          /\ m.term = currentTerm[i]
    BY <1>1, <1>2, <1>5 DEF NodeInv, Supported
  <2>2. PICK n \in msgs : /\ Granted(n) /\ n.from = k /\ n.to = j
                          /\ n.term = currentTerm[j]
    BY <1>1, <1>2, <1>5 DEF NodeInv, Supported
  <2> QED BY <2>1, <2>2 DEF VoteInv, OneVote
<1> QED BY <1>4, <1>5

\* No two nodes lead the same term, for every membership, whatever the
\* network and the hosts do (raft89__become_leader).
THEOREM ElectionSafetyHolds == Spec => []ElectionSafety
<1>1. VoteInv => ElectionSafety
  BY OneLeader DEF ElectionSafety
<1> QED BY <1>1, VoteInvariance, PTL

---------------------------------------------------------------------------
(* One node.                                                             *)

\* The log never outgrows the index type, and the positions are ordered.
Ordered(i) ==
    /\ Len(log[i]) <= IndexMax
    /\ appliedIndex[i] <= commitIndex[i]
    /\ commitIndex[i] <= lastIndex[i]

\* The cached end of the log is the end of the log.
EndKnown(i) ==
    /\ lastIndex[i] = Len(log[i])
    /\ lastTerm[i] = LastTermOf(log[i])

\* What i believes of its hard state is what is durable.
HardKnown(i) == hard[i] = [term |-> currentTerm[i], vote |-> votedFor[i]]

\* The outstanding action fits the log and the positions it is about.
ActionFits(i) ==
    LET a == action[i]
    IN  /\ a.type = "LOG_APPEND" =>
             /\ a.first = Len(log[i]) + 1
             /\ a.entries # << >>
             /\ Len(log[i]) + Len(a.entries) <= IndexMax
        /\ a.type = "LOG_TRUNCATE" =>
             /\ a.first > commitIndex[i]
             /\ a.first <= Len(log[i])
        /\ a.type = "APPLY" =>
             /\ a.index = appliedIndex[i] + 1
             /\ a.index <= commitIndex[i]

\* A stashed request has a sender to reply to and entries within the limit.
Stashed(i) ==
    /\ ae[i].leader \in Server
    /\ ae[i].prev + Len(pending[i]) <= IndexMax

\* The continuations an action may have.
StepsOf(type) ==
    CASE type = "NONE"         -> {"NONE", "AE_HARD_STATE"}
      [] type = "SEND"         -> {"NONE", "AE_HARD_STATE",
                                   "LEADER_BROADCAST", "ELECTION_BROADCAST"}
      [] type = "HARD_STATE"   -> {"ELECTION_BROADCAST", "VOTE_RESPONSE",
                                   "STEP_DOWN", "AE_HARD_STATE"}
      [] type = "LOG_APPEND"   -> {"LEADER_APPEND", "AE_APPEND"}
      [] type = "LOG_TRUNCATE" -> {"AE_TRUNCATE"}
      [] OTHER                 -> {"APPLY"}

\* The continuation finds the data it needs when the action is acknowledged.
StepFits(i) ==
    LET a == action[i]
    IN  /\ step[i] \in StepsOf(a.type)
        /\ step[i] = "VOTE_RESPONSE" => pendingMsg[i] \in VoteResponseMsg
        /\ step[i] = "AE_HARD_STATE" => Stashed(i)
        /\ step[i] = "LEADER_APPEND" => a.entries = pending[i]
        /\ step[i] = "AE_TRUNCATE" =>
             /\ Stashed(i)
             /\ ae[i].truncate = a.first
             /\ ae[i].prev + ae[i].offset + 1 = a.first
             /\ ae[i].offset < Len(pending[i])
        /\ step[i] = "AE_APPEND" =>
             /\ Stashed(i)
             /\ ae[i].prev + Len(pending[i]) = Len(log[i]) + Len(a.entries)
        /\ step[i] = "APPLY" /\ afterApply[i] = "AE_REPLY" =>
             ae[i].leader \in Server

\* The inductive invariant of one node.
LocalInv(i) ==
    /\ Ordered(i)
    /\ ActionFits(i)
    /\ ~faulted[i] => EndKnown(i) /\ HardKnown(i) /\ StepFits(i)

\* The inductive invariant of every node.
NodesInv == TypeOK /\ \A i \in Server : LocalInv(i)

---------------------------------------------------------------------------
(* Data.                                                                   *)

\* The limits are natural numbers.
LEMMA Limits ==
    TermMax \in Nat /\ IndexMax \in Nat /\ MaxAppendEntries \in Nat
BY LimitAssumption

\* A SEND action of a message is an action.
LEMMA SendTyped ==
    ASSUME NEW m \in Message
    PROVE  Send(m) \in Action /\ Send(m).type = "SEND"
BY DEF Send, Action

\* A HARD_STATE action of a term and a vote is an action.
LEMMA HardStateTyped ==
    ASSUME NEW t \in Term, NEW v \in Id
    PROVE  HardState(t, v) \in Action /\ HardState(t, v).type = "HARD_STATE"
BY DEF HardState, Action

\* A LOG_APPEND action of entries is an action.
LEMMA LogAppendTyped ==
    ASSUME NEW k \in Index, NEW es \in Seq(Entry)
    PROVE  /\ LogAppend(k, es) \in Action
           /\ LogAppend(k, es).type = "LOG_APPEND"
           /\ LogAppend(k, es).first = k
           /\ LogAppend(k, es).entries = es
BY DEF LogAppend, Action

\* A LOG_TRUNCATE action of an index is an action.
LEMMA LogTruncateTyped ==
    ASSUME NEW k \in Index
    PROVE  /\ LogTruncate(k) \in Action
           /\ LogTruncate(k).type = "LOG_TRUNCATE"
           /\ LogTruncate(k).first = k
BY DEF LogTruncate, Action

\* An APPLY action of an entry is an action.
LEMMA ApplyTyped ==
    ASSUME NEW k \in Index, NEW e \in Entry
    PROVE  /\ Apply(k, e) \in Action
           /\ Apply(k, e).type = "APPLY"
           /\ Apply(k, e).index = k
BY DEF Apply, Action

\* No action is an action.
LEMMA NoActionTyped == NoAction \in Action /\ NoAction.type = "NONE"
BY DEF NoAction, Action

\* What an action of each type consists of.
LEMMA ActionFields ==
    ASSUME NEW a \in Action
    PROVE  /\ a.type \in {"NONE", "SEND", "HARD_STATE", "LOG_APPEND",
                          "LOG_TRUNCATE", "APPLY"}
           /\ a.type = "NONE" => a = NoAction
           /\ a.type = "SEND" => a.msg \in Message
           /\ a.type = "HARD_STATE" => a.term \in Term /\ a.vote \in Id
           /\ a.type = "LOG_APPEND" =>
                a.first \in Index /\ a.entries \in Seq(Entry)
           /\ a.type = "LOG_TRUNCATE" => a.first \in Index
           /\ a.type = "APPLY" => a.index \in Index /\ a.entry \in Entry
BY DEF Action, NoAction

\* What a message of each type consists of.
LEMMA MessageFields ==
    ASSUME NEW m \in Message
    PROVE  /\ m.type \in {"RV", "RVR", "AE", "AER"}
           /\ m.from \in Server /\ m.to \in Server /\ m.term \in Term
           /\ m.type = "RV" => m.lastIndex \in Index /\ m.lastTerm \in Term
           /\ m.type = "RVR" => m.granted \in BOOLEAN
           /\ m.type = "AE" =>
                /\ m.prev \in Index /\ m.prevTerm \in Term
                /\ m.commit \in Index /\ m.entries \in Seq(Entry)
           /\ m.type = "AER" =>
                /\ m.success \in BOOLEAN /\ m.match \in Index
                /\ m.conflictTerm \in Term /\ m.conflictIndex \in Index
<1>1. CASE m \in RequestVoteMsg
  BY <1>1 DEF RequestVoteMsg
<1>2. CASE m \in VoteResponseMsg
  BY <1>2 DEF VoteResponseMsg
<1>3. CASE m \in AppendEntriesMsg
  BY <1>3 DEF AppendEntriesMsg
<1>4. CASE m \in AppendResponseMsg
  BY <1>4 DEF AppendResponseMsg
<1> QED BY <1>1, <1>2, <1>3, <1>4 DEF Message

\* A vote request of typed fields is a message.
LEMMA RequestVoteTyped ==
    ASSUME NEW i \in Server, NEW j \in Server, NEW t \in Term,
           NEW k \in Index, NEW u \in Term
    PROVE  RequestVote(i, j, t, k, u) \in Message
BY DEF RequestVote, RequestVoteMsg, Message

\* A vote response of typed fields is a message.
LEMMA VoteResponseTyped ==
    ASSUME NEW i \in Server, NEW j \in Server, NEW t \in Term,
           NEW g \in BOOLEAN
    PROVE  /\ VoteResponse(i, j, t, g) \in VoteResponseMsg
           /\ VoteResponse(i, j, t, g) \in Message
BY DEF VoteResponse, VoteResponseMsg, Message

\* An AppendEntries request of typed fields is a message.
LEMMA AppendEntriesTyped ==
    ASSUME NEW i \in Server, NEW j \in Server, NEW t \in Term,
           NEW p \in Index, NEW u \in Term, NEW c \in Index,
           NEW es \in Seq(Entry)
    PROVE  AppendEntries(i, j, t, p, u, c, es) \in Message
BY DEF AppendEntries, AppendEntriesMsg, Message

\* An AppendEntries response of typed fields is a message.
LEMMA AppendResponseTyped ==
    ASSUME NEW i \in Server, NEW j \in Server, NEW t \in Term,
           NEW g \in BOOLEAN, NEW m \in Index, NEW u \in Term,
           NEW c \in Index
    PROVE  AppendResponse(i, j, t, g, m, u, c) \in Message
BY DEF AppendResponse, AppendResponseMsg, Message

\* raft89_u64.c: wrapping steps stay within the width.
LEMMA IncDec ==
    ASSUME NEW k \in Index
    PROVE  /\ Inc(k) \in Index /\ Dec(k) \in Index
           /\ k < IndexMax => Inc(k) = k + 1
           /\ k > 0 => Dec(k) = k - 1
BY Limits DEF Inc, Dec, Index

\* An entry of a log, and its term.
LEMMA EntryTerm ==
    ASSUME NEW l \in Seq(Entry), NEW k \in 1..Len(l)
    PROVE  l[k] \in Entry /\ l[k].term \in Term
<1>1. l[k] \in Entry
  BY ElementOfSeq
<1> QED BY <1>1 DEF Entry

\* Any stretch of a log, in bounds or empty, is a sequence of entries.
LEMMA SubSeqTyped ==
    ASSUME NEW l \in Seq(Entry), NEW a \in Nat \ {0}, NEW b \in Int,
           b <= Len(l)
    PROVE  SubSeq(l, a, b) \in Seq(Entry)
<1>1. CASE a <= b
  BY <1>1, SubSeqProperties
<1>2. CASE ~(a <= b)
  BY <1>2, SubSeqEmpty, EmptySeq
<1> QED BY <1>1, <1>2

---------------------------------------------------------------------------
(* How a step of node i moves each group of variables: they keep their     *)
(* types and the other nodes' values.                                      *)

\* Only node i's hard state and log move.
DurableMoves(i) ==
    /\ hard' \in [Server -> [term : Term, vote : Id]]
    /\ log' \in [Server -> Seq(Entry)]
    /\ app' \in [Server -> Seq(Entry)]
    /\ \A j \in Server \ {i} : hard'[j] = hard[j] /\ log'[j] = log[j]

\* Only node i's term and vote move.
TermMoves(i) ==
    /\ currentTerm' \in [Server -> Term]
    /\ votedFor' \in [Server -> Id]
    /\ \A j \in Server \ {i} :
          currentTerm'[j] = currentTerm[j] /\ votedFor'[j] = votedFor[j]

\* Role, leader and votes keep their types.
StandingTyped ==
    /\ role' \in [Server -> Role]
    /\ leaderId' \in [Server -> Id]
    /\ votes' \in [Server -> SUBSET Server]

\* Only node i's last index and term move.
LastMoves(i) ==
    /\ lastIndex' \in [Server -> Index]
    /\ lastTerm' \in [Server -> Term]
    /\ \A j \in Server \ {i} :
          lastIndex'[j] = lastIndex[j] /\ lastTerm'[j] = lastTerm[j]

\* Only node i's commit and apply progress moves.
ProgressMoves(i) ==
    /\ commitIndex' \in [Server -> Index]
    /\ appliedIndex' \in [Server -> Index]
    /\ afterApply' \in [Server -> {"NONE", "AE_REPLY"}]
    /\ \A j \in Server \ {i} :
          /\ commitIndex'[j] = commitIndex[j]
          /\ appliedIndex'[j] = appliedIndex[j]
          /\ afterApply'[j] = afterApply[j]

\* The leader's view of its peers keeps its type.
PeersTyped ==
    /\ nextIndex' \in [Server -> [Server -> Index]]
    /\ matchIndex' \in [Server -> [Server -> Index]]

\* The broadcast cursor keeps its type.
CursorTyped == cursor' \in [Server -> Nat]

\* Only node i's control state moves.
ControlMoves(i) ==
    /\ faulted' \in [Server -> BOOLEAN]
    /\ action' \in [Server -> Action]
    /\ step' \in [Server -> Step]
    /\ \A j \in Server \ {i} :
          /\ faulted'[j] = faulted[j]
          /\ action'[j] = action[j]
          /\ step'[j] = step[j]

\* Only node i's pending vote response moves.
PendingMoves(i) ==
    /\ pendingMsg' \in [Server -> VoteResponseMsg \union {NoMsg}]
    /\ \A j \in Server \ {i} : pendingMsg'[j] = pendingMsg[j]

\* Only node i's stashed request and pending entries move.
StashMoves(i) ==
    /\ ae' \in [Server -> Stash]
    /\ pending' \in [Server -> Seq(Entry)]
    /\ \A j \in Server \ {i} : ae'[j] = ae[j] /\ pending'[j] = pending[j]

\* The outcome of a call on the volatile state.
Moves(i) ==
    /\ StandingTyped /\ LastMoves(i) /\ ProgressMoves(i) /\ PeersTyped
    /\ CursorTyped /\ ControlMoves(i) /\ PendingMoves(i) /\ StashMoves(i)

\* A group of variables that does not change moves properly.
LEMMA UnchangedMoves ==
    ASSUME TypeOK, NEW i \in Server
    PROVE  /\ UNCHANGED durable => DurableMoves(i)
           /\ UNCHANGED termVars => TermMoves(i)
           /\ UNCHANGED standing => StandingTyped
           /\ UNCHANGED lastLog => LastMoves(i)
           /\ UNCHANGED progress => ProgressMoves(i)
           /\ UNCHANGED peerView => PeersTyped
           /\ UNCHANGED cursor => CursorTyped
           /\ UNCHANGED control => ControlMoves(i)
           /\ UNCHANGED pendingMsg => PendingMoves(i)
           /\ UNCHANGED stash => StashMoves(i)
BY DEF TypeOK, durable, termVars, standing, lastLog, progress, peerView,
   control, stash, DurableMoves, TermMoves, StandingTyped, LastMoves,
   ProgressMoves, PeersTyped, CursorTyped, ControlMoves, PendingMoves,
   StashMoves

\* A step of node i keeps the invariant if node i does.
LEMMA NodesKept ==
    ASSUME NodesInv, NEW i \in Server, DurableMoves(i), TermMoves(i),
           Moves(i), LocalInv(i)', msgs' \in SUBSET Message
    PROVE  NodesInv'
<1>1. TypeOK'
  BY DEF TypeOK, DurableMoves, TermMoves, Moves, StandingTyped, LastMoves,
     ProgressMoves, PeersTyped, CursorTyped, ControlMoves, PendingMoves,
     StashMoves
<1>2. ASSUME NEW j \in Server \ {i}
      PROVE  LocalInv(j)'
  <2>1. LocalInv(j)
    BY DEF NodesInv
  <2>2. /\ hard'[j] = hard[j] /\ log'[j] = log[j]
        /\ currentTerm'[j] = currentTerm[j] /\ votedFor'[j] = votedFor[j]
        /\ lastIndex'[j] = lastIndex[j] /\ lastTerm'[j] = lastTerm[j]
        /\ commitIndex'[j] = commitIndex[j]
        /\ appliedIndex'[j] = appliedIndex[j]
        /\ afterApply'[j] = afterApply[j]
        /\ faulted'[j] = faulted[j] /\ action'[j] = action[j]
        /\ step'[j] = step[j] /\ pendingMsg'[j] = pendingMsg[j]
        /\ ae'[j] = ae[j] /\ pending'[j] = pending[j]
    BY DEF DurableMoves, TermMoves, Moves, LastMoves, ProgressMoves,
       ControlMoves, PendingMoves, StashMoves
  <2>3. Ordered(j)' /\ ActionFits(j)'
    BY <2>1, <2>2 DEF LocalInv, Ordered, ActionFits
  <2>4. ~faulted'[j] => EndKnown(j)' /\ HardKnown(j)'
    BY <2>1, <2>2 DEF LocalInv, EndKnown, HardKnown
  <2>5. ~faulted'[j] => StepFits(j)'
    BY <2>1, <2>2 DEF LocalInv, StepFits, Stashed
  <2> QED BY <2>3, <2>4, <2>5 DEF LocalInv
<1> QED BY <1>1, <1>2 DEF NodesInv

---------------------------------------------------------------------------
(* How a call ends.                                                        *)

\* Everything but the action and the continuation is in place.
Settled(i) == Ordered(i)' /\ EndKnown(i)' /\ HardKnown(i)'

\* A handler ended with node i's invariant in force.
Ended(i) == ControlMoves(i) /\ LocalInv(i)'

\* What emitting an action does.
LEMMA EmitMoves ==
    ASSUME TypeOK, NEW i \in Server, NEW a \in Action, NEW s \in Step,
           Emit(i, a, s)
    PROVE  /\ ControlMoves(i)
           /\ action'[i] = a /\ step'[i] = s /\ faulted'[i] = faulted[i]
BY DEF TypeOK, Emit, Set, ControlMoves

\* A call that latches a fault ends well.
LEMMA EndsFault ==
    ASSUME TypeOK, NEW i \in Server, NEW s \in Step, Fault(i, s), Ordered(i)'
    PROVE  Ended(i)
<1>1. /\ ControlMoves(i)
      /\ action'[i] = NoAction /\ faulted'[i]
  BY NoActionTyped DEF TypeOK, Fault, Set, ControlMoves
<1>2. ActionFits(i)'
  BY <1>1, NoActionTyped DEF ActionFits
<1> QED BY <1>1, <1>2 DEF Ended, LocalInv

\* A call that returns idle ends well.
LEMMA EndsIdle ==
    ASSUME TypeOK, NEW i \in Server, NEW s \in {"NONE", "AE_HARD_STATE"},
           Return(i, s), Settled(i),
           s = "AE_HARD_STATE" => Stashed(i)'
    PROVE  Ended(i)
<1>1. ControlMoves(i) /\ action'[i] = NoAction /\ step'[i] = s
  BY EmitMoves, NoActionTyped DEF Return, Step
<1>2. ActionFits(i)'
  BY <1>1, NoActionTyped DEF ActionFits
<1>3. StepFits(i)'
  BY <1>1, NoActionTyped DEF StepFits, StepsOf
<1> QED BY <1>1, <1>2, <1>3 DEF Ended, Settled, LocalInv

\* A call that sends a message ends well.
LEMMA EndsSend ==
    ASSUME TypeOK, NEW i \in Server, NEW m \in Message,
           NEW s \in {"NONE", "AE_HARD_STATE", "LEADER_BROADCAST",
                      "ELECTION_BROADCAST"},
           Emit(i, Send(m), s), Settled(i),
           s = "AE_HARD_STATE" => Stashed(i)'
    PROVE  Ended(i)
<1>1. ControlMoves(i) /\ action'[i] = Send(m) /\ step'[i] = s
  BY EmitMoves, SendTyped DEF Step
<1>2. action'[i].type = "SEND"
  BY <1>1, SendTyped
<1>3. ActionFits(i)'
  BY <1>2 DEF ActionFits
<1>4. StepFits(i)'
  BY <1>1, <1>2 DEF StepFits, StepsOf
<1> QED BY <1>1, <1>3, <1>4 DEF Ended, Settled, LocalInv

\* A call that persists a hard state ends well.
LEMMA EndsHardState ==
    ASSUME TypeOK, NEW i \in Server, NEW t \in Term, NEW v \in Id,
           NEW s \in {"ELECTION_BROADCAST", "VOTE_RESPONSE", "STEP_DOWN",
                      "AE_HARD_STATE"},
           Emit(i, HardState(t, v), s), Settled(i),
           s = "VOTE_RESPONSE" => pendingMsg'[i] \in VoteResponseMsg,
           s = "AE_HARD_STATE" => Stashed(i)'
    PROVE  Ended(i)
<1>1. ControlMoves(i) /\ action'[i] = HardState(t, v) /\ step'[i] = s
  BY EmitMoves, HardStateTyped DEF Step
<1>2. action'[i].type = "HARD_STATE"
  BY <1>1, HardStateTyped
<1>3. ActionFits(i)'
  BY <1>2 DEF ActionFits
<1>4. StepFits(i)'
  BY <1>1, <1>2 DEF StepFits, StepsOf
<1> QED BY <1>1, <1>3, <1>4 DEF Ended, Settled, LocalInv

\* A call that applies the next committed entry ends well.
LEMMA EndsApply ==
    ASSUME TypeOK, NEW i \in Server, NEW k \in Index, NEW e \in Entry,
           Emit(i, Apply(k, e), "APPLY"), Settled(i),
           k = appliedIndex'[i] + 1, k <= commitIndex'[i],
           afterApply'[i] = "AE_REPLY" => ae'[i].leader \in Server
    PROVE  Ended(i)
<1>1. ControlMoves(i) /\ action'[i] = Apply(k, e) /\ step'[i] = "APPLY"
  BY EmitMoves, ApplyTyped DEF Step
<1>2. action'[i].type = "APPLY" /\ action'[i].index = k
  BY <1>1, ApplyTyped
<1>3. ActionFits(i)'
  BY <1>2 DEF ActionFits
<1>4. StepFits(i)'
  BY <1>1, <1>2 DEF StepFits, StepsOf
<1> QED BY <1>1, <1>3, <1>4 DEF Ended, Settled, LocalInv

\* A call that appends at the end of the log ends well.
LEMMA EndsAppend ==
    ASSUME TypeOK, NEW i \in Server, NEW k \in Index, NEW es \in Seq(Entry),
           NEW s \in {"LEADER_APPEND", "AE_APPEND"},
           Emit(i, LogAppend(k, es), s), Settled(i),
           k = Len(log'[i]) + 1, es # << >>,
           Len(log'[i]) + Len(es) <= IndexMax,
           s = "LEADER_APPEND" => es = pending'[i],
           s = "AE_APPEND" =>
               /\ Stashed(i)'
               /\ ae'[i].prev + Len(pending'[i]) = Len(log'[i]) + Len(es)
    PROVE  Ended(i)
<1>1. ControlMoves(i) /\ action'[i] = LogAppend(k, es) /\ step'[i] = s
  BY EmitMoves, LogAppendTyped DEF Step
<1>2. /\ action'[i].type = "LOG_APPEND"
      /\ action'[i].first = k /\ action'[i].entries = es
  BY <1>1, LogAppendTyped
<1>3. ActionFits(i)'
  BY <1>2 DEF ActionFits
<1>4. StepFits(i)'
  BY <1>1, <1>2 DEF StepFits, StepsOf
<1> QED BY <1>1, <1>3, <1>4 DEF Ended, Settled, LocalInv

\* A call that truncates above the commit index ends well.
LEMMA EndsTruncate ==
    ASSUME TypeOK, NEW i \in Server, NEW k \in Index,
           Emit(i, LogTruncate(k), "AE_TRUNCATE"), Settled(i),
           k > commitIndex'[i], k <= Len(log'[i]),
           Stashed(i)', ae'[i].truncate = k,
           ae'[i].prev + ae'[i].offset + 1 = k,
           ae'[i].offset < Len(pending'[i])
    PROVE  Ended(i)
<1>1. /\ ControlMoves(i)
      /\ action'[i] = LogTruncate(k) /\ step'[i] = "AE_TRUNCATE"
  BY EmitMoves, LogTruncateTyped DEF Step
<1>2. action'[i].type = "LOG_TRUNCATE" /\ action'[i].first = k
  BY <1>1, LogTruncateTyped
<1>3. ActionFits(i)'
  BY <1>2 DEF ActionFits
<1>4. StepFits(i)'
  BY <1>1, <1>2 DEF StepFits, StepsOf
<1> QED BY <1>1, <1>3, <1>4 DEF Ended, Settled, LocalInv

---------------------------------------------------------------------------
(* What commit, apply and replication do within a call.                    *)

\* A handler of node i runs: the host effect, if any, has taken place.
Called(i) ==
    /\ "nomem" \notin Faults
    /\ TypeOK /\ DurableMoves(i) /\ TermMoves(i)
    /\ ~faulted[i] /\ Ordered(i)
    /\ Len(log'[i]) <= IndexMax
    /\ HardKnown(i)'

\* The log is known and committed within its bounds when the call returns.
LogReady(i) == EndKnown(i)' /\ commitIndex[i] <= lastIndex'[i]

\* What a handler may rely on.
LEMMA CalledFacts ==
    ASSUME NEW i \in Server, Called(i)
    PROVE  /\ log'[i] \in Seq(Entry) /\ Len(log'[i]) \in Nat
           /\ Len(log'[i]) <= IndexMax
           /\ currentTerm'[i] \in Term
           /\ commitIndex[i] \in Index /\ appliedIndex[i] \in Index
           /\ appliedIndex[i] <= commitIndex[i]
           /\ step[i] \in Step
BY LenProperties DEF Called, TypeOK, DurableMoves, TermMoves, Ordered

\* emit_next_apply applies an entry of the log or faults.
LEMMA NextApply ==
    ASSUME NEW i \in Server, Called(i), NEW k \in Index, NEW s,
           EmitNextApply(i, k, s)
    PROVE  \/ \E e \in Entry : Emit(i, Apply(k, e), "APPLY")
           \/ Fault(i, s)
<1>1. CASE Readable(i, k) /\ Emit(i, Apply(k, log'[i][k]), "APPLY")
  <2>1. log'[i][k] \in Entry
    BY <1>1, CalledFacts, EntryTerm DEF Readable
  <2> QED BY <1>1, <2>1
<1> QED BY <1>1 DEF EmitNextApply, Called

\* raft89__advance_commit within the log ends well.
LEMMA AdvanceEnds ==
    ASSUME NEW i \in Server, Called(i), EndKnown(i)',
           NEW k \in Index, k > commitIndex[i], k <= lastIndex'[i],
           NEW after \in {"NONE", "AE_REPLY"}, NEW s \in Step,
           AdvanceCommit(i, k, after, s),
           after = "AE_REPLY" => ae'[i].leader \in Server
    PROVE  ProgressMoves(i) /\ Ended(i)
<1>1. /\ ProgressMoves(i)
      /\ commitIndex'[i] = k /\ appliedIndex'[i] = appliedIndex[i]
      /\ afterApply'[i] = after
  BY DEF AdvanceCommit, Called, TypeOK, Set, ProgressMoves
<1>2. Settled(i)
  BY <1>1, CalledFacts, Limits DEF Called, Settled, Ordered, Index
<1>3. /\ Inc(appliedIndex[i]) = appliedIndex[i] + 1
      /\ Inc(appliedIndex[i]) \in Index /\ Inc(appliedIndex[i]) <= k
  <2>1. /\ appliedIndex[i] \in Index /\ appliedIndex[i] < IndexMax
        /\ appliedIndex[i] + 1 <= k
    BY CalledFacts, Limits DEF Index
  <2> QED BY <2>1, IncDec
<1>4. EmitNextApply(i, Inc(appliedIndex[i]), s)
  BY DEF AdvanceCommit
<1>5. CASE \E e \in Entry : Emit(i, Apply(Inc(appliedIndex[i]), e), "APPLY")
  BY <1>1, <1>2, <1>3, <1>5, EndsApply DEF Called
<1>6. CASE Fault(i, s)
  BY <1>1, <1>2, <1>6, EndsFault DEF Called, Settled
<1> QED BY <1>1, <1>3, <1>4, <1>5, <1>6, NextApply

\* raft89__leader_maybe_commit commits within the log.
LEMMA CommitEnds ==
    ASSUME NEW i \in Server, Called(i), LogReady(i), lastIndex'[i] \in Index,
           NEW s \in {"NONE", "AE_HARD_STATE"},
           s = "AE_HARD_STATE" => Stashed(i)',
           LeaderMaybeCommit(i, s)
    PROVE  ProgressMoves(i) /\ Ended(i)
<1>1. CASE UNCHANGED progress /\ (Return(i, s) \/ Fault(i, s))
  <2>1. ProgressMoves(i) /\ Settled(i)
    BY <1>1, UnchangedMoves, CalledFacts
       DEF Called, progress, Settled, Ordered, LogReady
  <2> QED BY <1>1, <2>1, EndsIdle, EndsFault DEF Called, Settled, Step
<1>2. ASSUME NEW k \in commitIndex[i]+1..lastIndex'[i],
             AdvanceCommit(i, k, "NONE", s)
      PROVE  ProgressMoves(i) /\ Ended(i)
  <2>1. k \in Index /\ k > commitIndex[i] /\ k <= lastIndex'[i] /\ s \in Step
    BY CalledFacts, Limits DEF Index, Step
  <2> QED BY <1>2, <2>1, AdvanceEnds DEF LogReady
<1> QED BY <1>1, <1>2, CalledFacts, Limits DEF LeaderMaybeCommit, Index

\* An AppendEntries of the leader is well-formed, or the node faults: a next
\* index that has wrapped to zero points at a previous entry out of reach.
LEMMA LeaderSends ==
    ASSUME NEW i \in Server, Called(i), NEW j \in Server, NEW s,
           EndKnown(i)', nextIndex'[i][j] \in Index,
           LeaderSendTo(i, j, s)
    PROVE  \/ \E m \in Message : Emit(i, Send(m), s)
           \/ Fault(i, s)
<1> DEFINE next == nextIndex'[i][j]
           prev == Dec(next)
           last == Len(log'[i])
<1>1. next \in Index /\ prev \in Index /\ lastIndex'[i] = last
  BY IncDec DEF EndKnown
<1>a. last \in Nat /\ last <= IndexMax
  BY CalledFacts
<1>2. ASSUME NEW n \in 0..MaxAppendEntries, IsBatch(i, next, n),
             prev # 0 => Readable(i, prev),
             Emit(i, Send(AppendEntries(i, j, currentTerm'[i], prev,
                             TermAt(i, prev), commitIndex[i],
                             BatchOf(i, next, n))), s)
      PROVE  \E m \in Message : Emit(i, Send(m), s)
  <2>1. TermAt(i, prev) \in Term
    <3>1. CASE prev = 0
      BY <3>1, Limits DEF TermAt, Term
    <3>2. CASE prev # 0
      BY <1>2, <3>2, CalledFacts, EntryTerm DEF TermAt, Readable
    <3> QED BY <3>1, <3>2
  <2>2. n <= Available(i, next)
    BY <1>2 DEF IsBatch
  <2>3. BatchOf(i, next, n) \in Seq(Entry)
    <3>1. CASE next = 0
      <4>1. prev = IndexMax /\ prev # 0 /\ last = IndexMax
        BY <1>2, <3>1, CalledFacts, LimitAssumption DEF Dec, Readable
      <4>2. Available(i, next) = 0
        BY <1>1, <3>1, <4>1, LimitAssumption DEF Available, Inc, MinOf
      <4>3. n = 0
        BY <2>2, <4>2
      <4>4. BatchOf(i, next, n) = << >>
        BY <3>1, <4>3, SubSeqEmpty DEF BatchOf
      <4> QED BY <4>4, EmptySeq
    <3>2. CASE next > last
      <4>1. n = 0
        BY <1>1, <2>2, <3>2 DEF Available
      <4>2. BatchOf(i, next, n) = << >>
        BY <1>1, <4>1, SubSeqEmpty DEF BatchOf, Index
      <4> QED BY <4>2, EmptySeq
    <3>3. CASE next # 0 /\ ~(next > last)
      <4> HIDE DEF next, last
      <4>1. last - next \in Index /\ last - next < IndexMax
        BY <1>1, <1>a, <3>3, Limits DEF Index
      <4>2. Inc(last - next) = last - next + 1
        BY <4>1, IncDec
      <4>3. n <= last - next + 1
        BY <1>1, <2>2, <3>3, <4>1, <4>2, Limits DEF Available, MinOf, Index
      <4>4. next \in Nat \ {0} /\ next + n - 1 \in Int /\ next + n - 1 <= last
        BY <1>1, <1>a, <3>3, <4>3 DEF Index
      <4> QED BY <4>4, CalledFacts, SubSeqTyped DEF BatchOf, last
    <3> QED BY <3>1, <3>2, <3>3
  <2>4. AppendEntries(i, j, currentTerm'[i], prev, TermAt(i, prev),
                      commitIndex[i], BatchOf(i, next, n)) \in Message
    BY <1>1, <2>1, <2>3, CalledFacts, AppendEntriesTyped
  <2> QED BY <1>2, <2>4
<1> QED BY <1>1, <1>2 DEF LeaderSendTo, Called

\* Sending to one peer ends well (raft89__leader_send_to).
LEMMA SendEnds ==
    ASSUME NEW i \in Server, Called(i), LogReady(i), NEW j \in Server,
           nextIndex'[i][j] \in Index,
           NEW s \in {"NONE", "AE_HARD_STATE", "LEADER_BROADCAST"},
           s = "AE_HARD_STATE" => Stashed(i)',
           LeaderSendTo(i, j, s), UNCHANGED progress
    PROVE  ProgressMoves(i) /\ Ended(i)
<1>1. ProgressMoves(i) /\ Settled(i)
  BY UnchangedMoves, CalledFacts
     DEF Called, progress, Settled, Ordered, LogReady
<1>2. s \in Step
  BY DEF Step
<1> QED BY <1>1, <1>2, LeaderSends, EndsSend, EndsFault
        DEF Called, Settled, LogReady

\* One step of a leader's broadcast (raft89__leader_broadcast_next).
LEMMA BroadcastEnds ==
    ASSUME NEW i \in Server, Called(i), LogReady(i), PeersTyped,
           lastIndex'[i] \in Index, NEW c \in Nat, LeaderBroadcastNext(i, c)
    PROVE  CursorTyped /\ ProgressMoves(i) /\ Ended(i)
<1>1. CursorTyped
  <2>1. cursor' = Set(cursor, i, c) \/ cursor' = Set(cursor, i, c + 1)
    BY DEF LeaderBroadcastNext
  <2>2. cursor \in [Server -> Nat]
    BY DEF Called, TypeOK
  <2> QED BY <2>1, <2>2 DEF Set, CursorTyped
<1>2. CASE /\ c < Len(Peers[i])
           /\ LeaderSendTo(i, Peers[i][c + 1], "LEADER_BROADCAST")
           /\ UNCHANGED progress
  <2>1. Peers[i][c + 1] \in Server
    BY <1>2, PeersAssumption, ElementOfSeq, LenProperties
  <2> QED BY <1>1, <1>2, <2>1, SendEnds DEF PeersTyped
<1>3. CASE LeaderMaybeCommit(i, "NONE")
  BY <1>1, <1>3, CommitEnds
<1> QED BY <1>2, <1>3 DEF LeaderBroadcastNext

---------------------------------------------------------------------------
(* Handlers of raft89_election.c.                                          *)

\* A handler moved node i only and kept its invariant.
Handled(i) == Moves(i) /\ LocalInv(i)'

\* The cached end of the log is that of the log the handler reads.
Stands(i) == lastIndex[i] = Len(log'[i]) /\ lastTerm[i] = LastTermOf(log'[i])

\* Node i has no outstanding action.
Idle(i) ==
    /\ action[i] = NoAction
    /\ step[i] \in {"NONE", "AE_HARD_STATE"}
    /\ step[i] = "AE_HARD_STATE" => Stashed(i)

\* A handler that leaves the end of the log alone, and perhaps the positions.
LEMMA LastStands ==
    ASSUME NEW i \in Server, Called(i), Stands(i), UNCHANGED lastLog
    PROVE  /\ LastMoves(i) /\ LogReady(i) /\ lastIndex'[i] \in Index
           /\ UNCHANGED progress => ProgressMoves(i) /\ Settled(i)
<1>1. /\ LastMoves(i)
      /\ lastIndex'[i] = lastIndex[i]
      /\ lastTerm'[i] = lastTerm[i]
  BY UnchangedMoves DEF Called, lastLog
<1>2. LogReady(i) /\ lastIndex'[i] \in Index
  BY <1>1 DEF LogReady, EndKnown, Stands, Called, Ordered, LastMoves
<1>3. ASSUME UNCHANGED progress
      PROVE  ProgressMoves(i) /\ Settled(i)
  BY <1>1, <1>2, <1>3, UnchangedMoves
     DEF Called, progress, Settled, Ordered, LogReady
<1> QED BY <1>1, <1>2, <1>3

\* A handler of an idle node that leaves the stash alone.
LEMMA IdleStep ==
    ASSUME NEW i \in Server, Called(i), Idle(i), UNCHANGED stash
    PROVE  StashMoves(i) /\ (step[i] = "AE_HARD_STATE" => Stashed(i)')
BY UnchangedMoves DEF Called, Idle, stash, Stashed

\* To leave an idle node's control alone is to return.
LEMMA UnchangedReturns ==
    ASSUME NEW i \in Server, Called(i), Idle(i), UNCHANGED control
    PROVE  Return(i, step[i])
BY DEF Called, TypeOK, Idle, control, Return, Emit, Set

\* A call without any change.
LEMMA IgnoreHandled ==
    ASSUME NEW i \in Server, Called(i), Stands(i), Idle(i), Ignore(i)
    PROVE  Handled(i)
<1>1. /\ LastMoves(i) /\ ProgressMoves(i) /\ Settled(i)
      /\ StashMoves(i) /\ (step[i] = "AE_HARD_STATE" => Stashed(i)')
  BY LastStands, IdleStep DEF Ignore
<1>2. StandingTyped /\ PeersTyped /\ CursorTyped /\ PendingMoves(i)
  BY UnchangedMoves DEF Ignore, Called
<1>3. Return(i, step[i])
  BY UnchangedReturns DEF Ignore
<1>4. Ended(i)
  BY <1>1, <1>3, EndsIdle DEF Called, Idle
<1> QED BY <1>1, <1>2, <1>4 DEF Handled, Moves, Ended

\* raft89__step_down_new_term.
LEMMA StepDownHandled ==
    ASSUME NEW i \in Server, Called(i), Stands(i), NEW t \in Term,
           StepDownNewTerm(i, t)
    PROVE  Handled(i)
<1>1. LastMoves(i) /\ ProgressMoves(i) /\ Settled(i)
  BY LastStands DEF StepDownNewTerm
<1>2. PeersTyped /\ CursorTyped /\ PendingMoves(i) /\ StashMoves(i)
  BY UnchangedMoves DEF StepDownNewTerm, Called
<1>3. StandingTyped
  BY DEF StepDownNewTerm, Called, TypeOK, StandingTyped, Set, Role, Id
<1>4. Ended(i)
  BY <1>1, EndsHardState DEF StepDownNewTerm, Called, Id
<1> QED BY <1>1, <1>2, <1>3, <1>4 DEF Handled, Moves, Ended

\* raft89__start_election.
LEMMA StartElectionHandled ==
    ASSUME NEW i \in Server, Called(i), Stands(i), Idle(i), StartElection(i),
           UNCHANGED termVars
    PROVE  Handled(i)
<1>1. CASE Ignore(i)
  BY <1>1, IgnoreHandled
<1>2. CASE ~Ignore(i)
  <2>1. /\ currentTerm[i] < TermMax
        /\ role' = Set(role, i, "CANDIDATE")
        /\ leaderId' = Set(leaderId, i, NoId)
        /\ votes' = Set(votes, i, {i})
        /\ cursor' = Set(cursor, i, 0)
        /\ Emit(i, HardState(currentTerm[i] + 1, i), "ELECTION_BROADCAST")
        /\ UNCHANGED <<lastLog, progress, peerView, pendingMsg, stash>>
    BY <1>2 DEF StartElection
  <2>2. LastMoves(i) /\ ProgressMoves(i) /\ Settled(i)
    BY <2>1, LastStands
  <2>3. PeersTyped /\ PendingMoves(i) /\ StashMoves(i)
    BY <2>1, UnchangedMoves DEF Called
  <2>4. StandingTyped
    BY <2>1 DEF Called, TypeOK, StandingTyped, Set, Role, Id
  <2>5. CursorTyped
    BY <2>1 DEF Called, TypeOK, CursorTyped, Set
  <2>6. currentTerm[i] + 1 \in Term /\ i \in Id
    BY <2>1, Limits DEF Called, TypeOK, Term, Id
  <2>7. Ended(i)
    BY <2>1, <2>2, <2>6, EndsHardState DEF Called
  <2> QED BY <2>2, <2>3, <2>4, <2>5, <2>7 DEF Handled, Moves, Ended
<1> QED BY <1>1, <1>2

\* raft89__become_leader, with its first broadcast step.
LEMMA LeaderElected ==
    ASSUME NEW i \in Server, Called(i), Stands(i), UNCHANGED lastLog,
           votes' \in [Server -> SUBSET Server],
           NEW s \in Step, BecomeLeader(i, s)
    PROVE  /\ StandingTyped /\ PeersTyped /\ CursorTyped
           /\ ProgressMoves(i) /\ Ended(i)
<1>0. /\ LogReady(i) /\ lastIndex'[i] \in Index
      /\ UNCHANGED progress => ProgressMoves(i) /\ Settled(i)
  BY LastStands
<1>1. CASE /\ Fault(i, s)
           /\ UNCHANGED <<role, leaderId, progress, peerView, cursor>>
  <2>1. PeersTyped /\ CursorTyped
    BY <1>1, UnchangedMoves DEF Called
  <2>2. StandingTyped
    BY <1>1 DEF Called, TypeOK, StandingTyped
  <2> QED BY <1>0, <1>1, <2>1, <2>2, EndsFault DEF Called, Settled
<1>2. CASE /\ role' = Set(role, i, "LEADER")
           /\ leaderId' = Set(leaderId, i, i)
           /\ nextIndex' = Set(nextIndex, i, [j \in Server |-> Inc(lastIndex[i])])
           /\ matchIndex' = Set(matchIndex, i, [j \in Server |-> 0])
           /\ LeaderBroadcastNext(i, 0)
  <2>1. Inc(lastIndex[i]) \in Index /\ 0 \in Index
    BY IncDec, Limits DEF Called, TypeOK, Index
  <2>2. PeersTyped
    BY <1>2, <2>1 DEF Called, TypeOK, PeersTyped, Set
  <2>3. StandingTyped
    BY <1>2 DEF Called, TypeOK, StandingTyped, Set, Role, Id
  <2> QED BY <1>0, <1>2, <2>2, <2>3, BroadcastEnds
<1> QED BY <1>1, <1>2 DEF BecomeLeader

\* An immediate vote reply.
LEMMA ReplyVoteHandled ==
    ASSUME NEW i \in Server, Called(i), Stands(i), Idle(i), NEW j \in Server,
           NEW t \in Term, NEW g \in BOOLEAN, ReplyVote(i, j, t, g)
    PROVE  Handled(i)
<1>1. /\ LastMoves(i) /\ ProgressMoves(i) /\ Settled(i)
      /\ StashMoves(i) /\ (step[i] = "AE_HARD_STATE" => Stashed(i)')
  BY LastStands, IdleStep DEF ReplyVote
<1>2. StandingTyped /\ PeersTyped /\ CursorTyped /\ PendingMoves(i)
  BY UnchangedMoves DEF ReplyVote, Called
<1>3. Ended(i)
  BY <1>1, EndsSend, VoteResponseTyped DEF ReplyVote, Called, Idle
<1> QED BY <1>1, <1>2, <1>3 DEF Handled, Moves, Ended

\* persist_vote_then_reply.
LEMMA PersistVoteHandled ==
    ASSUME NEW i \in Server, Called(i), Stands(i), NEW j \in Server,
           NEW t \in Term, NEW v \in Id, NEW g \in BOOLEAN,
           role' \in [Server -> Role], leaderId' \in [Server -> Id],
           PersistVoteThenReply(i, j, t, v, g)
    PROVE  Handled(i)
<1>1. LastMoves(i) /\ ProgressMoves(i) /\ Settled(i)
  BY LastStands DEF PersistVoteThenReply
<1>2. PeersTyped /\ CursorTyped /\ StashMoves(i)
  BY UnchangedMoves DEF PersistVoteThenReply, Called
<1>3. StandingTyped
  BY DEF PersistVoteThenReply, Called, TypeOK, StandingTyped
<1>4. PendingMoves(i) /\ pendingMsg'[i] \in VoteResponseMsg
  BY VoteResponseTyped
     DEF PersistVoteThenReply, Called, TypeOK, PendingMoves, Set
<1>5. Ended(i)
  BY <1>1, <1>4, EndsHardState DEF PersistVoteThenReply, Called
<1> QED BY <1>1, <1>2, <1>3, <1>4, <1>5 DEF Handled, Moves, Ended

\* raft89__recv_request_vote.
LEMMA RequestVoteHandled ==
    ASSUME NEW i \in Server, Called(i), Stands(i), Idle(i),
           UNCHANGED termVars, NEW m \in Message, m.type = "RV",
           RecvRequestVote(i, m)
    PROVE  Handled(i)
<1>1. /\ m.from \in Server /\ m.term \in Term /\ currentTerm[i] \in Term
      /\ m.from \in Id /\ NoId \in Id
  BY MessageFields DEF Called, TypeOK, Id
<1>2. ASSUME NEW t \in Term, NEW g \in BOOLEAN, ReplyVote(i, m.from, t, g)
      PROVE  Handled(i)
  BY <1>1, <1>2, ReplyVoteHandled
<1>3. ASSUME NEW f \in BOOLEAN, VoteNewTerm(i, m, f)
      PROVE  Handled(i)
  <2>1. role' \in [Server -> Role] /\ leaderId' \in [Server -> Id]
    BY <1>1, <1>3 DEF VoteNewTerm, Called, TypeOK, Set, Role
  <2>2. PICK v \in Id : PersistVoteThenReply(i, m.from, m.term, v, f)
    BY <1>1, <1>3 DEF VoteNewTerm
  <2> QED BY <1>1, <2>1, <2>2, PersistVoteHandled
<1>4. CASE /\ UNCHANGED <<role, leaderId>>
           /\ PersistVoteThenReply(i, m.from, m.term, m.from, TRUE)
  <2>1. role' \in [Server -> Role] /\ leaderId' \in [Server -> Id]
    BY <1>4 DEF Called, TypeOK
  <2> QED BY <1>1, <1>4, <2>1, PersistVoteHandled
<1>5. LogIsFresh(m.lastTerm, m.lastIndex, lastTerm[i], lastIndex[i])
        \in BOOLEAN
  BY DEF LogIsFresh
<1> QED BY <1>1, <1>2, <1>3, <1>4, <1>5 DEF RecvRequestVote

\* raft89__recv_vote_response.
LEMMA VoteResponseHandled ==
    ASSUME NEW i \in Server, Called(i), Stands(i), Idle(i),
           NEW m \in Message, m.type = "RVR", RecvVoteResponse(i, m)
    PROVE  Handled(i)
<1>1. m.from \in Server /\ m.term \in Term /\ step[i] \in Step
  BY MessageFields DEF Called, TypeOK
<1>2. CASE StepDownNewTerm(i, m.term)
  BY <1>1, <1>2, StepDownHandled
<1>3. CASE Ignore(i)
  BY <1>3, IgnoreHandled
<1>4. ASSUME votes' = Set(votes, i, votes[i] \union {m.from}),
             UNCHANGED <<lastLog, pendingMsg, stash>>
      PROVE  /\ votes' \in [Server -> SUBSET Server]
             /\ LastMoves(i) /\ PendingMoves(i)
             /\ StashMoves(i) /\ (step[i] = "AE_HARD_STATE" => Stashed(i)')
  <2>1. votes' \in [Server -> SUBSET Server]
    BY <1>1, <1>4 DEF Called, TypeOK, Set
  <2>2. LastMoves(i) /\ PendingMoves(i)
    BY <1>4, UnchangedMoves DEF Called
  <2> QED BY <1>4, <2>1, <2>2, IdleStep
<1>5. CASE /\ votes' = Set(votes, i, votes[i] \union {m.from})
           /\ UNCHANGED <<lastLog, pendingMsg, stash>>
           /\ UNCHANGED <<role, leaderId, progress, peerView, control, cursor>>
  <2>1. ProgressMoves(i) /\ Settled(i) /\ Return(i, step[i])
    BY <1>5, LastStands, UnchangedReturns
  <2>2. StandingTyped
    BY <1>4, <1>5 DEF Called, TypeOK, StandingTyped
  <2>3. PeersTyped /\ CursorTyped
    BY <1>5, UnchangedMoves DEF Called
  <2>4. Ended(i)
    BY <1>4, <1>5, <2>1, EndsIdle DEF Called, Idle
  <2> QED BY <1>4, <1>5, <2>1, <2>2, <2>3, <2>4 DEF Handled, Moves, Ended
<1>6. CASE /\ votes' = Set(votes, i, votes[i] \union {m.from})
           /\ UNCHANGED <<lastLog, pendingMsg, stash>>
           /\ BecomeLeader(i, step[i])
  BY <1>1, <1>4, <1>6, LeaderElected DEF Handled, Moves, Ended
<1> QED BY <1>2, <1>3, <1>5, <1>6 DEF RecvVoteResponse

\* A broadcast step as a call of its own: heartbeat and continuation.
LEMMA BroadcastHandled ==
    ASSUME NEW i \in Server, Called(i), Stands(i), NEW c \in Nat,
           UNCHANGED <<standing, lastLog, peerView, pendingMsg, stash>>,
           LeaderBroadcastNext(i, c)
    PROVE  Handled(i)
<1>1. StandingTyped /\ PeersTyped /\ PendingMoves(i) /\ StashMoves(i)
  BY UnchangedMoves DEF Called
<1>2. LastMoves(i) /\ LogReady(i) /\ lastIndex'[i] \in Index
  BY LastStands
<1>3. CursorTyped /\ ProgressMoves(i) /\ Ended(i)
  BY <1>1, <1>2, BroadcastEnds
<1> QED BY <1>1, <1>2, <1>3 DEF Handled, Moves, Ended

\* raft89_tick.
LEMMA TickHandled ==
    ASSUME NEW i \in Server, Called(i), Stands(i), Idle(i),
           UNCHANGED termVars, TickLeader(i) \/ TickFollower(i)
    PROVE  Handled(i)
BY BroadcastHandled, StartElectionHandled DEF TickLeader, TickFollower

\* The continuation of an election (raft89__election_send_next).
LEMMA ElectionSendHandled ==
    ASSUME NEW i \in Server, Called(i), Stands(i), ElectionSendNext(i)
    PROVE  Handled(i)
<1>1. UNCHANGED <<votes, lastLog, pendingMsg, stash>>
  BY DEF ElectionSendNext
<1>2. /\ LastMoves(i) /\ PendingMoves(i) /\ StashMoves(i)
      /\ votes' \in [Server -> SUBSET Server]
      /\ UNCHANGED progress => ProgressMoves(i) /\ Settled(i)
  BY <1>1, UnchangedMoves, LastStands DEF Called, TypeOK
<1>3. CASE BecomeLeader(i, "NONE")
  <2>1. "NONE" \in Step
    BY DEF Step
  <2> QED BY <1>1, <1>2, <1>3, <2>1, LeaderElected DEF Handled, Moves, Ended
<1>4. ASSUME UNCHANGED <<role, leaderId, progress, peerView>>
      PROVE  StandingTyped /\ PeersTyped /\ ProgressMoves(i) /\ Settled(i)
  BY <1>2, <1>4, UnchangedMoves DEF Called, TypeOK, StandingTyped
<1>5. CASE /\ cursor[i] < Len(Peers[i])
           /\ cursor' = Set(cursor, i, cursor[i] + 1)
           /\ Emit(i, Send(RequestVote(i, Peers[i][cursor[i] + 1],
                              currentTerm'[i], lastIndex[i], lastTerm[i])),
                   "ELECTION_BROADCAST")
           /\ UNCHANGED <<role, leaderId, progress, peerView>>
  <2>1. cursor[i] \in Nat /\ CursorTyped
    BY <1>5 DEF Called, TypeOK, CursorTyped, Set
  <2>2. Peers[i][cursor[i] + 1] \in Server
    BY <1>5, <2>1, PeersAssumption, ElementOfSeq, LenProperties
  <2>3. RequestVote(i, Peers[i][cursor[i] + 1], currentTerm'[i],
                    lastIndex[i], lastTerm[i]) \in Message
    BY <2>2, CalledFacts, RequestVoteTyped DEF Called, TypeOK
  <2>4. Ended(i)
    BY <1>4, <1>5, <2>3, EndsSend DEF Called
  <2> QED BY <1>2, <1>4, <1>5, <2>1, <2>4 DEF Handled, Moves, Ended
<1>6. CASE /\ Return(i, "NONE")
           /\ UNCHANGED <<role, leaderId, progress, peerView, cursor>>
  <2>1. Ended(i) /\ CursorTyped
    BY <1>4, <1>6, EndsIdle, UnchangedMoves DEF Called
  <2> QED BY <1>2, <1>4, <1>6, <2>1 DEF Handled, Moves, Ended
<1> QED BY <1>3, <1>5, <1>6 DEF ElectionSendNext

\* The vote reply once the hard state is durable (vote_response_send).
LEMMA VoteSendHandled ==
    ASSUME NEW i \in Server, Called(i), Stands(i),
           pendingMsg[i] \in VoteResponseMsg, VoteResponseSend(i)
    PROVE  Handled(i)
<1>1. LastMoves(i) /\ ProgressMoves(i) /\ Settled(i)
  BY LastStands DEF VoteResponseSend
<1>2. /\ StandingTyped /\ PeersTyped /\ CursorTyped /\ PendingMoves(i)
      /\ StashMoves(i)
  BY UnchangedMoves DEF VoteResponseSend, Called
<1>3. pendingMsg[i] \in Message
  BY DEF Message
<1>4. Ended(i)
  BY <1>1, <1>3, EndsSend DEF VoteResponseSend, Called
<1> QED BY <1>1, <1>2, <1>4 DEF Handled, Moves, Ended

---------------------------------------------------------------------------
(* Handlers of raft89_leader.c.                                            *)

\* Changing one peer's index.
LEMMA PeerUpdate ==
    ASSUME NEW f \in [Server -> [Server -> Index]], NEW i \in Server,
           NEW j \in Server, NEW k \in Index
    PROVE  [f EXCEPT ![i][j] = k] \in [Server -> [Server -> Index]]
OBVIOUS

\* handle_ae_failure.
LEMMA FailureHandled ==
    ASSUME NEW i \in Server, Called(i), Stands(i), Idle(i),
           NEW m \in Message, m.type = "AER", HandleAeFailure(i, m)
    PROVE  Handled(i)
<1>1. m.from \in Server
  BY MessageFields
<1>2. UNCHANGED <<standing, lastLog, progress, matchIndex, cursor,
                  pendingMsg, stash>>
  BY DEF HandleAeFailure
<1>3. /\ LastMoves(i) /\ LogReady(i) /\ ProgressMoves(i) /\ Settled(i)
      /\ StashMoves(i) /\ (step[i] = "AE_HARD_STATE" => Stashed(i)')
  BY <1>2, LastStands, IdleStep
<1>4. StandingTyped /\ CursorTyped /\ PendingMoves(i)
  BY <1>2, UnchangedMoves DEF Called
<1>5. ASSUME NEW next \in Index,
             nextIndex' = [nextIndex EXCEPT ![i][m.from] = ClampNext(i, next)],
             LeaderSendTo(i, m.from, step[i])
      PROVE  Handled(i)
  <2>1. ClampNext(i, next) \in Index
    <3>1. Inc(lastIndex[i]) \in Index
      BY IncDec DEF Called, TypeOK
    <3> QED BY <3>1, LimitAssumption DEF ClampNext, MinOf, Index
  <2>2. PeersTyped
    BY <1>1, <1>2, <1>5, <2>1, PeerUpdate DEF Called, TypeOK, PeersTyped
  <2>3. Ended(i)
    BY <1>1, <1>2, <1>3, <1>5, <2>2, SendEnds DEF PeersTyped, Idle
  <2> QED BY <1>3, <1>4, <2>2, <2>3 DEF Handled, Moves, Ended
<1>6. CASE Fault(i, step[i]) /\ UNCHANGED nextIndex
  <2>1. PeersTyped
    BY <1>2, <1>6 DEF Called, TypeOK, PeersTyped
  <2>2. Ended(i)
    BY <1>3, <1>6, EndsFault, CalledFacts DEF Called, Settled
  <2> QED BY <1>3, <1>4, <2>1, <2>2 DEF Handled, Moves, Ended
<1> QED BY <1>5, <1>6 DEF HandleAeFailure

\* A success response of raft89__recv_ae_response.
LEMMA SuccessHandled ==
    ASSUME NEW i \in Server, Called(i), Stands(i), Idle(i),
           NEW m \in Message, m.type = "AER", HandleAeSuccess(i, m)
    PROVE  Handled(i)
<1>1. m.from \in Server /\ m.match \in Index
  BY MessageFields
<1>2. UNCHANGED <<standing, lastLog, cursor, pendingMsg, stash>>
  BY DEF HandleAeSuccess
<1>3. /\ LastMoves(i) /\ LogReady(i) /\ lastIndex'[i] \in Index
      /\ StashMoves(i) /\ (step[i] = "AE_HARD_STATE" => Stashed(i)')
  BY <1>2, LastStands, IdleStep
<1>4. StandingTyped /\ CursorTyped /\ PendingMoves(i)
  BY <1>2, UnchangedMoves DEF Called
<1>5. PeersTyped
  <2>1. Inc(m.match) \in Index
    BY <1>1, IncDec
  <2>2. matchIndex' \in [Server -> [Server -> Index]]
    BY <1>1, PeerUpdate DEF HandleAeSuccess, Called, TypeOK
  <2>3. nextIndex' \in [Server -> [Server -> Index]]
    BY <1>1, <2>1, PeerUpdate DEF HandleAeSuccess, Called, TypeOK
  <2> QED BY <2>2, <2>3 DEF PeersTyped
<1>6. ProgressMoves(i) /\ Ended(i)
  BY <1>3, CommitEnds DEF HandleAeSuccess, Idle
<1> QED BY <1>3, <1>4, <1>5, <1>6 DEF Handled, Moves, Ended

\* Any response of raft89__recv_ae_response.
LEMMA AeResponseHandled ==
    ASSUME NEW i \in Server, Called(i), Stands(i), Idle(i),
           NEW m \in Message, m.type = "AER", RecvAeResponse(i, m)
    PROVE  Handled(i)
<1>1. m.term \in Term
  BY MessageFields
<1> QED BY <1>1, StepDownHandled, FailureHandled, SuccessHandled,
           IgnoreHandled DEF RecvAeResponse

\* raft89_proposev.
LEMMA ProposeHandled ==
    ASSUME NEW i \in Server, Called(i), Stands(i), Idle(i),
           UNCHANGED <<durable, termVars>>,
           NEW cmds \in Seq(Command) \ {<< >>}, Proposev(i, cmds)
    PROVE  Handled(i)
<1> DEFINE es == [k \in DOMAIN cmds |->
                    [term |-> currentTerm[i], cmd |-> cmds[k]]]
<1>1. es \in Seq(Entry) /\ Len(es) = Len(cmds) /\ es # << >>
  <2>1. /\ Len(cmds) \in Nat /\ DOMAIN cmds = 1..Len(cmds)
        /\ Len(cmds) # 0
        /\ \A k \in 1..Len(cmds) : cmds[k] \in Command
    BY LenProperties, EmptySeq, ElementOfSeq
  <2>2. \A k \in 1..Len(cmds) :
           [term |-> currentTerm[i], cmd |-> cmds[k]] \in Entry
    BY <2>1 DEF Called, TypeOK, Entry
  <2>3. es = [k \in 1..Len(cmds) |->
                [term |-> currentTerm[i], cmd |-> cmds[k]]]
    BY <2>1
  <2>4. es \in Seq(Entry)
    BY <2>1, <2>2, <2>3, IsASeq
  <2>5. DOMAIN es = 1..Len(es) /\ DOMAIN es = 1..Len(cmds) /\ Len(es) \in Nat
    BY <2>3, <2>4, LenProperties
  <2>6. Len(es) = Len(cmds)
    BY <2>1, <2>5
  <2> QED BY <2>1, <2>4, <2>6, EmptySeq
<1>2. /\ LastMoves(i) /\ ProgressMoves(i) /\ Settled(i) /\ LogReady(i)
  BY LastStands DEF Proposev
<1>3. /\ StandingTyped /\ PeersTyped /\ CursorTyped /\ PendingMoves(i)
  BY UnchangedMoves DEF Proposev, Called
<1>4. CASE /\ RoomFor(i, Len(cmds))
           /\ pending' = Set(pending, i, es)
           /\ Emit(i, LogAppend(FirstNew(i), es), "LEADER_APPEND")
  <2>1. StashMoves(i) /\ pending'[i] = es
    BY <1>1, <1>4 DEF Proposev, Called, TypeOK, StashMoves, Set
  <2>2. /\ lastIndex[i] = Len(log'[i]) /\ lastIndex[i] \in Index
        /\ Len(es) \in Nat \ {0}
    BY <1>1, LenProperties, EmptySeq DEF Stands, Called, TypeOK
  <2>3. lastIndex[i] + Len(es) <= IndexMax /\ lastIndex[i] < IndexMax
    BY <1>1, <1>4, <2>2, Limits DEF RoomFor, Index
  <2>4. FirstNew(i) = lastIndex[i] + 1 /\ FirstNew(i) \in Index
    BY <2>2, <2>3, IncDec DEF FirstNew
  <2> HIDE DEF es
  <2>5. Ended(i)
    BY <1>1, <1>2, <1>4, <2>1, <2>2, <2>3, <2>4, EndsAppend DEF Called
  <2> QED BY <1>2, <1>3, <2>1, <2>5 DEF Handled, Moves, Ended
<1>5. CASE Fault(i, step[i]) /\ UNCHANGED pending
  <2>1. StashMoves(i)
    BY <1>5, UnchangedMoves DEF Proposev, Called, stash
  <2>2. Ended(i)
    BY <1>2, <1>5, EndsFault, CalledFacts DEF Called, Settled
  <2> QED BY <1>2, <1>3, <2>1, <2>2 DEF Handled, Moves, Ended
<1> QED BY <1>4, <1>5 DEF Proposev, Called

\* raft89__leader_after_append.
LEMMA LeaderAfterAppendHandled ==
    ASSUME NEW i \in Server, Called(i), pending[i] # << >>,
           Len(log'[i]) = lastIndex[i] + Len(pending[i]),
           LastTermOf(log'[i]) = Last(pending[i]).term,
           LeaderAfterAppend(i)
    PROVE  Handled(i)
<1>1. /\ pending[i] \in Seq(Entry) /\ Len(pending[i]) \in Nat
      /\ Len(pending[i]) \in 1..Len(pending[i])
      /\ lastIndex[i] \in Index
  BY LenProperties, EmptySeq DEF Called, TypeOK
<1>2. /\ lastIndex[i] + Len(pending[i]) \in Index
      /\ Last(pending[i]).term \in Term
  <2>1. Last(pending[i]).term \in Term
    BY <1>1, EntryTerm DEF Last
  <2>2. lastIndex[i] + Len(pending[i]) <= IndexMax
    BY CalledFacts
  <2> QED BY <1>1, <2>1, <2>2, Limits DEF Index
<1>3. /\ LastMoves(i)
      /\ lastIndex'[i] = lastIndex[i] + Len(pending[i])
      /\ lastTerm'[i] = Last(pending[i]).term
  BY <1>2 DEF LeaderAfterAppend, Called, TypeOK, LastMoves, Set
<1>4. LogReady(i) /\ lastIndex'[i] \in Index
  <2>1. EndKnown(i)' /\ lastIndex'[i] \in Index
    BY <1>2, <1>3 DEF EndKnown
  <2>2. commitIndex[i] <= lastIndex[i] /\ commitIndex[i] \in Index
    BY CalledFacts DEF Called, Ordered
  <2>3. commitIndex[i] <= lastIndex'[i]
    BY <1>1, <1>3, <2>2, Limits DEF Index
  <2> QED BY <2>1, <2>3 DEF LogReady
<1>5. StandingTyped /\ PeersTyped /\ PendingMoves(i)
  BY UnchangedMoves DEF LeaderAfterAppend, Called
<1>6. StashMoves(i)
  BY EmptySeq DEF LeaderAfterAppend, Called, TypeOK, StashMoves, Set
<1>7. CursorTyped /\ ProgressMoves(i) /\ Ended(i)
  BY <1>4, <1>5, BroadcastEnds DEF LeaderAfterAppend
<1> QED BY <1>3, <1>5, <1>6, <1>7 DEF Handled, Moves, Ended

---------------------------------------------------------------------------
(* Handlers of raft89_replication.c.                                       *)

\* Only node i's stashed request moves.
AeMoves(i) ==
    /\ ae' \in [Server -> Stash]
    /\ \A j \in Server \ {i} : ae'[j] = ae[j]

\* The fields of a stash.
LEMMA StashFields ==
    ASSUME NEW a \in Stash
    PROVE  /\ a.prev \in Index /\ a.prevTerm \in Term /\ a.commit \in Index
           /\ a.leader \in Id /\ a.match \in Index /\ a.truncate \in Index
           /\ a.conflictTerm \in Term /\ a.conflictIndex \in Index
           /\ a.offset \in Nat /\ a.success \in BOOLEAN
BY DEF Stash

\* Stashing a request.
LEMMA AeSet ==
    ASSUME TypeOK, NEW i \in Server, NEW a \in Stash, ae' = Set(ae, i, a)
    PROVE  AeMoves(i) /\ ae'[i] = a
BY DEF TypeOK, AeMoves, Set

\* Stashing its entries.
LEMMA PendingSet ==
    ASSUME TypeOK, NEW i \in Server, AeMoves(i), NEW es \in Seq(Entry),
           pending' = Set(pending, i, es)
    PROVE  StashMoves(i) /\ pending'[i] = es
BY DEF TypeOK, AeMoves, StashMoves, Set

\* The term read at the end of the log is the cached last term.
LEMMA TermAtEnd ==
    ASSUME NEW i \in Server, Called(i)
    PROVE  /\ TermAt(i, Len(log'[i])) = LastTermOf(log'[i])
           /\ TermAt(i, Len(log'[i])) \in Term
<1>1. log'[i] \in Seq(Entry)
  BY CalledFacts
<1>2. CASE log'[i] = << >>
  BY <1>2, EmptySeq, Limits DEF TermAt, LastTermOf, Term
<1>3. CASE log'[i] # << >>
  <2>1. Len(log'[i]) \in 1..Len(log'[i]) /\ Len(log'[i]) # 0
    BY <1>1, <1>3, EmptySeq, LenProperties
  <2>2. log'[i][Len(log'[i])].term \in Term
    BY <1>1, <2>1, EntryTerm
  <2> QED BY <1>3, <2>1, <2>2 DEF TermAt, LastTermOf, Last
<1> QED BY <1>2, <1>3

\* raft89__ae_send_reply.
LEMMA SendReplyEnds ==
    ASSUME NEW i \in Server, Called(i), Settled(i), ae'[i] \in Stash,
           ae'[i].leader \in Server, AeSendReply(i)
    PROVE  Ended(i)
<1> DEFINE m == AppendResponse(i, ae'[i].leader, currentTerm'[i],
                    ae'[i].success, ae'[i].match, ae'[i].conflictTerm,
                    ae'[i].conflictIndex)
<1>1. m \in Message
  BY StashFields, CalledFacts, AppendResponseTyped
<1>2. Emit(i, Send(m), "NONE")
  BY DEF AeSendReply
<1> HIDE DEF m
<1> QED BY <1>1, <1>2, EndsSend DEF Called

\* ae_finish: the new commit index is within the log.
LEMMA FinishEnds ==
    ASSUME NEW i \in Server, Called(i), LogReady(i), lastIndex'[i] \in Index,
           AeMoves(i), ae'[i].leader \in Server, NEW s \in Step,
           AeFinish(i, s)
    PROVE  StashMoves(i) /\ ProgressMoves(i) /\ Ended(i)
<1> DEFINE new == FollowerCommit(i)
<1>1. StashMoves(i)
  BY EmptySeq, PendingSet DEF AeFinish, Called
<1>2. ae'[i] \in Stash
  BY DEF AeMoves
<1>3. new \in Index /\ new <= lastIndex'[i]
  BY <1>2, StashFields, Limits DEF FollowerCommit, MinOf, Index
<1> HIDE DEF new
<1>4. CASE new > commitIndex[i] /\ AdvanceCommit(i, new, "AE_REPLY", s)
  BY <1>1, <1>3, <1>4, AdvanceEnds DEF LogReady
<1>5. CASE AeSendReply(i) /\ UNCHANGED progress
  <2>1. ProgressMoves(i) /\ Settled(i)
    BY <1>5, UnchangedMoves, CalledFacts
       DEF Called, progress, Settled, Ordered, LogReady
  <2> QED BY <1>1, <1>2, <1>5, <2>1, SendReplyEnds
<1> QED BY <1>4, <1>5 DEF AeFinish, new

\* ae_apply_entries: everything before the first difference is in the log, so
\* an append starts at its end and a truncation within it.
LEMMA ApplyEntriesEnds ==
    ASSUME NEW i \in Server, Called(i), Stands(i), UNCHANGED lastLog,
           NEW s \in {"NONE", "AE_HARD_STATE"},
           NEW a \in Stash, a.leader \in Server, NEW es \in Seq(Entry),
           a.prev <= lastIndex[i], a.prev + Len(es) <= IndexMax,
           AeApplyEntries(i, s, a, es)
    PROVE  StashMoves(i) /\ ProgressMoves(i) /\ Ended(i)
<1>0. TypeOK /\ s \in Step
  BY DEF Called, Step
<1>1. /\ LogReady(i) /\ lastIndex'[i] \in Index
      /\ UNCHANGED progress => ProgressMoves(i) /\ Settled(i)
  BY LastStands
<1>2. lastIndex[i] \in Index /\ lastIndex[i] = Len(log'[i])
  BY <1>0 DEF TypeOK, Stands
<1>3. Len(es) \in Nat /\ a.prev \in Index
  BY LenProperties, StashFields
<1> DEFINE p == a.prev
           n == Len(es)
           l == lastIndex[i]
<1>n. /\ p \in Nat /\ n \in Nat /\ l \in Nat /\ IndexMax \in Nat
      /\ p <= l /\ p + n <= IndexMax /\ l <= IndexMax
  BY <1>2, <1>3, Limits DEF Index
<1>e. p = a.prev /\ n = Len(es) /\ l = lastIndex[i] /\ l = Len(log'[i])
  BY <1>2
<1> HIDE DEF p, n, l
<1>4. CASE ae' = Set(ae, i, a) /\ AeFinish(i, s)
  <2>1. AeMoves(i) /\ ae'[i].leader \in Server
    BY <1>0, <1>4, AeSet
  <2> QED BY <1>0, <1>1, <1>4, <2>1, FinishEnds
<1>5. ASSUME NEW k \in 1..Len(es), FirstDifference(i, a, es, k),
             pending' = Set(pending, i, es), UNCHANGED progress,
             a.prev + k > lastIndex[i],
             ae' = Set(ae, i, [a EXCEPT !.truncate = 0, !.offset = k - 1]),
             Emit(i, LogAppend(a.prev + k, SubSeq(es, k, Len(es))), "AE_APPEND")
      PROVE  StashMoves(i) /\ ProgressMoves(i) /\ Ended(i)
  <2> DEFINE b == [a EXCEPT !.truncate = 0, !.offset = k - 1]
             rest == SubSeq(es, k, Len(es))
  <2>a. k \in 1..n /\ p + k > l
    BY <1>5, <1>e
  <2>b. b = [a EXCEPT !.truncate = 0, !.offset = k - 1] /\ a \in Stash
    OBVIOUS
  <2>2. rest \in Seq(Entry) /\ Len(rest) = Len(es) - k + 1
    <3>1. \A h \in k..Len(es) : es[h] \in Entry
      BY <1>3, ElementOfSeq
    <3>2. k \in Int /\ Len(es) \in Int /\ k <= Len(es)
      BY <1>3
    <3> QED BY <3>1, <3>2, SubSeqProperties
  <2> HIDE DEF b, rest
  <2>1. b \in Stash /\ b.prev = a.prev /\ b.leader = a.leader
    <3>1. 0 \in Index /\ k - 1 \in Nat
      BY ONLY <1>n, <2>a DEF Index
    <3> QED BY ONLY <2>b, <3>1 DEF Stash
  <2>3. StashMoves(i) /\ ae'[i] = b /\ pending'[i] = es
    BY <1>0, <1>5, <2>1, AeSet, PendingSet DEF b
  <2>4. p + k - 1 <= l
    <3>1. CASE k = 1
      BY ONLY <1>n, <3>1
    <3>2. CASE k # 1
      <4>1. k - 1 \in 1..k-1
        BY ONLY <1>n, <2>a, <3>2
      <4>2. ~Differs(i, a, es, k - 1)
        BY <1>5, <4>1 DEF FirstDifference
      <4>3. p + (k - 1) <= l
        BY <1>e, <4>2 DEF Differs
      <4> QED BY ONLY <1>n, <2>a, <4>3
    <3> QED BY <3>1, <3>2
  <2>5. p + k = l + 1
    BY ONLY <1>n, <2>a, <2>4
  <2>c. Len(rest) = n - k + 1
    BY <1>e, <2>2
  <2>6. l + Len(rest) = p + n /\ Len(rest) # 0 /\ p + k \in Index
    BY ONLY <1>n, <2>a, <2>c, <2>5 DEF Index
  <2>7. rest # << >>
    BY <2>6, EmptySeq
  <2>8. /\ Stashed(i)'
        /\ ae'[i].prev + Len(pending'[i]) = Len(log'[i]) + Len(rest)
    BY <1>e, <1>n, <2>1, <2>3, <2>6 DEF Stashed
  <2>9. Emit(i, LogAppend(a.prev + k, rest), "AE_APPEND")
    BY <1>5 DEF rest
  <2>d. /\ a.prev + k = Len(log'[i]) + 1 /\ a.prev + k \in Index
        /\ Len(log'[i]) + Len(rest) <= IndexMax
    BY <1>e, <1>n, <2>5, <2>6
  <2>10. Ended(i)
    BY <1>0, <1>1, <1>5, <2>2, <2>d, <2>6, <2>7, <2>8, <2>9, EndsAppend
  <2> QED BY <1>1, <1>5, <2>3, <2>10
<1>6. ASSUME NEW k \in 1..Len(es),
             pending' = Set(pending, i, es), UNCHANGED progress,
             a.prev + k <= lastIndex[i],
             ae' = Set(ae, i, [a EXCEPT !.truncate = a.prev + k,
                                        !.offset = k - 1]),
             IF a.prev + k <= commitIndex[i]
             THEN Return(i, s)
             ELSE Emit(i, LogTruncate(a.prev + k), "AE_TRUNCATE")
      PROVE  StashMoves(i) /\ ProgressMoves(i) /\ Ended(i)
  <2> DEFINE t == p + k
             b == [a EXCEPT !.truncate = t, !.offset = k - 1]
  <2>a. k \in 1..n /\ p + k <= l
    BY <1>6, <1>e
  <2>b. b = [a EXCEPT !.truncate = t, !.offset = k - 1] /\ a \in Stash
    OBVIOUS
  <2>1. t \in Index /\ k - 1 \in Nat
    BY ONLY <1>n, <2>a DEF Index
  <2>3. p + (k - 1) + 1 = t /\ k - 1 < n /\ t <= l
    BY ONLY <1>n, <2>a
  <2>4. ae' = Set(ae, i, b)
    BY <1>6, <1>e
  <2>5. IF t <= commitIndex[i] THEN Return(i, s)
        ELSE Emit(i, LogTruncate(t), "AE_TRUNCATE")
    BY <1>6, <1>e
  <2> HIDE DEF t, b
  <2>2. /\ b \in Stash /\ b.prev = a.prev /\ b.leader = a.leader
        /\ b.truncate = t /\ b.offset = k - 1
    BY ONLY <2>1, <2>b DEF Stash
  <2>6. StashMoves(i) /\ ae'[i] = b /\ pending'[i] = es
    BY <1>0, <1>6, <2>2, <2>4, AeSet, PendingSet
  <2>7. Stashed(i)'
    BY <2>2, <2>6 DEF Stashed
  <2>8. CASE Return(i, s)
    BY <1>0, <1>1, <1>6, <2>6, <2>7, <2>8, EndsIdle
  <2>9. CASE ~(t <= commitIndex[i]) /\ Emit(i, LogTruncate(t), "AE_TRUNCATE")
    <3>1. t > commitIndex'[i]
      BY <1>6, <2>1, <2>9, CalledFacts DEF progress, Index
    <3>2. /\ ae'[i].truncate = t /\ ae'[i].prev + ae'[i].offset + 1 = t
          /\ ae'[i].offset < Len(pending'[i])
      BY <1>e, <2>2, <2>3, <2>6
    <3> QED BY <1>0, <1>1, <1>6, <1>e, <2>1, <2>3, <2>6, <2>7, <2>9, <3>1, <3>2,
               EndsTruncate
  <2> QED BY <2>5, <2>8, <2>9
<1>7. ASSUME NEW k \in 1..Len(es)+1, k <= Len(es)
      PROVE  k \in 1..Len(es)
  BY <1>3, <1>7
<1> QED BY <1>4, <1>5, <1>6, <1>7, Zenon DEF AeApplyEntries

\* ae_process on a stashed request.
LEMMA ProcessHandled ==
    ASSUME NEW i \in Server, Called(i), Stands(i),
           NEW s \in {"NONE", "AE_HARD_STATE"},
           NEW a \in Stash, a.leader \in Server, NEW es \in Seq(Entry),
           a.prev + Len(es) <= IndexMax,
           AeProcess(i, s, a, es)
    PROVE  Handled(i)
<1>0. TypeOK /\ s \in Step /\ UNCHANGED lastLog
  BY DEF Called, Step, AeProcess
<1>1. /\ LastMoves(i) /\ LogReady(i) /\ lastIndex'[i] \in Index
      /\ UNCHANGED progress => ProgressMoves(i) /\ Settled(i)
  BY <1>0, LastStands
<1>2. PeersTyped /\ CursorTyped /\ PendingMoves(i)
  BY <1>0, UnchangedMoves DEF AeProcess
<1>3. StandingTyped
  BY <1>0 DEF AeProcess, TypeOK, StandingTyped, Set, Role, Id
<1> SUFFICES StashMoves(i) /\ ProgressMoves(i) /\ Ended(i)
  BY <1>1, <1>2, <1>3 DEF Handled, Moves, Ended
<1>4. CASE /\ pending' = Set(pending, i, es)
           /\ UNCHANGED progress
           /\ ReplyPrefixFailure(i, a)
  <2>1. PICK t \in Term, k \in Index :
           ae' = Set(ae, i, [a EXCEPT !.success = FALSE, !.match = 0,
                                      !.conflictTerm = t,
                                      !.conflictIndex = k])
    BY <1>4, Zenon DEF ReplyPrefixFailure
  <2> DEFINE b == [a EXCEPT !.success = FALSE, !.match = 0,
                            !.conflictTerm = t, !.conflictIndex = k]
  <2>2. 0 \in Index
    BY Limits DEF Index
  <2>3. b \in Stash /\ b.leader = a.leader
    BY <2>2 DEF Stash
  <2> HIDE DEF b
  <2>4. StashMoves(i) /\ ae'[i] = b
    BY <1>0, <1>4, <2>1, <2>3, AeSet, PendingSet DEF b
  <2>5. AeSendReply(i)
    BY <1>4 DEF ReplyPrefixFailure
  <2> QED BY <1>1, <1>4, <2>3, <2>4, <2>5, SendReplyEnds
<1>5. CASE /\ PrefixMatches(i, a)
           /\ AeApplyEntries(i, s, [a EXCEPT !.success = TRUE,
                                             !.match = MatchOf(i, a, es)], es)
  <2> DEFINE b == [a EXCEPT !.success = TRUE, !.match = MatchOf(i, a, es)]
  <2>1. a.prev \in Nat /\ Len(es) \in Nat /\ lastIndex[i] \in Nat
    BY <1>0, LenProperties, StashFields, Limits DEF TypeOK, Index
  <2>2. MatchOf(i, a, es) \in Index
    BY <2>1, Limits DEF MatchOf, Index
  <2>3. b \in Stash /\ b.leader = a.leader /\ b.prev = a.prev
    BY <2>2 DEF Stash
  <2>4. a.prev <= lastIndex[i]
    BY <1>5, <2>1 DEF PrefixMatches
  <2>5. AeApplyEntries(i, s, b, es)
    BY <1>5
  <2> HIDE DEF b
  <2> QED BY <1>0, <2>3, <2>4, <2>5, ApplyEntriesEnds
<1>6. CASE /\ ae' = Set(ae, i, a)
           /\ pending' = Set(pending, i, es)
           /\ Fault(i, s)
           /\ UNCHANGED progress
  <2>1. StashMoves(i)
    BY <1>0, <1>6, AeSet, PendingSet
  <2> QED BY <1>0, <1>1, <1>6, <2>1, EndsFault DEF Settled
<1> QED BY <1>4, <1>5, <1>6 DEF AeProcess

\* The refusal of a stale leader.
LEMMA RefusalHandled ==
    ASSUME NEW i \in Server, Called(i), Stands(i), Idle(i),
           UNCHANGED termVars, NEW j \in Server, SendAeFailure(i, j)
    PROVE  Handled(i)
<1>1. /\ LastMoves(i) /\ ProgressMoves(i) /\ Settled(i)
      /\ StashMoves(i) /\ (step[i] = "AE_HARD_STATE" => Stashed(i)')
  BY LastStands, IdleStep DEF SendAeFailure
<1>2. StandingTyped /\ PeersTyped /\ CursorTyped /\ PendingMoves(i)
  BY UnchangedMoves DEF SendAeFailure, Called
<1> DEFINE m == AppendResponse(i, j, currentTerm[i], FALSE, 0, 0,
                               Inc(lastIndex[i]))
<1>3. m \in Message
  <2>1. /\ currentTerm[i] \in Term /\ Inc(lastIndex[i]) \in Index
        /\ 0 \in Index /\ 0 \in Term
    <3>1. currentTerm[i] \in Term /\ lastIndex[i] \in Index
      BY DEF Called, TypeOK
    <3>2. 0 \in Index /\ 0 \in Term
      BY Limits DEF Index, Term
    <3> QED BY <3>1, <3>2, IncDec
  <2> QED BY <2>1, AppendResponseTyped
<1>4. Emit(i, Send(m), step[i])
  BY DEF SendAeFailure
<1> HIDE DEF m
<1>5. Ended(i)
  BY <1>1, <1>3, <1>4, EndsSend DEF Called, Idle
<1> QED BY <1>1, <1>2, <1>5 DEF Handled, Moves, Ended

\* A request the envelope check accepts fits the index type.
LEMMA RequestFits ==
    ASSUME NEW i \in Server, NEW m \in Message, m.type = "AE",
           EnvelopeValid(i, m)
    PROVE  /\ StashOf(m) \in Stash /\ StashOf(m).leader \in Server
           /\ StashOf(m).prev = m.prev
           /\ m.entries \in Seq(Entry)
           /\ m.prev + Len(m.entries) <= IndexMax
<1>1. /\ m.prev \in Index /\ m.prevTerm \in Term /\ m.commit \in Index
      /\ m.entries \in Seq(Entry) /\ m.from \in Server
      /\ Len(m.entries) \in Nat
  BY MessageFields, LenProperties
<1>2. NoStash \in Stash
  BY Limits DEF NoStash, Stash, Index, Term, Id
<1>3. /\ StashOf(m) \in Stash /\ StashOf(m).leader \in Server
      /\ StashOf(m).prev = m.prev
  BY <1>1, <1>2 DEF StashOf, Stash, Id
<1>4. m.prev + Len(m.entries) <= IndexMax
  <2>1. CASE m.entries = << >>
    BY <1>1, <2>1, EmptySeq, Limits DEF Index
  <2>2. CASE m.entries # << >>
    <3>1. m.prev <= IndexMax - Len(m.entries)
      BY <2>2 DEF EnvelopeValid
    <3> QED BY <1>1, <3>1, Limits DEF Index
  <2> QED BY <2>1, <2>2
<1> QED BY <1>1, <1>3, <1>4

\* raft89__recv_append_entries.
LEMMA AppendEntriesHandled ==
    ASSUME NEW i \in Server, Called(i), Stands(i), Idle(i),
           UNCHANGED termVars, NEW m \in Message, m.type = "AE",
           EnvelopeValid(i, m), RecvAppendEntries(i, m)
    PROVE  Handled(i)
<1>1. /\ m.from \in Server /\ m.term \in Term
      /\ StashOf(m) \in Stash /\ StashOf(m).leader \in Server
      /\ StashOf(m).prev = m.prev
      /\ m.entries \in Seq(Entry)
      /\ m.prev + Len(m.entries) <= IndexMax
  BY MessageFields, RequestFits
<1>2. CASE SendAeFailure(i, m.from)
  BY <1>1, <1>2, RefusalHandled
<1>3. CASE StartAeHardState(i, m)
  <2>1. LastMoves(i) /\ ProgressMoves(i) /\ Settled(i)
    BY <1>3, LastStands DEF StartAeHardState
  <2>2. PeersTyped /\ CursorTyped /\ PendingMoves(i)
    BY <1>3, UnchangedMoves DEF StartAeHardState, Called
  <2>3. StandingTyped
    BY <1>3 DEF StartAeHardState, Called, TypeOK, StandingTyped, Set, Role, Id
  <2>4. StashMoves(i) /\ ae'[i] = StashOf(m) /\ pending'[i] = m.entries
    BY <1>1, <1>3, AeSet, PendingSet DEF StartAeHardState, Called
  <2>5. Stashed(i)'
    BY <1>1, <2>4 DEF Stashed
  <2>6. Ended(i)
    BY <1>1, <1>3, <2>1, <2>5, EndsHardState DEF StartAeHardState, Called, Id
  <2> QED BY <2>1, <2>2, <2>3, <2>4, <2>6 DEF Handled, Moves, Ended
<1>4. CASE AeProcess(i, step[i], StashOf(m), m.entries)
  BY <1>1, <1>4, ProcessHandled DEF Idle
<1> QED BY <1>2, <1>3, <1>4 DEF RecvAppendEntries, StashFails, Called

---------------------------------------------------------------------------
(* Continuations after an acknowledged action.                             *)

\* raft89__ae_after_truncate: the append starts where the log now ends.
LEMMA AfterTruncateHandled ==
    ASSUME NEW i \in Server, Called(i), Stashed(i),
           ae[i].truncate = Len(log'[i]) + 1,
           ae[i].prev + ae[i].offset = Len(log'[i]),
           ae[i].offset < Len(pending[i]),
           commitIndex[i] <= Len(log'[i]),
           AeAfterTruncate(i)
    PROVE  Handled(i)
<1> DEFINE l == Len(log'[i])
           p == ae[i].prev
           o == ae[i].offset
           n == Len(pending[i])
           rest == SubSeq(pending[i], o + 1, n)
<1>1. /\ TypeOK /\ ae[i] \in Stash /\ pending[i] \in Seq(Entry)
      /\ commitIndex[i] \in Index
  BY DEF Called, TypeOK
<1>2. /\ p \in Nat /\ o \in Nat /\ n \in Nat /\ l \in Nat
      /\ IndexMax \in Nat /\ l <= IndexMax
      /\ o < n /\ p + o = l /\ p + n <= IndexMax
  <2>1. p \in Index /\ o \in Nat /\ n \in Nat /\ ae[i].truncate \in Index
    BY <1>1, StashFields, LenProperties
  <2> QED BY <2>1, CalledFacts, Limits DEF Index, Stashed
<1>3. UNCHANGED <<standing, peerView, cursor, pendingMsg, ae>>
  BY DEF AeAfterTruncate
<1>4. StandingTyped /\ PeersTyped /\ CursorTyped /\ PendingMoves(i)
  BY <1>1, <1>3, UnchangedMoves
<1>5. Dec(ae[i].truncate) = l
  <2>1. ae[i].truncate \in Index /\ ae[i].truncate > 0
    <3>1. ae[i].truncate \in Index
      BY <1>1, StashFields
    <3>2. ae[i].truncate = l + 1
      OBVIOUS
    <3> HIDE DEF l, p, o, n
    <3> QED BY ONLY <1>2, <3>1, <3>2
  <2> QED BY <1>2, <2>1, IncDec
<1>6. CASE /\ AeUpdateLast(i, l)
           /\ Emit(i, LogAppend(p + o + 1, rest), "AE_APPEND")
           /\ UNCHANGED <<progress, pending>>
  <2>1. /\ LastMoves(i) /\ lastIndex'[i] = l
        /\ lastTerm'[i] = LastTermOf(log'[i])
    <3>1. l \in Index /\ TermAt(i, l) \in Term
      BY <1>2, TermAtEnd DEF Index
    <3> QED BY <1>1, <1>6, <3>1, TermAtEnd
            DEF AeUpdateLast, TypeOK, LastMoves, Set
  <2>2. ProgressMoves(i) /\ StashMoves(i)
    BY <1>1, <1>3, <1>6, UnchangedMoves DEF stash
  <2>3. Settled(i)
    BY <1>6, <2>1, CalledFacts
       DEF Settled, Ordered, EndKnown, Called, progress
  <2>4. rest \in Seq(Entry) /\ Len(rest) = n - o
    <3>1. \A h \in o+1..n : pending[i][h] \in Entry
      BY <1>1, <1>2, ElementOfSeq
    <3>2. o + 1 \in Int /\ n \in Int /\ o + 1 <= n /\ n - (o + 1) + 1 = n - o
      <4> HIDE DEF l, p, o, n
      <4> QED BY ONLY <1>2
    <3> HIDE DEF o, n
    <3> QED BY <3>1, <3>2, SubSeqProperties
  <2>5. Emit(i, LogAppend(p + o + 1, rest), "AE_APPEND")
    BY <1>6
  <2>6. /\ Stashed(i)' /\ ae'[i].prev = p /\ Len(pending'[i]) = n
    BY <1>3, <1>6 DEF Stashed
  <2> HIDE DEF l, p, o, n, rest
  <2>7. /\ p + o + 1 = l + 1 /\ p + o + 1 \in Index
        /\ l + Len(rest) = p + n /\ l + Len(rest) <= IndexMax
        /\ Len(rest) # 0
    BY ONLY <1>2, <2>4 DEF Index
  <2>8. rest # << >>
    BY <2>7, EmptySeq
  <2>9. Ended(i)
    BY <1>1, <2>3, <2>4, <2>5, <2>6, <2>7, <2>8, EndsAppend DEF l
  <2> QED BY <1>4, <2>1, <2>2, <2>9 DEF Handled, Moves, Ended
<1>7. CASE LastUnreadable(i, l, "AE_TRUNCATE")
  <2>1. /\ UNCHANGED <<lastLog, progress, stash>>
        /\ Fault(i, "AE_TRUNCATE") /\ "AE_TRUNCATE" \in Step
    BY <1>3, <1>7 DEF LastUnreadable, stash, Step
  <2>2. LastMoves(i) /\ ProgressMoves(i) /\ StashMoves(i)
    BY <1>1, <2>1, UnchangedMoves
  <2>3. Ordered(i)'
    BY <2>1 DEF lastLog, progress, Called, Ordered
  <2>4. Ended(i)
    BY <1>1, <2>1, <2>3, EndsFault
  <2> QED BY <1>4, <2>2, <2>4 DEF Handled, Moves, Ended
<1> QED BY <1>5, <1>6, <1>7 DEF AeAfterTruncate

\* raft89__ae_after_append: the log ends where the request does.
LEMMA AfterAppendHandled ==
    ASSUME NEW i \in Server, Called(i), Stashed(i),
           ae[i].prev + Len(pending[i]) = Len(log'[i]),
           commitIndex[i] <= Len(log'[i]),
           AeAfterAppend(i)
    PROVE  Handled(i)
<1> DEFINE l == Len(log'[i])
<1>1. TypeOK /\ l \in Index
  BY CalledFacts DEF Called, Index
<1>2. UNCHANGED <<standing, peerView, cursor, pendingMsg, ae>>
  BY DEF AeAfterAppend
<1>3. StandingTyped /\ PeersTyped /\ CursorTyped /\ PendingMoves(i)
  BY <1>1, <1>2, UnchangedMoves
<1>4. CASE AeUpdateLast(i, l) /\ AeFinish(i, "AE_APPEND")
  <2>1. /\ LastMoves(i) /\ lastIndex'[i] = l
        /\ lastTerm'[i] = LastTermOf(log'[i])
    BY <1>1, <1>4, TermAtEnd DEF AeUpdateLast, TypeOK, LastMoves, Set
  <2>2. LogReady(i) /\ lastIndex'[i] \in Index
    BY <1>1, <2>1 DEF LogReady, EndKnown
  <2>3. AeMoves(i) /\ ae'[i].leader \in Server /\ "AE_APPEND" \in Step
    BY <1>1, <1>2 DEF TypeOK, AeMoves, Stashed, Step
  <2>4. StashMoves(i) /\ ProgressMoves(i) /\ Ended(i)
    BY <1>4, <2>2, <2>3, FinishEnds
  <2> QED BY <1>3, <2>1, <2>4 DEF Handled, Moves, Ended
<1>5. CASE LastUnreadable(i, l, "AE_APPEND")
  <2>1. /\ UNCHANGED <<lastLog, progress, stash>>
        /\ Fault(i, "AE_APPEND") /\ "AE_APPEND" \in Step
    BY <1>2, <1>5 DEF LastUnreadable, stash, Step
  <2>2. LastMoves(i) /\ ProgressMoves(i) /\ StashMoves(i)
    BY <1>1, <2>1, UnchangedMoves
  <2>3. Ordered(i)'
    BY <2>1 DEF lastLog, progress, Called, Ordered
  <2>4. Ended(i)
    BY <1>1, <2>1, <2>3, EndsFault
  <2> QED BY <1>3, <2>2, <2>4 DEF Handled, Moves, Ended
<1> QED BY <1>4, <1>5 DEF AeAfterAppend

\* raft89__apply_ack.
LEMMA ApplyAckHandled ==
    ASSUME NEW i \in Server, Called(i), Stands(i),
           appliedIndex[i] + 1 <= commitIndex[i],
           afterApply[i] = "AE_REPLY" => ae[i].leader \in Server,
           ApplyAck(i)
    PROVE  Handled(i)
<1> DEFINE k == appliedIndex[i] + 1
<1>1. /\ TypeOK /\ k \in Index /\ k <= commitIndex[i]
      /\ commitIndex[i] \in Index /\ Inc(appliedIndex[i]) = k
  <2>1. /\ TypeOK /\ appliedIndex[i] \in Index /\ commitIndex[i] \in Index
        /\ appliedIndex[i] < IndexMax
    BY CalledFacts, Limits DEF Called, Index
  <2>2. Inc(appliedIndex[i]) = k /\ k \in Index
    BY <2>1, IncDec
  <2> QED BY <2>1, <2>2
<1>2. /\ UNCHANGED <<standing, lastLog, commitIndex, peerView, cursor,
                     pendingMsg, stash>>
      /\ appliedIndex' = Set(appliedIndex, i, k)
  BY <1>1 DEF ApplyAck
<1>3. /\ StandingTyped /\ PeersTyped /\ CursorTyped /\ PendingMoves(i)
      /\ StashMoves(i)
  BY <1>1, <1>2, UnchangedMoves
<1>4. /\ LastMoves(i) /\ LogReady(i) /\ commitIndex'[i] = commitIndex[i]
      /\ appliedIndex'[i] = k
  BY <1>1, <1>2, LastStands DEF TypeOK, Set
<1>5. Settled(i)
  BY <1>1, <1>4, CalledFacts DEF Settled, Ordered, LogReady, Called
<1>6. ASSUME \/ UNCHANGED afterApply
             \/ afterApply' = Set(afterApply, i, "NONE")
      PROVE  ProgressMoves(i)
  BY <1>1, <1>2, <1>6 DEF TypeOK, ProgressMoves, Set
<1>7. CASE /\ k < commitIndex[i]
           /\ EmitNextApply(i, Inc(k), "NONE")
           /\ UNCHANGED afterApply
  <2>1. Inc(k) \in Index /\ Inc(k) = k + 1 /\ k + 1 <= commitIndex[i]
    <3>1. k < IndexMax /\ k + 1 <= commitIndex[i]
      BY <1>1, <1>7, Limits DEF Index
    <3> QED BY <1>1, <3>1, IncDec
  <2>2. /\ afterApply'[i] = "AE_REPLY" => ae'[i].leader \in Server
        /\ "NONE" \in Step
    BY <1>2, <1>7 DEF stash, Step
  <2> HIDE DEF k
  <2>3. CASE Fault(i, "NONE")
    BY <1>1, <1>3, <1>4, <1>5, <1>6, <1>7, <2>2, <2>3, EndsFault
       DEF Settled, Handled, Moves, Ended
  <2>4. ASSUME NEW e \in Entry, Emit(i, Apply(Inc(k), e), "APPLY")
        PROVE  Handled(i)
    <3>1. Ended(i)
      BY <1>1, <1>4, <1>5, <2>1, <2>2, <2>4, EndsApply
    <3> QED BY <1>3, <1>4, <1>6, <1>7, <3>1 DEF Handled, Moves, Ended
  <2> QED BY <1>7, <2>1, <2>3, <2>4, NextApply
<1>8. CASE /\ afterApply' = Set(afterApply, i, "NONE")
           /\ IF afterApply[i] = "AE_REPLY"
              THEN AeSendReply(i) ELSE Return(i, "NONE")
  <2>1. CASE afterApply[i] = "AE_REPLY" /\ AeSendReply(i)
    <3>1. ae'[i] \in Stash /\ ae'[i].leader \in Server
      BY <1>1, <1>2, <2>1 DEF TypeOK, stash
    <3>2. Ended(i)
      BY <1>5, <2>1, <3>1, SendReplyEnds
    <3> QED BY <1>3, <1>4, <1>6, <1>8, <3>2 DEF Handled, Moves, Ended
  <2>2. CASE Return(i, "NONE")
    <3>1. Ended(i)
      BY <1>1, <1>5, <2>2, EndsIdle
    <3> QED BY <1>3, <1>4, <1>6, <1>8, <3>1 DEF Handled, Moves, Ended
  <2> QED BY <1>8, <2>1, <2>2
<1> QED BY <1>1, <1>7, <1>8 DEF ApplyAck

\* The end of a chain of actions.
LEMMA EndOfChainHandled ==
    ASSUME NEW i \in Server, Called(i), Stands(i), EndOfChain(i)
    PROVE  Handled(i)
<1>1. LastMoves(i) /\ ProgressMoves(i) /\ Settled(i)
  BY LastStands DEF EndOfChain
<1>2. /\ StandingTyped /\ PeersTyped /\ CursorTyped /\ PendingMoves(i)
      /\ StashMoves(i)
  BY UnchangedMoves DEF EndOfChain, Called
<1>3. Ended(i)
  BY <1>1, EndsIdle DEF EndOfChain, Called
<1> QED BY <1>1, <1>2, <1>3 DEF Handled, Moves, Ended

---------------------------------------------------------------------------
(* The effect of an action on the log.                                     *)

\* An append at the end of the log, or of a first part of its entries.
LEMMA WrittenAtEnd ==
    ASSUME NEW l \in Seq(Entry), NEW es \in Seq(Entry)
    PROVE  Written(l, Len(l) + 1, es) = l \o es
<1>1. Len(l) \in Nat /\ Len(es) \in Nat
  BY LenProperties
<1>2. SubSeq(l, 1, (Len(l) + 1) - 1) = l
  <2>1. (Len(l) + 1) - 1 = Len(l)
    BY <1>1
  <2> QED BY <2>1, SubSeqFull
<1>3. SubSeq(l, (Len(l) + 1) + Len(es), Len(l)) = << >>
  <2>1. /\ (Len(l) + 1) + Len(es) \in Int /\ Len(l) \in Int
        /\ Len(l) < (Len(l) + 1) + Len(es)
    BY <1>1
  <2> QED BY <2>1, SubSeqEmpty
<1>4. l \o es \in Seq(Entry)
  BY ConcatProperties
<1>5. (l \o es) \o << >> = l \o es
  BY <1>4, ConcatEmptySeq
<1> QED BY <1>2, <1>3, <1>5 DEF Written

\* Length and last term of an extended log.
LEMMA ConcatEnd ==
    ASSUME NEW l \in Seq(Entry), NEW es \in Seq(Entry), es # << >>
    PROVE  /\ l \o es \in Seq(Entry)
           /\ Len(l \o es) = Len(l) + Len(es)
           /\ LastTermOf(l \o es) = Last(es).term
<1>1. /\ l \o es \in Seq(Entry)
      /\ Len(l \o es) = Len(l) + Len(es)
      /\ \A k \in 1..Len(l) + Len(es) :
            (l \o es)[k] = IF k <= Len(l) THEN l[k] ELSE es[k - Len(l)]
  BY ConcatProperties
<1>2. Len(l) \in Nat /\ Len(es) \in Nat /\ Len(es) # 0
  BY LenProperties, EmptySeq
<1> DEFINE k == Len(l) + Len(es)
<1>3. k \in 1..k /\ ~(k <= Len(l)) /\ k - Len(l) = Len(es) /\ k # 0
  BY <1>2
<1>4. (l \o es)[k] = es[Len(es)]
  BY <1>1, <1>3
<1>5. l \o es # << >>
  BY <1>1, <1>3, EmptySeq
<1> QED BY <1>1, <1>4, <1>5 DEF LastTermOf, Last

\* A log cut at an index.
LEMMA CutLog ==
    ASSUME NEW l \in Seq(Entry), NEW k \in Nat, k <= Len(l)
    PROVE  SubSeq(l, 1, k) \in Seq(Entry) /\ Len(SubSeq(l, 1, k)) = k
<1>1. \A h \in 1..k : l[h] \in Entry
  BY ElementOfSeq, LenProperties
<1> QED BY <1>1, SubSeqProperties

\* What the host does to the log and to the hard state when it executes the
\* outstanding action of i.
Effect(i) ==
    LET a == action[i]
    IN  /\ DurableMoves(i)
        /\ a.type = "HARD_STATE" =>
             hard'[i] = [term |-> a.term, vote |-> a.vote]
        /\ a.type # "HARD_STATE" => hard'[i] = hard[i]
        /\ a.type = "LOG_APPEND" => log'[i] = log[i] \o a.entries
        /\ a.type = "LOG_TRUNCATE" => log'[i] = SubSeq(log[i], 1, a.first - 1)
        /\ a.type \notin {"LOG_APPEND", "LOG_TRUNCATE"} => log'[i] = log[i]
        /\ Len(log'[i]) <= IndexMax

\* The complete effect of an action that fits the log.
LEMMA HostEffects ==
    ASSUME NEW i \in Server, TypeOK, LocalInv(i), HostEffect(i)
    PROVE  Effect(i)
<1> DEFINE a == action[i]
<1>1. /\ a \in Action /\ log[i] \in Seq(Entry) /\ Len(log[i]) \in Nat
      /\ Len(log[i]) <= IndexMax /\ app[i] \in Seq(Entry)
  BY LenProperties DEF TypeOK, LocalInv, Ordered
<1>2. /\ hard' \in [Server -> [term : Term, vote : Id]]
      /\ \A j \in Server \ {i} : hard'[j] = hard[j]
      /\ a.type = "HARD_STATE" =>
           hard'[i] = [term |-> a.term, vote |-> a.vote]
      /\ a.type # "HARD_STATE" => hard'[i] = hard[i]
  <2>1. CASE a.type = "HARD_STATE"
    <3>1. [term |-> a.term, vote |-> a.vote] \in [term : Term, vote : Id]
      BY <1>1, <2>1, ActionFields
    <3>2. hard' = Set(hard, i, [term |-> a.term, vote |-> a.vote])
      BY <2>1 DEF HostEffect
    <3> QED BY <2>1, <3>1, <3>2 DEF TypeOK, Set
  <2>2. CASE a.type # "HARD_STATE"
    BY <2>2 DEF HostEffect, TypeOK
  <2> QED BY <2>1, <2>2
<1>3. app' \in [Server -> Seq(Entry)]
  <2>1. CASE a.type = "APPLY"
    <3>1. Applied(app[i], a.index, a.entry) \in Seq(Entry)
      BY <1>1, <2>1, ActionFields, AppendProperties DEF Applied
    <3>2. app' = Set(app, i, Applied(app[i], a.index, a.entry))
      BY <2>1 DEF HostEffect
    <3> QED BY <3>1, <3>2 DEF TypeOK, Set
  <2>2. CASE a.type # "APPLY"
    BY <2>2 DEF HostEffect, TypeOK
  <2> QED BY <2>1, <2>2
<1>4. ASSUME NEW l \in Seq(Entry), log' = Set(log, i, l)
      PROVE  /\ log' \in [Server -> Seq(Entry)] /\ log'[i] = l
             /\ \A j \in Server \ {i} : log'[j] = log[j]
  BY <1>4 DEF TypeOK, Set
<1>5. CASE a.type = "LOG_APPEND"
  <2>1. /\ a.entries \in Seq(Entry) /\ a.entries # << >>
        /\ a.first = Len(log[i]) + 1
        /\ Len(log[i]) + Len(a.entries) <= IndexMax
    BY <1>1, <1>5, ActionFields DEF LocalInv, ActionFits
  <2>2. log' = Set(log, i, Written(log[i], a.first, a.entries))
    BY <1>5 DEF HostEffect
  <2>3. log' = Set(log, i, log[i] \o a.entries)
    BY <1>1, <2>1, <2>2, WrittenAtEnd
  <2>4. /\ log[i] \o a.entries \in Seq(Entry)
        /\ Len(log[i] \o a.entries) <= IndexMax
    BY <1>1, <2>1, ConcatEnd
  <2> QED BY <1>2, <1>3, <1>4, <1>5, <2>3, <2>4 DEF Effect, DurableMoves
<1>6. CASE a.type = "LOG_TRUNCATE"
  <2>1. a.first - 1 \in Nat /\ a.first - 1 <= Len(log[i])
    <3>1. a.first \in Index /\ commitIndex[i] \in Index
          /\ a.first > commitIndex[i] /\ a.first <= Len(log[i])
      BY <1>1, <1>6, ActionFields DEF LocalInv, ActionFits, TypeOK
    <3> QED BY <1>1, <3>1, Limits DEF Index
  <2>2. log' = Set(log, i, SubSeq(log[i], 1, a.first - 1))
    BY <1>6 DEF HostEffect
  <2>3. /\ SubSeq(log[i], 1, a.first - 1) \in Seq(Entry)
        /\ Len(SubSeq(log[i], 1, a.first - 1)) <= IndexMax
    BY <1>1, <2>1, CutLog, Limits
  <2> QED BY <1>2, <1>3, <1>4, <1>6, <2>2, <2>3 DEF Effect, DurableMoves
<1>7. CASE a.type \notin {"LOG_APPEND", "LOG_TRUNCATE"}
  <2>1. log' = log
    BY <1>7 DEF HostEffect
  <2> QED BY <1>1, <1>2, <1>3, <1>7, <2>1 DEF Effect, DurableMoves, TypeOK
<1> QED BY <1>5, <1>6, <1>7

---------------------------------------------------------------------------
(* The steps of the cluster.                                               *)

\* A public call finds its handler's preconditions.
LEMMA CallCalled ==
    ASSUME NodesInv, "nomem" \notin Faults, NEW i \in Server, Ready(i),
           UNCHANGED <<durable, termVars>>
    PROVE  Called(i) /\ Stands(i) /\ Idle(i)
<1>1. TypeOK /\ LocalInv(i) /\ ~faulted[i] /\ action[i] = NoAction
  BY DEF NodesInv, Ready
<1>2. DurableMoves(i) /\ TermMoves(i)
  BY <1>1, UnchangedMoves
<1>3. Called(i) /\ Stands(i)
  BY <1>1, <1>2 DEF Called, Stands, LocalInv, Ordered, EndKnown, HardKnown,
     durable, termVars
<1>4. Idle(i)
  BY <1>1, NoActionTyped DEF Idle, LocalInv, StepFits, StepsOf
<1> QED BY <1>3, <1>4

\* A handled call keeps the invariant.
LEMMA HandledKeeps ==
    ASSUME NodesInv, NEW i \in Server, Called(i), Handled(i),
           msgs' \in SUBSET Message
    PROVE  NodesInv'
BY NodesKept DEF Called, Handled

\* raft89_recv is a handled call.
LEMMA RecvHandled ==
    ASSUME NodesInv, "nomem" \notin Faults, NEW i \in Server, NEW m \in msgs,
           Recv(i, m)
    PROVE  Called(i) /\ Handled(i)
<1>1. m \in Message
  BY DEF NodesInv, TypeOK
<1>2. Called(i) /\ Stands(i) /\ Idle(i) /\ UNCHANGED termVars
  BY CallCalled DEF Recv
<1>3. CASE m.type = "RV" /\ RecvRequestVote(i, m)
  BY <1>1, <1>2, <1>3, RequestVoteHandled
<1>4. CASE m.type = "RVR" /\ RecvVoteResponse(i, m)
  BY <1>1, <1>2, <1>4, VoteResponseHandled
<1>5. CASE m.type = "AE" /\ RecvAppendEntries(i, m)
  <2>1. EnvelopeValid(i, m)
    BY DEF Recv
  <2> QED BY <1>1, <1>2, <1>5, <2>1, AppendEntriesHandled
<1>6. CASE m.type = "AER" /\ RecvAeResponse(i, m)
  BY <1>1, <1>2, <1>6, AeResponseHandled
<1> QED BY <1>2, <1>3, <1>4, <1>5, <1>6 DEF Recv

\* raft89_recv keeps the invariant.
LEMMA RecvKeeps ==
    ASSUME NodesInv, "nomem" \notin Faults, NEW i \in Server, NEW m \in msgs,
           Recv(i, m), UNCHANGED msgs
    PROVE  NodesInv'
<1>1. msgs' \in SUBSET Message
  BY DEF NodesInv, TypeOK
<1> QED BY <1>1, RecvHandled, HandledKeeps

\* raft89_tick is a handled call.
LEMMA TickCallHandled ==
    ASSUME NodesInv, "nomem" \notin Faults, NEW i \in Server, Tick(i)
    PROVE  Called(i) /\ Handled(i)
<1>1. Called(i) /\ Stands(i) /\ Idle(i) /\ UNCHANGED termVars
  BY CallCalled DEF Tick
<1> QED BY <1>1, TickHandled DEF Tick

\* raft89_tick keeps the invariant.
LEMMA TickKeeps ==
    ASSUME NodesInv, "nomem" \notin Faults, NEW i \in Server, Tick(i),
           UNCHANGED msgs
    PROVE  NodesInv'
<1>1. msgs' \in SUBSET Message
  BY DEF NodesInv, TypeOK
<1> QED BY <1>1, TickCallHandled, HandledKeeps

\* raft89_proposev is a handled call.
LEMMA ProposeCallHandled ==
    ASSUME NodesInv, "nomem" \notin Faults, NEW i \in Server,
           NEW cmds \in Batches, Propose(i, cmds)
    PROVE  Called(i) /\ Handled(i)
<1>1. cmds \in Seq(Command) \ {<< >>}
  BY BatchAssumption
<1>2. Called(i) /\ Stands(i) /\ Idle(i)
  BY CallCalled DEF Propose
<1> QED BY <1>1, <1>2, ProposeHandled DEF Propose

\* raft89_proposev keeps the invariant.
LEMMA ProposeKeeps ==
    ASSUME NodesInv, "nomem" \notin Faults, NEW i \in Server,
           NEW cmds \in Batches, Propose(i, cmds), UNCHANGED msgs
    PROVE  NodesInv'
<1>1. msgs' \in SUBSET Message
  BY DEF NodesInv, TypeOK
<1> QED BY <1>1, ProposeCallHandled, HandledKeeps

\* Which actions a continuation may belong to.
LEMMA StepActions ==
    ASSUME NEW i \in Server, action[i] \in Action, StepFits(i)
    PROVE  LET a == action[i]
           IN  /\ step[i] \in {"ELECTION_BROADCAST", "VOTE_RESPONSE",
                               "LEADER_BROADCAST", "AE_HARD_STATE", "APPLY",
                               "NONE", "STEP_DOWN"} =>
                    a.type \notin {"LOG_APPEND", "LOG_TRUNCATE"}
               /\ step[i] \in {"LEADER_APPEND", "AE_APPEND"} =>
                    a.type = "LOG_APPEND"
               /\ step[i] = "AE_TRUNCATE" => a.type = "LOG_TRUNCATE"
               /\ step[i] = "APPLY" => a.type = "APPLY"
<1>1. action[i].type \in {"NONE", "SEND", "HARD_STATE", "LOG_APPEND",
                          "LOG_TRUNCATE", "APPLY"}
  BY ActionFields
<1>2. step[i] \in StepsOf(action[i].type)
  BY DEF StepFits
<1> QED BY <1>1, <1>2 DEF StepsOf

\* raft89_action_done finds its continuation's preconditions.
LEMMA DoneCalled ==
    ASSUME NodesInv, "nomem" \notin Faults, NEW i \in Server, ActionDone(i)
    PROVE  /\ Called(i) /\ Effect(i)
           /\ action[i].type \notin {"LOG_APPEND", "LOG_TRUNCATE"} => Stands(i)
<1>1. TypeOK /\ LocalInv(i) /\ ~faulted[i] /\ action[i] \in Action
  BY DEF NodesInv, ActionDone, TypeOK
<1>2. Effect(i)
  BY <1>1, HostEffects DEF ActionDone
<1>3. TermMoves(i) /\ HardKnown(i)'
  <2>1. CASE action[i].type = "HARD_STATE"
    <3>1. action[i].term \in Term /\ action[i].vote \in Id
      BY <1>1, <2>1, ActionFields
    <3>2. /\ currentTerm' = Set(currentTerm, i, action[i].term)
          /\ votedFor' = Set(votedFor, i, action[i].vote)
      BY <2>1 DEF ActionDone, ApplyHardState
    <3>3. /\ TermMoves(i) /\ currentTerm'[i] = action[i].term
          /\ votedFor'[i] = action[i].vote
      BY <1>1, <3>1, <3>2 DEF TypeOK, TermMoves, Set
    <3> QED BY <1>2, <2>1, <3>3 DEF Effect, HardKnown
  <2>2. CASE action[i].type # "HARD_STATE"
    <3>1. UNCHANGED termVars
      BY <2>2 DEF ActionDone, ApplyHardState
    <3> QED BY <1>1, <1>2, <2>2, <3>1, UnchangedMoves
            DEF Effect, HardKnown, LocalInv, termVars
  <2> QED BY <2>1, <2>2
<1>4. Called(i)
  BY <1>1, <1>2, <1>3 DEF Called, Effect, LocalInv
<1> QED BY <1>1, <1>2, <1>4 DEF Effect, Stands, LocalInv, EndKnown

\* raft89_action_done ends well, whatever the continuation.
LEMMA DoneHandled ==
    ASSUME NodesInv, "nomem" \notin Faults, NEW i \in Server, ActionDone(i)
    PROVE  Called(i) /\ Effect(i) /\ Handled(i)
<1> DEFINE a == action[i]
<1>1. /\ TypeOK /\ LocalInv(i) /\ StepFits(i) /\ a \in Action
      /\ ActionDone(i) /\ EndKnown(i)
  BY DEF NodesInv, ActionDone, LocalInv, TypeOK
<1>3. /\ Called(i) /\ Effect(i)
      /\ a.type \notin {"LOG_APPEND", "LOG_TRUNCATE"} => Stands(i)
  BY <1>1, DoneCalled
<1> SUFFICES Handled(i)
  BY <1>3
<1>4. /\ log[i] \in Seq(Entry) /\ Len(log[i]) \in Nat
      /\ pending[i] \in Seq(Entry)
      /\ commitIndex[i] \in Nat /\ commitIndex[i] <= Len(log[i])
  <2>1. commitIndex[i] \in Index /\ commitIndex[i] <= lastIndex[i]
    BY <1>1 DEF TypeOK, LocalInv, Ordered
  <2>2. commitIndex[i] \in Nat
    BY ONLY <2>1, Limits DEF Index
  <2> QED BY <1>1, <2>1, <2>2, LenProperties DEF TypeOK, EndKnown
<1>5. ASSUME a.type = "LOG_APPEND"
      PROVE  /\ a.entries \in Seq(Entry) /\ a.entries # << >>
             /\ Len(a.entries) \in Nat
             /\ Len(log'[i]) = Len(log[i]) + Len(a.entries)
             /\ LastTermOf(log'[i]) = Last(a.entries).term
             /\ commitIndex[i] <= Len(log'[i])
  <2>1. /\ a.entries \in Seq(Entry) /\ a.entries # << >>
        /\ log'[i] = log[i] \o a.entries
    BY <1>1, <1>3, <1>5, ActionFields DEF LocalInv, ActionFits, Effect
  <2>2. /\ Len(log'[i]) = Len(log[i]) + Len(a.entries)
        /\ LastTermOf(log'[i]) = Last(a.entries).term
        /\ Len(a.entries) \in Nat
    BY <1>4, <2>1, ConcatEnd, LenProperties
  <2>3. commitIndex[i] <= Len(log'[i])
    <3> DEFINE c == commitIndex[i]
               l == Len(log[i])
               n == Len(a.entries)
               k == Len(log'[i])
    <3>1. c \in Nat /\ l \in Nat /\ n \in Nat /\ c <= l /\ k = l + n
      BY <1>4, <2>2
    <3> HIDE DEF c, l, n, k
    <3>2. c <= k
      BY ONLY <3>1
    <3> QED BY <3>2 DEF c, k
  <2> QED BY <2>1, <2>2, <2>3
<1>6. CASE step[i] = "ELECTION_BROADCAST" /\ ElectionSendNext(i)
  BY <1>1, <1>3, <1>6, StepActions, ElectionSendHandled
<1>7. CASE step[i] = "VOTE_RESPONSE" /\ VoteResponseSend(i)
  BY <1>1, <1>3, <1>7, StepActions, VoteSendHandled DEF StepFits
<1>8. CASE step[i] = "LEADER_BROADCAST" /\ LeaderBroadcastOn(i)
  <2>1. cursor[i] \in Nat
    BY <1>1 DEF TypeOK
  <2> QED BY <1>1, <1>3, <1>8, <2>1, StepActions, BroadcastHandled
          DEF LeaderBroadcastOn
<1>9. CASE step[i] = "LEADER_APPEND" /\ LeaderAfterAppend(i)
  <2>1. a.type = "LOG_APPEND" /\ a.entries = pending[i]
    BY <1>1, <1>9, StepActions DEF StepFits
  <2>2. /\ pending[i] # << >>
        /\ Len(log'[i]) = lastIndex[i] + Len(pending[i])
        /\ LastTermOf(log'[i]) = Last(pending[i]).term
    BY <1>1, <1>5, <2>1 DEF EndKnown
  <2> QED BY <1>3, <1>9, <2>2, LeaderAfterAppendHandled
<1>10. CASE step[i] = "AE_HARD_STATE" /\ AeContinue(i)
  <2>1. Stashed(i) /\ Stands(i) /\ ae[i] \in Stash
    BY <1>1, <1>3, <1>10, StepActions DEF StepFits, TypeOK
  <2> QED BY <1>3, <1>4, <1>10, <2>1, ProcessHandled DEF AeContinue, Stashed
<1>11. CASE step[i] = "AE_TRUNCATE" /\ AeAfterTruncate(i)
  <2>1. /\ a.type = "LOG_TRUNCATE" /\ Stashed(i)
        /\ ae[i].truncate = a.first /\ ae[i].offset < Len(pending[i])
        /\ ae[i].prev + ae[i].offset + 1 = a.first
    BY <1>1, <1>11, StepActions DEF StepFits
  <2>2. /\ a.first \in Index /\ a.first > commitIndex[i]
        /\ a.first <= Len(log[i])
        /\ log'[i] = SubSeq(log[i], 1, a.first - 1)
    BY <1>1, <1>3, <2>1, ActionFields DEF LocalInv, ActionFits, Effect
  <2>3. a.first - 1 \in Nat /\ a.first - 1 <= Len(log[i]) /\ a.first \in Nat
    <3> DEFINE f == a.first
               c == commitIndex[i]
               l == Len(log[i])
    <3>1. f \in Index /\ c \in Nat /\ l \in Nat /\ f > c /\ f <= l
      BY <1>4, <2>2
    <3> HIDE DEF f, c, l
    <3>2. f - 1 \in Nat /\ f - 1 <= l /\ f \in Nat
      BY ONLY <3>1, Limits DEF Index
    <3> QED BY <3>2 DEF f, l
  <2>4. Len(log'[i]) = a.first - 1
    BY <1>4, <2>2, <2>3, CutLog
  <2>5. ae[i].prev \in Nat /\ ae[i].offset \in Nat
    <3>1. ae[i].prev \in Index /\ ae[i].offset \in Nat
      BY <1>1, StashFields DEF TypeOK
    <3> QED BY ONLY <3>1, Limits DEF Index
  <2>6. /\ a.first = Len(log'[i]) + 1 /\ commitIndex[i] <= Len(log'[i])
        /\ ae[i].prev + ae[i].offset = Len(log'[i])
    <3> DEFINE f == a.first
               c == commitIndex[i]
               k == Len(log'[i])
               p == ae[i].prev
               o == ae[i].offset
    <3>1. /\ f \in Nat /\ c \in Nat /\ p \in Nat /\ o \in Nat
          /\ f > c /\ k = f - 1 /\ p + o + 1 = f
      BY <1>4, <2>1, <2>2, <2>3, <2>4, <2>5
    <3> HIDE DEF f, c, k, p, o
    <3>2. f = k + 1 /\ c <= k /\ p + o = k
      BY ONLY <3>1
    <3> QED BY <3>2 DEF f, c, k, p, o
  <2> QED BY <1>3, <1>11, <2>1, <2>6, AfterTruncateHandled
<1>12. CASE step[i] = "AE_APPEND" /\ AeAfterAppend(i)
  <2>1. /\ a.type = "LOG_APPEND" /\ Stashed(i)
        /\ ae[i].prev + Len(pending[i]) = Len(log[i]) + Len(a.entries)
    BY <1>1, <1>12, StepActions DEF StepFits
  <2> QED BY <1>3, <1>5, <1>12, <2>1, AfterAppendHandled
<1>13. CASE step[i] = "APPLY" /\ ApplyAck(i)
  <2>1. /\ a.type = "APPLY" /\ Stands(i)
        /\ afterApply[i] = "AE_REPLY" => ae[i].leader \in Server
    BY <1>1, <1>3, <1>13, StepActions DEF StepFits
  <2>2. appliedIndex[i] + 1 <= commitIndex[i]
    BY <1>1, <2>1 DEF LocalInv, ActionFits
  <2> QED BY <1>3, <1>13, <2>1, <2>2, ApplyAckHandled
<1>14. CASE step[i] \in {"NONE", "STEP_DOWN"} /\ EndOfChain(i)
  BY <1>1, <1>3, <1>14, StepActions, EndOfChainHandled
<1> QED BY <1>1, <1>6, <1>7, <1>8, <1>9, <1>10, <1>11, <1>12, <1>13, <1>14
        DEF ActionDone, Resume

\* raft89_action_done keeps the invariant.
LEMMA DoneKeeps ==
    ASSUME NodesInv, "nomem" \notin Faults, NEW i \in Server, Done(i)
    PROVE  NodesInv'
<1>1. TypeOK /\ action[i] \in Action /\ ActionDone(i)
  BY DEF NodesInv, TypeOK, Done
<1>2. msgs' \in SUBSET Message
  <2>1. Outgoing(i) \in SUBSET Message
    BY <1>1, ActionFields DEF Outgoing
  <2> QED BY <1>1, <2>1 DEF Done, TypeOK
<1> QED BY <1>1, <1>2, DoneHandled, HandledKeeps

\* RAFT89_ACTION_FATAL keeps the invariant.
LEMMA FatalKeeps ==
    ASSUME NodesInv, NEW i \in Server, Fatal(i)
    PROVE  NodesInv'
<1>1. /\ TypeOK /\ LocalInv(i)
      /\ faulted' = Set(faulted, i, TRUE)
      /\ UNCHANGED <<durable, termVars, standing, lastLog, progress, peerView,
                     action, step, cursor, pendingMsg, stash>>
      /\ msgs' \in SUBSET Message
  BY DEF NodesInv, Fatal, ActionFatal, TypeOK
<1>2. DurableMoves(i) /\ TermMoves(i)
  BY <1>1, UnchangedMoves
<1>3. /\ StandingTyped /\ LastMoves(i) /\ ProgressMoves(i) /\ PeersTyped
      /\ CursorTyped /\ PendingMoves(i) /\ StashMoves(i)
  BY <1>1, UnchangedMoves
<1>4. ControlMoves(i) /\ faulted'[i]
  BY <1>1 DEF TypeOK, ControlMoves, Set
<1>5. Ordered(i)'
  BY <1>1 DEF LocalInv, Ordered, durable, lastLog, progress
<1>6. ActionFits(i)'
  BY <1>1 DEF LocalInv, ActionFits, durable, progress
<1>7. LocalInv(i)'
  BY <1>4, <1>5, <1>6 DEF LocalInv
<1> QED BY <1>1, <1>2, <1>3, <1>4, <1>7, NodesKept DEF Moves

\* Whatever part of the outstanding action was done when the host crashed,
\* the log is a log within the limits.
LEMMA PartialEffects ==
    ASSUME NEW i \in Server, TypeOK, LocalInv(i), PartialEffect(i)
    PROVE  DurableMoves(i) /\ Len(log'[i]) <= IndexMax
<1> DEFINE a == action[i]
<1>1. /\ a \in Action /\ log[i] \in Seq(Entry) /\ Len(log[i]) \in Nat
      /\ Len(log[i]) <= IndexMax
  BY LenProperties DEF TypeOK, LocalInv, Ordered
<1>2. ASSUME NEW l \in Seq(Entry), Len(l) <= IndexMax,
             log' = Set(log, i, l), UNCHANGED <<hard, app>>
      PROVE  DurableMoves(i) /\ Len(log'[i]) <= IndexMax
  BY <1>2 DEF TypeOK, Set, DurableMoves
<1>3. CASE UNCHANGED durable
  BY <1>1, <1>3, UnchangedMoves DEF durable
<1>4. CASE HostEffect(i)
  BY <1>4, HostEffects DEF Effect
<1>5. ASSUME a.type = "LOG_APPEND", NEW n \in 1..Len(a.entries)-1,
             log' = Set(log, i, Written(log[i], a.first,
                                        SubSeq(a.entries, 1, n))),
             UNCHANGED <<hard, app>>
      PROVE  DurableMoves(i) /\ Len(log'[i]) <= IndexMax
  <2> DEFINE es == SubSeq(a.entries, 1, n)
  <2>1. /\ a.entries \in Seq(Entry) /\ a.first = Len(log[i]) + 1
        /\ Len(log[i]) + Len(a.entries) <= IndexMax
        /\ Len(a.entries) \in Nat
    BY <1>1, <1>5, ActionFields, LenProperties DEF LocalInv, ActionFits
  <2>2. n \in Nat /\ n <= Len(a.entries) /\ n # 0
    BY <2>1
  <2>3. es \in Seq(Entry) /\ Len(es) = n
    BY <2>1, <2>2, CutLog
  <2> HIDE DEF es
  <2>4. log' = Set(log, i, Written(log[i], Len(log[i]) + 1, es))
    BY <1>5, <2>1 DEF es
  <2>5. Written(log[i], Len(log[i]) + 1, es) = log[i] \o es
    BY <1>1, <2>3, WrittenAtEnd
  <2>6. es # << >>
    BY <2>2, <2>3, EmptySeq
  <2>7. log[i] \o es \in Seq(Entry) /\ Len(log[i] \o es) = Len(log[i]) + n
    BY <1>1, <2>3, <2>6, ConcatEnd
  <2>8. Len(log[i]) + n <= IndexMax
    <3> DEFINE l == Len(log[i])
               k == Len(a.entries)
    <3>1. l \in Nat /\ k \in Nat /\ n \in Nat /\ n <= k /\ l + k <= IndexMax
      BY <1>1, <2>1, <2>2
    <3> HIDE DEF l, k
    <3>2. l + n <= IndexMax
      BY ONLY <3>1, Limits
    <3> QED BY <3>2 DEF l
  <2> QED BY <1>2, <1>5, <2>4, <2>5, <2>7, <2>8
<1>6. ASSUME a.type = "LOG_TRUNCATE", NEW k \in a.first..Len(log[i])-1,
             log' = Set(log, i, SubSeq(log[i], 1, k)),
             UNCHANGED <<hard, app>>
      PROVE  DurableMoves(i) /\ Len(log'[i]) <= IndexMax
  <2>1. a.first \in Index
    BY <1>1, <1>6, ActionFields
  <2>2. k \in Nat /\ k <= Len(log[i]) /\ k <= IndexMax
    BY <1>1, <2>1, Limits DEF Index
  <2>3. SubSeq(log[i], 1, k) \in Seq(Entry) /\ Len(SubSeq(log[i], 1, k)) = k
    BY <1>1, <2>2, CutLog
  <2> QED BY <1>2, <1>6, <2>2, <2>3
<1> QED BY <1>3, <1>4, <1>5, <1>6 DEF PartialEffect

\* The last term of a log is a term.
LEMMA LastTermTyped ==
    ASSUME NEW l \in Seq(Entry)
    PROVE  LastTermOf(l) \in Term
<1>1. CASE l = << >>
  BY <1>1, Limits DEF LastTermOf, Term
<1>2. CASE l # << >>
  <2>1. Len(l) \in 1..Len(l)
    BY <1>2, LenProperties, EmptySeq
  <2> QED BY <1>2, <2>1, EntryTerm DEF LastTermOf, Last
<1> QED BY <1>1, <1>2

\* A crash at any point, and raft89_create, keep the invariant.
LEMMA RestartKeeps ==
    ASSUME NodesInv, NEW i \in Server, CrashRestart(i)
    PROVE  NodesInv'
<1>1. TypeOK /\ LocalInv(i) /\ Restart(i) /\ action[i] \in Action
  BY DEF NodesInv, CrashRestart, TypeOK
<1>2. DurableMoves(i) /\ Len(log'[i]) <= IndexMax
  BY <1>1, PartialEffects DEF Restart
<1>3. /\ log'[i] \in Seq(Entry) /\ Len(log'[i]) \in Nat
      /\ hard'[i] \in [term : Term, vote : Id]
      /\ app'[i] \in Seq(Entry) /\ Len(app'[i]) \in Nat
  BY <1>2, LenProperties DEF DurableMoves
<1>4. Len(log'[i]) \in Index /\ LastTermOf(log'[i]) \in Term /\ 0 \in Index
  BY <1>2, <1>3, LastTermTyped, Limits DEF Index
<1>5. msgs' \in SUBSET Message
  <2>1. Outgoing(i) \in SUBSET Message
    BY <1>1, ActionFields DEF Outgoing
  <2> QED BY <1>1, <2>1 DEF CrashRestart, TypeOK
<1>6. /\ TermMoves(i) /\ currentTerm'[i] = hard'[i].term
      /\ votedFor'[i] = hard'[i].vote
  <2>1. /\ currentTerm' = Set(currentTerm, i, hard'[i].term)
        /\ votedFor' = Set(votedFor, i, hard'[i].vote)
    BY <1>1 DEF Restart
  <2> QED BY <1>1, <1>3, <2>1 DEF TypeOK, TermMoves, Set
<1>7. StandingTyped
  <2>1. /\ role' = Set(role, i, "FOLLOWER")
        /\ leaderId' = Set(leaderId, i, NoId)
        /\ votes' = Set(votes, i, {})
    BY <1>1 DEF Restart
  <2> QED BY <1>1, <2>1 DEF TypeOK, StandingTyped, Set, Role, Id
<1>8. /\ LastMoves(i) /\ lastIndex'[i] = Len(log'[i])
      /\ lastTerm'[i] = LastTermOf(log'[i])
  <2>1. /\ lastIndex' = Set(lastIndex, i, Len(log'[i]))
        /\ lastTerm' = Set(lastTerm, i, LastTermOf(log'[i]))
    BY <1>1 DEF Restart
  <2> QED BY <1>1, <1>4, <2>1 DEF TypeOK, LastMoves, Set
<1>9. PICK c \in 0..Len(app'[i]) :
        /\ c <= Len(log'[i])
        /\ commitIndex' = Set(commitIndex, i, c)
        /\ appliedIndex' = Set(appliedIndex, i, c)
  BY <1>1 DEF Restart
<1>10. c \in Index
  BY <1>2, <1>3, <1>9, Limits DEF Index
<1>11. /\ ProgressMoves(i) /\ commitIndex'[i] = c /\ appliedIndex'[i] = c
  <2>1. afterApply' = Set(afterApply, i, "NONE")
    BY <1>1 DEF Restart
  <2> QED BY <1>1, <1>9, <1>10, <2>1 DEF TypeOK, ProgressMoves, Set
<1>12. PeersTyped /\ CursorTyped
  <2>1. /\ nextIndex' = Set(nextIndex, i, [j \in Server |-> 0])
        /\ matchIndex' = Set(matchIndex, i, [j \in Server |-> 0])
        /\ cursor' = Set(cursor, i, 0)
    BY <1>1 DEF Restart
  <2> QED BY <1>1, <1>4, <2>1 DEF TypeOK, PeersTyped, CursorTyped, Set
<1>13. /\ ControlMoves(i) /\ action'[i] = NoAction /\ step'[i] = "NONE"
  <2>1. /\ faulted' = Set(faulted, i, FALSE)
        /\ action' = Set(action, i, NoAction)
        /\ step' = Set(step, i, "NONE")
    BY <1>1 DEF Restart
  <2> QED BY <1>1, <2>1, NoActionTyped DEF TypeOK, ControlMoves, Set, Step
<1>14. PendingMoves(i)
  <2>1. pendingMsg' = Set(pendingMsg, i, NoMsg)
    BY <1>1 DEF Restart
  <2> QED BY <1>1, <2>1 DEF TypeOK, PendingMoves, Set
<1>15. StashMoves(i)
  <2>1. NoStash \in Stash
    BY Limits DEF NoStash, Stash, Index, Term, Id
  <2>2. AeMoves(i)
    BY <1>1, <2>1, AeSet DEF Restart
  <2> QED BY <1>1, <2>2, EmptySeq, PendingSet DEF Restart
<1>16. LocalInv(i)'
  <2>1. Ordered(i)'
    BY <1>2, <1>3, <1>8, <1>9, <1>11 DEF Ordered
  <2>2. ActionFits(i)'
    BY <1>13, NoActionTyped DEF ActionFits
  <2>3. EndKnown(i)' /\ HardKnown(i)'
    BY <1>3, <1>6, <1>8 DEF EndKnown, HardKnown
  <2>4. StepFits(i)'
    BY <1>13, NoActionTyped DEF StepFits, StepsOf
  <2> QED BY <2>1, <2>2, <2>3, <2>4 DEF LocalInv
<1> QED BY <1>2, <1>5, <1>6, <1>7, <1>8, <1>11, <1>12, <1>13, <1>14, <1>15,
           <1>16, NodesKept DEF Moves

\* A cluster starts in the invariant.
LEMMA NodesInit == Init => NodesInv
<1> SUFFICES ASSUME Init PROVE NodesInv
  OBVIOUS
<1>1. PICK b \in Boot : hard = b.hard /\ log = b.log /\ app = b.app
  BY DEF Init
<1>2. /\ hard \in [Server -> [term : Term, vote : Id]]
      /\ log \in [Server -> Seq(Entry)]
      /\ app \in [Server -> Seq(Entry)]
      /\ \A i \in Server : Len(app[i]) <= Len(log[i]) /\ Len(log[i]) <= IndexMax
  BY <1>1, BootAssumption DEF BootState
<1>3. ASSUME NEW i \in Server
      PROVE  /\ Len(log[i]) \in Index /\ Len(app[i]) \in Index
             /\ LastTermOf(log[i]) \in Term
  <2>1. Len(log[i]) \in Nat /\ Len(app[i]) \in Nat
    BY <1>2, LenProperties
  <2>2. Len(app[i]) <= Len(log[i]) /\ Len(log[i]) <= IndexMax
    BY <1>2
  <2> QED BY <1>2, <2>1, <2>2, LastTermTyped, Limits DEF Index
<1>4. TypeOK
  <2>1. 0 \in Index /\ NoStash \in Stash
    BY Limits DEF NoStash, Stash, Index, Term, Id
  <2>2. /\ currentTerm \in [Server -> Term] /\ votedFor \in [Server -> Id]
        /\ role \in [Server -> Role] /\ leaderId \in [Server -> Id]
        /\ votes \in [Server -> SUBSET Server]
    BY <1>2 DEF Init, Role, Id
  <2>3. /\ lastIndex \in [Server -> Index] /\ lastTerm \in [Server -> Term]
        /\ commitIndex \in [Server -> Index]
        /\ appliedIndex \in [Server -> Index]
    BY <1>3 DEF Init
  <2>4. /\ afterApply \in [Server -> {"NONE", "AE_REPLY"}]
        /\ nextIndex \in [Server -> [Server -> Index]]
        /\ matchIndex \in [Server -> [Server -> Index]]
        /\ faulted \in [Server -> BOOLEAN]
    BY <2>1 DEF Init
  <2>5. /\ action \in [Server -> Action] /\ step \in [Server -> Step]
        /\ cursor \in [Server -> Nat]
        /\ pendingMsg \in [Server -> VoteResponseMsg \union {NoMsg}]
    BY NoActionTyped DEF Init, Step
  <2>6. /\ ae \in [Server -> Stash] /\ pending \in [Server -> Seq(Entry)]
        /\ msgs \in SUBSET Message
    BY <2>1, EmptySeq DEF Init
  <2> QED BY <1>2, <2>2, <2>3, <2>4, <2>5, <2>6 DEF TypeOK
<1>5. ASSUME NEW i \in Server
      PROVE  LocalInv(i)
  <2>1. /\ action[i] = NoAction /\ step[i] = "NONE"
        /\ lastIndex[i] = Len(log[i]) /\ lastTerm[i] = LastTermOf(log[i])
        /\ commitIndex[i] = Len(app[i]) /\ appliedIndex[i] = Len(app[i])
        /\ currentTerm[i] = hard[i].term /\ votedFor[i] = hard[i].vote
    BY DEF Init
  <2>2. Ordered(i)
    BY <1>2, <1>3, <2>1, Limits DEF Ordered, Index
  <2>3. ActionFits(i)
    BY <2>1, NoActionTyped DEF ActionFits
  <2>4. EndKnown(i) /\ HardKnown(i)
    BY <1>2, <2>1 DEF EndKnown, HardKnown
  <2>5. StepFits(i)
    BY <2>1, NoActionTyped DEF StepFits, StepsOf
  <2> QED BY <2>2, <2>3, <2>4, <2>5 DEF LocalInv
<1> QED BY <1>4, <1>5 DEF NodesInv

\* Every step of the cluster keeps the invariant.
LEMMA NodesNext ==
    ASSUME NodesInv, "nomem" \notin Faults, [Next]_vars
    PROVE  NodesInv'
<1>1. CASE UNCHANGED vars
  <2>1. UNCHANGED <<durable, termVars, standing, lastLog, progress, peerView,
                    control, cursor, pendingMsg, stash, msgs>>
    BY <1>1 DEF vars, nodeVars
  <2>2. TypeOK'
    BY <2>1 DEF NodesInv, TypeOK, durable, termVars, standing, lastLog,
       progress, peerView, control, stash
  <2>3. ASSUME NEW i \in Server
        PROVE  LocalInv(i)'
    <3>1. LocalInv(i)
      BY DEF NodesInv
    <3> QED BY <2>1, <3>1 DEF LocalInv, Ordered, ActionFits, EndKnown,
               HardKnown, StepFits, Stashed, durable, termVars, lastLog,
               progress, control, stash
  <2> QED BY <2>2, <2>3 DEF NodesInv
<1>2. ASSUME NEW i \in Server, Receive(i)
      PROVE  NodesInv'
  BY <1>2, RecvKeeps DEF Receive
<1>3. ASSUME NEW i \in Server, Timeout(i)
      PROVE  NodesInv'
  BY <1>3, TickKeeps DEF Timeout
<1>4. ASSUME NEW i \in Server, ClientRequest(i)
      PROVE  NodesInv'
  BY <1>4, ProposeKeeps DEF ClientRequest
<1>5. ASSUME NEW i \in Server, Done(i)
      PROVE  NodesInv'
  BY <1>5, DoneKeeps
<1>6. ASSUME NEW i \in Server, Fatal(i)
      PROVE  NodesInv'
  BY <1>6, FatalKeeps
<1>7. ASSUME NEW i \in Server, CrashRestart(i)
      PROVE  NodesInv'
  BY <1>7, RestartKeeps
<1> QED BY <1>1, <1>2, <1>3, <1>4, <1>5, <1>6, <1>7 DEF Next

---------------------------------------------------------------------------
(* Theorems.                                                               *)

\* Without a failing malloc, no node ever leaves NodesInv.
THEOREM NodesInvariance ==
    ASSUME "nomem" \notin Faults
    PROVE  Spec => []NodesInv
<1>1. Init => NodesInv
  BY NodesInit
<1>2. NodesInv /\ [Next]_vars => NodesInv'
  BY NodesNext
<1> QED BY <1>1, <1>2, PTL DEF Spec

\* Every field of every node, of its store and of every message stays within
\* its type: no index or term leaves its width and nothing unset is sent
\* (struct raft89, the limit checks of raft89_proposev and of raft89_recv).
THEOREM TypeCorrect ==
    ASSUME "nomem" \notin Faults
    PROVE  Spec => []TypeOK
<1>1. NodesInv => TypeOK
  BY DEF NodesInv
<1> QED BY <1>1, NodesInvariance, PTL

\* The positions raft89_status_get reports are always ordered
\* (raft89__advance_commit, ae_update_last, raft89__apply_ack).
THEOREM IndexOrderHolds ==
    ASSUME "nomem" \notin Faults
    PROVE  Spec => []IndexOrder
<1>1. NodesInv => IndexOrder
  BY DEF NodesInv, LocalInv, Ordered, IndexOrder
<1> QED BY <1>1, NodesInvariance, PTL

\* What a node believes of its log and its hard state is what is durable
\* (ae_update_last, raft89__leader_after_append, raft89__apply_hard_state).
THEOREM CacheCoherentHolds ==
    ASSUME "nomem" \notin Faults
    PROVE  Spec => []CacheCoherent
<1>1. NodesInv => CacheCoherent
  BY DEF NodesInv, LocalInv, EndKnown, HardKnown, CacheCoherent
<1> QED BY <1>1, NodesInvariance, PTL

============================================================================
