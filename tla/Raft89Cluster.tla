--------------------------- MODULE Raft89Cluster ---------------------------
(***************************************************************************)
(* A cluster of libraft89 nodes, their hosts and the network.              *)
(*                                                                         *)
(* msgs holds every message ever handed to the network and never shrinks:  *)
(* a message may be received late, out of order, more than once or never.  *)
(* A SEND acknowledged with RAFT89_ACTION_LOST is a message nobody         *)
(* receives.                                                               *)
(***************************************************************************)
EXTENDS Raft89Node

CONSTANTS
    Boot,        \* durable states of the cluster when it is started
    Batches,     \* command lists the clients propose
    \* Bounds of the environment:
    Electors,    \* nodes whose election timeout may expire
    Beaters,     \* leaders whose heartbeat interval may expire
    Restarters,  \* nodes whose host may crash
    Links,       \* pairs of nodes the network connects, in both directions
    MaxLog,      \* longest log a proposal may produce
    MaxBusy      \* nodes with an outstanding action at the same time

BootState ==
    [hard : [Server -> [term : Term, vote : Id]],
     log : [Server -> Seq(Entry)],
     app : [Server -> Seq(Entry)]]

ASSUME BootAssumption ==
    /\ Boot # {}
    /\ Boot \subseteq BootState
    /\ \A b \in Boot, i \in Server :
          /\ Len(b.app[i]) <= Len(b.log[i])
          /\ Len(b.log[i]) <= IndexMax

\* raft89_proposev refuses an empty list.
ASSUME BatchAssumption == Batches \subseteq Seq(Command) \ {<< >>}

VARIABLE msgs

vars == <<nodeVars, msgs>>

Init ==
    /\ \E b \in Boot : hard = b.hard /\ log = b.log /\ app = b.app
    /\ currentTerm = [i \in Server |-> hard[i].term]
    /\ votedFor = [i \in Server |-> hard[i].vote]
    /\ role = [i \in Server |-> "FOLLOWER"]
    /\ leaderId = [i \in Server |-> NoId]
    /\ votes = [i \in Server |-> {}]
    /\ lastIndex = [i \in Server |-> Len(log[i])]
    /\ lastTerm = [i \in Server |-> LastTermOf(log[i])]
    /\ commitIndex = [i \in Server |-> Len(app[i])]
    /\ appliedIndex = [i \in Server |-> Len(app[i])]
    /\ afterApply = [i \in Server |-> "NONE"]
    /\ nextIndex = [i \in Server |-> [j \in Server |-> 0]]
    /\ matchIndex = [i \in Server |-> [j \in Server |-> 0]]
    /\ faulted = [i \in Server |-> FALSE]
    /\ action = [i \in Server |-> NoAction]
    /\ step = [i \in Server |-> "NONE"]
    /\ cursor = [i \in Server |-> 0]
    /\ pendingMsg = [i \in Server |-> NoMsg]
    /\ ae = [i \in Server |-> NoStash]
    /\ pending = [i \in Server |-> << >>]
    /\ msgs = {}

---------------------------------------------------------------------------

\* A host may make a call; the others may be in the middle of theirs.
MayCall == Cardinality({j \in Server : action[j] # NoAction}) < MaxBusy

Receive(i) ==
    /\ MayCall
    /\ \E m \in msgs : {i, m.from} \in Links /\ Recv(i, m)
    /\ UNCHANGED msgs

Timeout(i) ==
    /\ MayCall
    /\ i \in (IF role[i] = "LEADER" THEN Beaters ELSE Electors)
    /\ Tick(i)
    /\ UNCHANGED msgs

ClientRequest(i) ==
    /\ MayCall
    /\ \E cmds \in Batches :
          /\ lastIndex[i] + Len(cmds) <= MaxLog
          /\ Propose(i, cmds)
    /\ UNCHANGED msgs

\* What the outstanding action puts on the network.
Outgoing(i) ==
    IF action[i].type = "SEND" /\ {i, action[i].msg.to} \in Links
    THEN {action[i].msg}
    ELSE {}

Done(i) ==
    /\ ActionDone(i)
    /\ msgs' = msgs \union Outgoing(i)

Fatal(i) ==
    /\ ActionFatal(i)
    /\ UNCHANGED msgs

CrashRestart(i) ==
    /\ i \in Restarters \/ faulted[i]
    /\ Restart(i)
    /\ msgs' = msgs \union Outgoing(i)

Next ==
    \E i \in Server :
        \/ Receive(i)
        \/ Timeout(i)
        \/ ClientRequest(i)
        \/ Done(i)
        \/ Fatal(i)
        \/ CrashRestart(i)

Spec == Init /\ [][Next]_vars

\* The host loop drains: an outstanding action is eventually executed and
\* acknowledged (examples/host_loop.c, drain).
Draining == \A i \in Server : WF_vars(Done(i))

FairSpec == Spec /\ Draining

---------------------------------------------------------------------------
(* Type correctness: every field of struct raft89, the store, the          *)
(* application and the network.                                            *)
TypeOK ==
    /\ hard \in [Server -> [term : Term, vote : Id]]
    /\ log \in [Server -> Seq(Entry)]
    /\ app \in [Server -> Seq(Entry)]
    /\ currentTerm \in [Server -> Term]
    /\ votedFor \in [Server -> Id]
    /\ role \in [Server -> Role]
    /\ leaderId \in [Server -> Id]
    /\ votes \in [Server -> SUBSET Server]
    /\ lastIndex \in [Server -> Index]
    /\ lastTerm \in [Server -> Term]
    /\ commitIndex \in [Server -> Index]
    /\ appliedIndex \in [Server -> Index]
    /\ afterApply \in [Server -> {"NONE", "AE_REPLY"}]
    /\ nextIndex \in [Server -> [Server -> Index]]
    /\ matchIndex \in [Server -> [Server -> Index]]
    /\ faulted \in [Server -> BOOLEAN]
    /\ action \in [Server -> Action]
    /\ step \in [Server -> Step]
    /\ cursor \in [Server -> Nat]
    /\ pendingMsg \in [Server -> VoteResponseMsg \union {NoMsg}]
    /\ ae \in [Server -> Stash]
    /\ pending \in [Server -> Seq(Entry)]
    /\ msgs \in SUBSET Message
===========================================================================
