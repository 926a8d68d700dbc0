--------------------------- MODULE Raft89History ---------------------------
(***************************************************************************)
(* Why a libraft89 cluster is safe, as a state predicate.  The past of a   *)
(* cluster is summed up in two values that no node keeps:                  *)
(*   L[u]  the log of the leader of term u as it was last, for every term  *)
(*         u that has had a leader;                                        *)
(*   A     the acknowledgements <<i, u, k>>: while its durable term was u, *)
(*         node i held at index k an entry created in term u.              *)
(* SafeInv says that the state of the cluster has such a past: it is what  *)
(* one step hands over to the next.                                        *)
(***************************************************************************)
EXTENDS Raft89Safety

Quorums == {Q \in SUBSET Server : IsQuorum(Cardinality(Q))}

\* l holds at k an entry created in term t.
Holds(l, t, k) == k \in 1..Len(l) /\ l[k].term = t

\* l and m have the same first k entries.
Same(l, m, k) ==
    /\ k <= Len(l)
    /\ k <= Len(m)
    /\ \A h \in 1..k : l[h] = m[h]

\* Up to any of its entries, l is the log of the leader that created it.
Agrees(L, l) ==
    \A k \in 1..Len(l) : l[k].term \in DOMAIN L /\ Same(l, L[l[k].term], k)

---------------------------------------------------------------------------
(* What the past says of the durable state h, l, a: hard states, logs and  *)
(* applications.                                                           *)

\* Leader logs agree with each other and their terms never decrease.
LeaderLogs(L) ==
    /\ DOMAIN L \subseteq Term
    /\ \A u \in DOMAIN L :
          /\ L[u] \in Seq(Entry)
          /\ Agrees(L, L[u])
          /\ \A k \in 1..Len(L[u]) :
                /\ L[u][k].term <= u
                /\ \A g \in 1..k : L[u][g].term <= L[u][k].term

\* A quorum has acknowledged <<t, k>>: it is committed by counting.
Chosen(A, t, k) == \E Q \in Quorums : \A i \in Q : <<i, t, k>> \in A

\* A quorum is past t without having acknowledged <<t, k>>: it never will be.
Lost(h, A, t, k) ==
    \E Q \in Quorums : \A i \in Q : h[i].term > t /\ <<i, t, k>> \notin A

\* A quorum has come to term u, and those still in it have voted.
Reached(h, u) ==
    \E Q \in Quorums : \A i \in Q :
        h[i].term > u \/ (h[i].term = u /\ h[i].vote # NoId)

\* The first c entries of l are committed, by a leader of a term up to u.
Committed(L, A, l, u, c) ==
    \/ c = 0
    \/ \E t \in DOMAIN L : \E k \in 1..Len(L[t]) :
          /\ t <= u
          /\ c <= k
          /\ Chosen(A, t, k)
          /\ Same(l, L[t], c)

LogsAgree(L, h, l) ==
    \A i \in Server :
        /\ Agrees(L, l[i])
        /\ \A k \in 1..Len(l[i]) : l[i][k].term <= h[i].term

\* What a node acknowledged it still holds, or it cannot be chosen any more.
AcksKept(L, A, h, l) ==
    /\ A \subseteq Server \X Term \X Index
    /\ \A i \in Server, t \in Term, k \in Index :
          <<i, t, k>> \in A =>
              /\ t \in DOMAIN L
              /\ Holds(L[t], t, k)
              /\ t <= h[i].term
              /\ Holds(l[i], t, k) \/ Lost(h, A, t, k)
    /\ \A i \in Server : \A k \in 1..Len(l[i]) :
          l[i][k].term = h[i].term => <<i, h[i].term, k>> \in A

\* A leader holds what an earlier one may have got chosen.
LeadersComplete(L, A, h) ==
    \A u \in DOMAIN L :
        /\ Reached(h, u)
        /\ \A t \in DOMAIN L : \A k \in 1..Len(L[t]) :
              t < u /\ L[t][k].term = t =>
                  Holds(L[u], t, k) \/ Lost(h, A, t, k)

\* Applications have committed entries only, which are still in the log.
AppsCommitted(L, A, h, l, a) ==
    \A i \in Server :
        /\ Same(a[i], l[i], Len(a[i]))
        /\ Committed(L, A, a[i], h[i].term, Len(a[i]))

\* A vote goes to a node that has come to the term.
VotesReach(h) ==
    \A i \in Server :
        h[i].vote \in Server => h[i].term <= h[h[i].vote].term

Past(L, A, h, l, a) ==
    /\ LeaderLogs(L)
    /\ LogsAgree(L, h, l)
    /\ AcksKept(L, A, h, l)
    /\ LeadersComplete(L, A, h)
    /\ AppsCommitted(L, A, h, l, a)
    /\ VotesReach(h)

---------------------------------------------------------------------------
(* What it says of the nodes and of their messages.                        *)

\* The request (prev, prevTerm, es) with the commit index c is cut out of the
\* log of the leader of term u.
FromLeader(L, A, u, prev, prevTerm, es, c) ==
    /\ u \in DOMAIN L
    /\ prev + Len(es) <= Len(L[u])
    /\ \A k \in 1..Len(es) : es[k] = L[u][prev + k]
    /\ prev # 0 => L[u][prev].term = prevTerm
    /\ Committed(L, A, L[u], u, c)

\* j campaigns in its durable term u.
Campaigns(j, u) ==
    /\ role[j] = "CANDIDATE"
    /\ currentTerm[j] = u
    /\ action[j].type # "HARD_STATE"

\* i, having voted for j in term u, has acknowledged nothing of an earlier
\* term that the log of j lacks and that may still be chosen.
VoteSound(A, i, j, u) ==
    /\ u <= hard[j].term
    /\ Campaigns(j, u) =>
         \A t \in Term, k \in Index :
             <<i, t, k>> \in A /\ t < u =>
                 \/ LogIsFresh(LastTermOf(log[j]), Len(log[j]), t, k)
                 \/ Lost(hard, A, t, k)

\* i has acknowledged all entries that the leader of term u created up to n.
AckedUpTo(L, A, i, u, n) ==
    /\ u \in DOMAIN L
    /\ n <= Len(L[u])
    /\ \A k \in 1..n : L[u][k].term = u => <<i, u, k>> \in A

MessageSound(L, A, m) ==
    /\ m.type = "RV" =>
         /\ m.term <= hard[m.from].term
         /\ Campaigns(m.from, m.term) =>
              /\ m.lastIndex = Len(log[m.from])
              /\ m.lastTerm = LastTermOf(log[m.from])
    /\ m.type = "RVR" /\ m.granted /\ m.from # m.to =>
         /\ m.term <= hard[m.from].term
         /\ VoteSound(A, m.from, m.to, m.term)
    /\ m.type = "AE" =>
         FromLeader(L, A, m.term, m.prev, m.prevTerm, m.entries, m.commit)
    /\ m.type = "AER" /\ m.success =>
         /\ m.term <= hard[m.from].term
         /\ AckedUpTo(L, A, m.from, m.term, m.match)
         /\ m.term = hard[m.from].term =>
              Same(log[m.from], L[m.term], m.match)

\* A campaign in a term that has had a leader is lost: a quorum has voted
\* for others.
CampaignLost(L, i) ==
    \A u \in DOMAIN L :
        Campaigns(i, u) =>
            \E Q \in Quorums : \A j \in Q :
                /\ hard[j].term >= u
                /\ hard[j].term = u => hard[j].vote \notin {i, NoId}
                /\ \A m \in msgs :
                      m.type = "RVR" /\ m.granted /\ m.from = j /\ m.term = u
                          => m.to # i

Leads(L, A, i) ==
    role[i] = "LEADER" =>
        /\ currentTerm[i] \in DOMAIN L
        /\ L[currentTerm[i]] = log[i]
        /\ \A j \in Server \ {i} :
              AckedUpTo(L, A, j, currentTerm[i], matchIndex[i][j])

\* The vote of i, durable or about to be; a campaign opens a new term.
VotesSound(A, i) ==
    /\ hard[i].vote \in Server \ {i} =>
         VoteSound(A, i, hard[i].vote, hard[i].term)
    /\ action[i].type = "HARD_STATE" /\ action[i].vote \in Server \ {i} =>
         VoteSound(A, i, action[i].vote, action[i].term)
    /\ action[i].type = "HARD_STATE" /\ role[i] = "CANDIDATE" =>
         action[i].term > hard[i].term

\* The outstanding action of i is in accordance with the log of its leader.
ActionSound(L, A, i) ==
    LET a == action[i]
        u == currentTerm[i]
    IN  /\ a.type = "SEND" => MessageSound(L, A, a.msg)
        /\ a.type = "LOG_APPEND" =>
             \/ /\ role[i] = "LEADER"
                /\ \A k \in 1..Len(a.entries) : a.entries[k].term = u
             \/ /\ role[i] = "FOLLOWER"
                /\ u \in DOMAIN L
                /\ Same(log[i], L[u], Len(log[i]))
                /\ Len(log[i]) + Len(a.entries) <= Len(L[u])
                /\ \A k \in 1..Len(a.entries) :
                      a.entries[k] = L[u][Len(log[i]) + k]
        /\ a.type = "LOG_TRUNCATE" =>
             /\ role[i] = "FOLLOWER"
             /\ u \in DOMAIN L
             /\ a.first <= Len(L[u])
             /\ Same(log[i], L[u], a.first - 1)
             /\ log[i][a.first].term # L[u][a.first].term
        /\ a.type = "APPLY" =>
             Holds(log[i], a.entry.term, a.index) /\ log[i][a.index] = a.entry

\* The term of the stashed request.
StashTerm(i) ==
    IF action[i].type = "HARD_STATE" THEN action[i].term ELSE currentTerm[i]

\* The continuation of i finds its role and a request of the present leader.
StepSound(L, A, i) ==
    /\ step[i] \in {"LEADER_APPEND", "LEADER_BROADCAST"} => role[i] = "LEADER"
    /\ step[i] = "AE_HARD_STATE" => action[i].type = "HARD_STATE"
    /\ step[i] \in {"AE_HARD_STATE", "AE_TRUNCATE", "AE_APPEND"} =>
         /\ role[i] = "FOLLOWER"
         /\ FromLeader(L, A, StashTerm(i), ae[i].prev, ae[i].prevTerm,
                       pending[i], ae[i].commit)
    /\ step[i] \in {"AE_TRUNCATE", "AE_APPEND"} =>
         ae[i].success /\ ae[i].match = ae[i].prev + Len(pending[i])
    /\ step[i] = "APPLY" /\ afterApply[i] = "AE_REPLY" /\ ae[i].success =>
         /\ currentTerm[i] \in DOMAIN L
         /\ Same(log[i], L[currentTerm[i]], ae[i].match)

\* What i has committed and applied.
ProgressSound(L, A, i) ==
    /\ Committed(L, A, log[i], hard[i].term, commitIndex[i])
    /\ appliedIndex[i] <= Len(app[i])

NodeSound(L, A, i) ==
    /\ CampaignLost(L, i)
    /\ Leads(L, A, i)
    /\ VotesSound(A, i)
    /\ ActionSound(L, A, i)
    /\ ~faulted[i] => StepSound(L, A, i)
    /\ ProgressSound(L, A, i)

Sound(L, A) ==
    /\ Past(L, A, hard, log, app)
    /\ \A i \in Server : NodeSound(L, A, i)
    /\ \A m \in msgs : MessageSound(L, A, m)

SafeInv == \E L, A : Sound(L, A)

---------------------------------------------------------------------------
(* What a step of node i adds to the past.                                 *)

\* r becomes the log of the leader of term u.
Recorded(L, u, r) ==
    [v \in DOMAIN L \union {u} |-> IF v = u THEN r ELSE L[v]]

\* What i acknowledges: its entries of its term.
NewAcks(g, m, i) ==
    {<<i, g[i].term, k>> : k \in {k \in 1..Len(m[i]) : m[i][k].term = g[i].term}}

\* The leaders' logs: a new leader's log, or a leader's longer one.
NextLogs(L, i) ==
    IF role'[i] = "LEADER" /\ role[i] # "LEADER"
    THEN Recorded(L, currentTerm'[i], log'[i])
    ELSE IF role[i] = "LEADER" /\ log'[i] # log[i]
    THEN Recorded(L, hard[i].term, log'[i])
    ELSE L

Inherits(L, A, M, B, i) ==
    /\ M = NextLogs(L, i)
    /\ B = A \union NewAcks(hard', log', i)

---------------------------------------------------------------------------
(* A cluster is started on durable states that have a past.                *)

BootHistory == \A b \in Boot : \E L, A : Past(L, A, b.hard, b.log, b.app)

\* A past that can be read off a durable state: the log of the leader of term
\* u is one that ends in term u, and whoever holds an entry has acknowledged it.
BootLogs(l) ==
    [u \in {LastTermOf(l[i]) : i \in Server} \ {0} |->
        l[CHOOSE i \in Server : LastTermOf(l[i]) = u]]

BootAcks(l) ==
    UNION {{<<i, l[i][k].term, k>> : k \in DOMAIN l[i]} : i \in Server}

KnownHistory ==
    \A b \in Boot : Past(BootLogs(b.log), BootAcks(b.log), b.hard, b.log, b.app)

\* The durable state of a cluster that was never started.
NeverStarted ==
    [hard |-> [i \in Server |-> [term |-> 0, vote |-> NoId]],
     log |-> [i \in Server |-> << >>],
     app |-> [i \in Server |-> << >>]]
===========================================================================
