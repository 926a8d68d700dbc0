------------------------- MODULE Raft89SafetyProof -------------------------
(***************************************************************************)
(* A libraft89 cluster is safe, for every membership, every limit and      *)
(* every fault except a failing malloc: LogMatching, AckBarrier,           *)
(* StoreContract, ApplyContract, AppliedDurable, ElectableComplete and the *)
(* refinement ImplementsBroadcast, all from SafeInv (Raft89History).       *)
(*                                                                         *)
(* Raft89HistoryProof hands the past of the cluster on to the next state;  *)
(* what is left is to show that each handler leaves its own node in        *)
(* accordance with the past M, B of the next state (Fine), from what that  *)
(* state has for certain (Ground).                                         *)
(***************************************************************************)
EXTENDS Raft89HistoryProof, Raft89Past

---------------------------------------------------------------------------
(* What a handler starts from and what it ends with.                       *)

\* The other members have acknowledged what i believes they have.
AckedBy(M, B, i) ==
    \A j \in Server \ {i} :
        AckedUpTo(M, B, j, currentTerm'[i], matchIndex'[i][j])

\* What a handler of i may rely on.
Ground(M, B, i) ==
    /\ Called(i)
    /\ TypeOK' /\ LocalInv(i)' /\ VoteInv'
    /\ Past(M, B, hard', log', app')
    /\ \A m \in msgs' : MessageSound(M, B, m)'
    /\ role'[i] = "LEADER" =>
         currentTerm'[i] \in DOMAIN M /\ M[currentTerm'[i]] = log'[i]
    /\ hard'[i].vote \in Server \ {i} =>
         VoteSound(B, i, hard[i].vote, hard[i].term)'
    /\ role[i] = "LEADER" =>
         \A j \in Server \ {i} :
            AckedUpTo(M, B, j, currentTerm'[i], matchIndex[i][j])
    /\ Committed(M, B, log'[i], currentTerm'[i], commitIndex[i])

\* Its action, its continuation and its votes.
Sane(M, B, i) ==
    /\ ActionSound(M, B, i)'
    /\ VotesSound(B, i)'
    /\ ~faulted'[i] => StepSound(M, B, i)'

\* All it has to leave.
Fine(M, B, i) ==
    /\ Sane(M, B, i)
    /\ role'[i] = "LEADER" => AckedBy(M, B, i)
    /\ Committed(M, B, log'[i], currentTerm'[i], commitIndex'[i])

\* What the common ground of the step lemmas gives.
LEMMA GroundFacts ==
    ASSUME NEW M, NEW B, NEW i \in Server, Ground(M, B, i)
    PROVE  /\ Called(i) /\ TypeOK /\ TypeOK' /\ LocalInv(i)' /\ VoteInv'
           /\ "nomem" \notin Faults /\ ~faulted[i]
           /\ currentTerm'[i] \in Term /\ currentTerm'[i] \in Nat
           /\ hard'[i].term = currentTerm'[i]
           /\ log'[i] \in Seq(Entry) /\ Len(log'[i]) \in Nat
           /\ commitIndex[i] \in Nat /\ step[i] \in Step
           /\ hard' \in HardStates /\ log' \in Logs
           /\ LeaderLogs(M) /\ LogsAgree(M, hard', log')
           /\ AcksKept(M, B, hard', log') /\ LeadersComplete(M, B, hard')
           /\ Agrees(M, log'[i])
           /\ \A m \in msgs' : MessageSound(M, B, m)'
           /\ Committed(M, B, log'[i], currentTerm'[i], commitIndex[i])
<1>1. /\ Called(i) /\ TypeOK' /\ LocalInv(i)' /\ VoteInv'
      /\ Past(M, B, hard', log', app')
      /\ \A m \in msgs' : MessageSound(M, B, m)'
      /\ Committed(M, B, log'[i], currentTerm'[i], commitIndex[i])
  BY DEF Ground
<1>2. /\ log'[i] \in Seq(Entry) /\ Len(log'[i]) \in Nat
      /\ currentTerm'[i] \in Term /\ commitIndex[i] \in Index
      /\ step[i] \in Step
  BY <1>1, CalledFacts
<1>3. /\ TypeOK /\ "nomem" \notin Faults /\ ~faulted[i]
      /\ hard'[i].term = currentTerm'[i]
  BY <1>1 DEF Called, HardKnown
<1>4. currentTerm'[i] \in Nat /\ commitIndex[i] \in Nat
  BY <1>2, Limits DEF Term, Index
<1>5. hard' \in HardStates /\ log' \in Logs
  BY <1>1 DEF TypeOK, HardStates, Logs
<1>6. /\ LeaderLogs(M) /\ LogsAgree(M, hard', log')
      /\ AcksKept(M, B, hard', log') /\ LeadersComplete(M, B, hard')
  BY <1>1 DEF Past
<1>7. Agrees(M, log'[i])
  BY <1>6 DEF LogsAgree
<1> QED BY <1>1, <1>2, <1>3, <1>4, <1>5, <1>6, <1>7

\* raft89__action_begin, and a latched fault.
LEMMA EmitSets ==
    ASSUME TypeOK, NEW i \in Server, NEW a, NEW s
    PROVE  /\ Emit(i, a, s) =>
                action'[i] = a /\ step'[i] = s /\ faulted'[i] = faulted[i]
           /\ Return(i, s) =>
                /\ action'[i] = NoAction /\ step'[i] = s
                /\ faulted'[i] = faulted[i]
           /\ Fault(i, s) => action'[i] = NoAction /\ faulted'[i]
BY DEF TypeOK, Emit, Return, Fault, Set

\* A node that has not faulted knows the end of its log.
LEMMA EmittedEnd ==
    ASSUME NEW M, NEW B, NEW i \in Server, Ground(M, B, i), NEW a, NEW s,
           Emit(i, a, s)
    PROVE  EndKnown(i)'
<1>1. ~faulted'[i]
  BY GroundFacts, EmitSets
<1> QED BY <1>1, GroundFacts DEF LocalInv

\* Without a new vote in sight the votes stay sound.
LEMMA VotesKept ==
    ASSUME NEW M, NEW B, NEW i \in Server, Ground(M, B, i),
           action'[i].type # "HARD_STATE"
    PROVE  VotesSound(B, i)'
BY DEF Ground, VotesSound

---------------------------------------------------------------------------
(* Ends of handlers.                                                       *)

\* An end without an action.
LEMMA ReturnSane ==
    ASSUME NEW M, NEW B, NEW i \in Server, Ground(M, B, i), NEW s,
           Fault(i, s) \/ (Return(i, s) /\ s = "NONE")
    PROVE  Sane(M, B, i)
<1>1. /\ action'[i] = NoAction
      /\ ~faulted'[i] => step'[i] = "NONE"
  BY GroundFacts, EmitSets
<1>2. ActionSound(M, B, i)'
  BY <1>1 DEF ActionSound, NoAction
<1>3. VotesSound(B, i)'
  BY <1>1, VotesKept DEF NoAction
<1>4. ~faulted'[i] => StepSound(M, B, i)'
  BY <1>1 DEF StepSound
<1> QED BY <1>2, <1>3, <1>4 DEF Sane

\* A message goes out.
LEMMA SendSane ==
    ASSUME NEW M, NEW B, NEW i \in Server, Ground(M, B, i), NEW m,
           NEW s \in {"NONE", "LEADER_BROADCAST", "ELECTION_BROADCAST"},
           Emit(i, Send(m), s), MessageSound(M, B, m)',
           s = "LEADER_BROADCAST" => role'[i] = "LEADER"
    PROVE  Sane(M, B, i)
<1>1. action'[i] = Send(m) /\ step'[i] = s
  BY GroundFacts, EmitSets
<1>2. action'[i].type = "SEND" /\ action'[i].msg = m
  BY <1>1 DEF Send
<1>3. ActionSound(M, B, i)'
  BY <1>2 DEF ActionSound
<1>4. VotesSound(B, i)'
  BY <1>2, VotesKept
<1>5. StepSound(M, B, i)'
  BY <1>1 DEF StepSound
<1> QED BY <1>3, <1>4, <1>5 DEF Sane

\* A hard state is to be persisted.
LEMMA PersistSane ==
    ASSUME NEW M, NEW B, NEW i \in Server, Ground(M, B, i), NEW t, NEW v,
           NEW s \in {"ELECTION_BROADCAST", "VOTE_RESPONSE", "STEP_DOWN",
                      "AE_HARD_STATE"},
           Emit(i, HardState(t, v), s),
           v \in Server \ {i} => VoteSound(B, i, v, t)',
           role'[i] = "CANDIDATE" => t > currentTerm'[i],
           s = "AE_HARD_STATE" =>
             /\ role'[i] = "FOLLOWER"
             /\ FromLeader(M, B, t, ae'[i].prev, ae'[i].prevTerm, pending'[i],
                           ae'[i].commit)
    PROVE  Sane(M, B, i)
<1>1. action'[i] = HardState(t, v) /\ step'[i] = s
  BY GroundFacts, EmitSets
<1>2. /\ action'[i].type = "HARD_STATE" /\ action'[i].term = t
      /\ action'[i].vote = v
  BY <1>1 DEF HardState
<1>3. ActionSound(M, B, i)'
  BY <1>2 DEF ActionSound
<1>4. VotesSound(B, i)'
  BY <1>2, GroundFacts DEF VotesSound, Ground
<1>5. StepSound(M, B, i)'
  BY <1>1, <1>2 DEF StepSound, StashTerm
<1> QED BY <1>3, <1>4, <1>5 DEF Sane

\* An entry of the log is to be applied.
LEMMA ApplySane ==
    ASSUME NEW M, NEW B, NEW i \in Server, Ground(M, B, i), NEW k,
           Readable(i, k), Emit(i, Apply(k, log'[i][k]), "APPLY"),
           afterApply'[i] = "AE_REPLY" /\ ae'[i].success =>
             /\ currentTerm'[i] \in DOMAIN M
             /\ Same(log'[i], M[currentTerm'[i]], ae'[i].match)
    PROVE  Sane(M, B, i)
<1>1. action'[i] = Apply(k, log'[i][k]) /\ step'[i] = "APPLY"
  BY GroundFacts, EmitSets
<1>2. /\ action'[i].type = "APPLY" /\ action'[i].index = k
      /\ action'[i].entry = log'[i][k]
  BY <1>1 DEF Apply
<1>3. ActionSound(M, B, i)'
  BY <1>2 DEF ActionSound, Holds, Readable
<1>4. VotesSound(B, i)'
  BY <1>2, VotesKept
<1>5. StepSound(M, B, i)'
  BY <1>1 DEF StepSound
<1> QED BY <1>3, <1>4, <1>5 DEF Sane

\* A leader appends entries of its term.
LEMMA LeadAppendSane ==
    ASSUME NEW M, NEW B, NEW i \in Server, Ground(M, B, i), NEW k, NEW es,
           Emit(i, LogAppend(k, es), "LEADER_APPEND"),
           role'[i] = "LEADER",
           \A h \in 1..Len(es) : es[h].term = currentTerm'[i]
    PROVE  Sane(M, B, i)
<1>1. action'[i] = LogAppend(k, es) /\ step'[i] = "LEADER_APPEND"
  BY GroundFacts, EmitSets
<1>2. action'[i].type = "LOG_APPEND" /\ action'[i].entries = es
  BY <1>1 DEF LogAppend
<1>3. ActionSound(M, B, i)'
  BY <1>2 DEF ActionSound
<1>4. VotesSound(B, i)'
  BY <1>2, VotesKept
<1>5. StepSound(M, B, i)'
  BY <1>1 DEF StepSound
<1> QED BY <1>3, <1>4, <1>5 DEF Sane

\* i follows the leader of its term and works off a request of it.
Follows(M, B, i) ==
    /\ role'[i] = "FOLLOWER"
    /\ FromLeader(M, B, currentTerm'[i], ae'[i].prev, ae'[i].prevTerm,
                  pending'[i], ae'[i].commit)
    /\ ae'[i].success
    /\ ae'[i].match = ae'[i].prev + Len(pending'[i])

\* An entry of the rest of a request, in the request and in the log.
LEMMA RestIndex ==
    ASSUME NEW n \in Nat, NEW p \in Nat, NEW x \in Nat, NEW l, l = p + n,
           NEW h \in 1..x - n
    PROVE  n + h \in 1..x /\ l + h = p + (n + h)
OBVIOUS

\* A follower appends the next entries of its leader's log.
LEMMA FollowAppendSane ==
    ASSUME NEW M, NEW B, NEW i \in Server, Ground(M, B, i), NEW k,
           NEW n \in Nat, n < Len(pending'[i]), pending'[i] \in Seq(Entry),
           Emit(i, LogAppend(k, SubSeq(pending'[i], n + 1, Len(pending'[i]))),
                "AE_APPEND"),
           Follows(M, B, i), ae'[i].prev \in Nat,
           Len(log'[i]) = ae'[i].prev + n,
           Same(log'[i], M[currentTerm'[i]], Len(log'[i]))
    PROVE  Sane(M, B, i)
<1> DEFINE es == pending'[i]
           p == ae'[i].prev
           u == currentTerm'[i]
           r == SubSeq(es, n + 1, Len(es))
           x == Len(es)
           y == Len(M[u])
<1>1. action'[i] = LogAppend(k, r) /\ step'[i] = "AE_APPEND"
  BY GroundFacts, EmitSets
<1>2. action'[i].type = "LOG_APPEND" /\ action'[i].entries = r
  <2> HIDE DEF r
  <2> QED BY <1>1 DEF LogAppend
<1>3. /\ u \in DOMAIN M /\ p + x <= y
      /\ \A h \in 1..x : es[h] = M[u][p + h]
      /\ x \in Nat
  BY LenNat DEF Follows, FromLeader
<1>4. y \in Nat
  BY <1>3, GroundFacts, LeaderLog
<1>5. Len(r) = x - n /\ \A h \in 1..x-n : r[h] = es[n + h]
  <2>1. n + 1 \in 1..x+1
    BY <1>3
  <2>2. \A h \in n+1..x : es[h] \in Entry
    BY ElementOfSeq, <1>3
  <2>3. Len(r) = IF n + 1 <= x THEN x - (n + 1) + 1 ELSE 0
    BY <1>3, <2>1, <2>2, SubSeqProperties
  <2>4. \A h \in 1..x-(n+1)+1 : r[h] = es[n + 1 + h - 1]
    BY <1>3, <2>1, <2>2, SubSeqProperties
  <2> HIDE DEF r, x
  <2>5. /\ x - (n + 1) + 1 = x - n
        /\ \A h \in 1..x-n : n + 1 + h - 1 = n + h
        /\ n + 1 <= x
    BY <1>3, x > n DEF x
  <2> QED BY <2>3, <2>4, <2>5
<1>6. \A h \in 1..Len(r) : r[h] = M[u][Len(log'[i]) + h]
  <2>1. x \in Nat /\ p \in Nat /\ Len(log'[i]) = p + n
    BY <1>3
  <2>2. ASSUME NEW h \in 1..x-n
        PROVE  /\ n + h \in 1..x
               /\ Len(log'[i]) + h = p + (n + h)
    <3> HIDE DEF x, p
    <3> QED BY <2>1, RestIndex
  <2>3. ASSUME NEW h \in 1..x-n
        PROVE  r[h] = M[u][Len(log'[i]) + h]
    <3>1. r[h] = es[n + h]
      BY <1>5
    <3>2. n + h \in 1..x /\ Len(log'[i]) + h = p + (n + h)
      BY <2>2
    <3>3. es[n + h] = M[u][p + (n + h)]
      BY <1>3, <3>2
    <3> QED BY <3>1, <3>2, <3>3
  <2> QED BY <1>5, <2>3
<1>7. Len(log'[i]) + Len(r) <= y
  <2> HIDE DEF x, y, r
  <2> QED BY <1>3, <1>4, <1>5 DEF p
<1>8. ActionSound(M, B, i)'
  BY <1>2, <1>3, <1>6, <1>7 DEF ActionSound, Follows
<1>9. VotesSound(B, i)'
  BY <1>2, VotesKept
<1>10. StepSound(M, B, i)'
  BY <1>1, <1>2 DEF StepSound, Follows, StashTerm
<1> QED BY <1>8, <1>9, <1>10 DEF Sane

\* A follower removes what its leader does not have.
LEMMA TruncateSane ==
    ASSUME NEW M, NEW B, NEW i \in Server, Ground(M, B, i), NEW k \in Nat,
           Emit(i, LogTruncate(k), "AE_TRUNCATE"),
           Follows(M, B, i),
           k <= Len(M[currentTerm'[i]]),
           Same(log'[i], M[currentTerm'[i]], k - 1),
           log'[i][k].term # M[currentTerm'[i]][k].term
    PROVE  Sane(M, B, i)
<1>1. action'[i] = LogTruncate(k) /\ step'[i] = "AE_TRUNCATE"
  BY GroundFacts, EmitSets
<1>2. action'[i].type = "LOG_TRUNCATE" /\ action'[i].first = k
  BY <1>1 DEF LogTruncate
<1>3. ActionSound(M, B, i)'
  BY <1>2 DEF ActionSound, Follows, FromLeader
<1>4. VotesSound(B, i)'
  BY <1>2, VotesKept
<1>5. StepSound(M, B, i)'
  BY <1>1, <1>2 DEF StepSound, Follows, StashTerm
<1> QED BY <1>3, <1>4, <1>5 DEF Sane

---------------------------------------------------------------------------
(* Messages.                                                               *)

\* A vote response that goes out is backed by the durable vote.
LEMMA ResponseSound ==
    ASSUME NEW M, NEW B, NEW i \in Server, Ground(M, B, i), NEW m,
           action'[i] = Send(m), m.type = "RVR"
    PROVE  MessageSound(M, B, m)'
<1>1. action'[i].type = "SEND" /\ action'[i].msg = m
  BY DEF Send
<1>2. VoteInv'
  BY GroundFacts
<1>3. /\ m.from = i /\ m.term \in Term
      /\ Granted(m) => /\ m.to \in Server
                       /\ hard'[i] = [term |-> m.term, vote |-> m.to]
  BY <1>1, <1>2 DEF VoteInv, NodeInv, Backed, Stamped
<1>4. m.term \in Nat
  BY <1>3, Limits DEF Term
<1>5. ASSUME m.granted, m.from # m.to
      PROVE  m.term <= hard'[m.from].term /\ VoteSound(B, m.from, m.to, m.term)'
  <2>1. hard'[i].term = m.term /\ hard'[i].vote = m.to /\ m.to \in Server \ {i}
    BY <1>3, <1>5 DEF Granted
  <2>2. VoteSound(B, i, hard[i].vote, hard[i].term)'
    BY <2>1 DEF Ground
  <2> QED BY <1>3, <1>4, <2>1, <2>2
<1> QED BY <1>5 DEF MessageSound

\* A vote request describes the log of the candidate.
LEMMA CanvassSound ==
    ASSUME NEW M, NEW B, NEW i \in Server, Ground(M, B, i), NEW j,
           EndKnown(i)', NEW m,
           m = RequestVote(i, j, currentTerm'[i], lastIndex'[i], lastTerm'[i])
    PROVE  MessageSound(M, B, m)'
<1>1. /\ m.type = "RV" /\ m.from = i /\ m.term = currentTerm'[i]
      /\ m.lastIndex = Len(log'[i]) /\ m.lastTerm = LastTermOf(log'[i])
  BY DEF RequestVote, EndKnown
<1>2. m.term <= hard'[i].term
  BY <1>1, GroundFacts
<1> QED BY <1>1, <1>2 DEF MessageSound

\* A refusal promises nothing.
LEMMA RefusalSound ==
    ASSUME NEW M, NEW B, NEW m, m.type = "AER", ~m.success
    PROVE  MessageSound(M, B, m)'
BY DEF MessageSound

\* A success response is about durable entries of the leader's log.
LEMMA ReplySound ==
    ASSUME NEW M, NEW B, NEW i \in Server, Ground(M, B, i), NEW m,
           m.type = "AER", m.from = i, m.term = currentTerm'[i],
           m.match \in Nat, currentTerm'[i] \in DOMAIN M,
           Same(log'[i], M[currentTerm'[i]], m.match)
    PROVE  MessageSound(M, B, m)'
<1> DEFINE u == currentTerm'[i]
           n == m.match
<1>1. /\ u \in Nat /\ hard'[i].term = u /\ AcksKept(M, B, hard', log')
      /\ Len(log'[i]) \in Nat
  BY GroundFacts
<1>2. /\ n <= Len(log'[i]) /\ n <= Len(M[u])
      /\ \A k \in 1..n : log'[i][k] = M[u][k]
  BY DEF Same
<1>3. ASSUME NEW k \in 1..n, M[u][k].term = u
      PROVE  <<i, u, k>> \in B
  <2>1. k \in 1..Len(log'[i]) /\ log'[i][k].term = hard'[i].term
    BY <1>1, <1>2, <1>3
  <2>2. <<i, hard'[i].term, k>> \in B
    BY <1>1, <2>1 DEF AcksKept
  <2> QED BY <1>1, <2>2
<1>4. AckedUpTo(M, B, i, u, n)
  BY <1>2, <1>3 DEF AckedUpTo
<1> QED BY <1>1, <1>4 DEF MessageSound

\* What raft89__leader_send_to reads is a piece of the leader's log.
LEMMA BatchCut ==
    ASSUME NEW i \in Server, Called(i), EndKnown(i)', NEW next \in Index,
           NEW n \in 0..MaxAppendEntries, IsBatch(i, next, n),
           Dec(next) # 0 => Readable(i, Dec(next))
    PROVE  /\ Dec(next) \in Nat
           /\ Dec(next) + Len(BatchOf(i, next, n)) <= Len(log'[i])
           /\ \A h \in 1..Len(BatchOf(i, next, n)) :
                 BatchOf(i, next, n)[h] = log'[i][Dec(next) + h]
<1> DEFINE prev == Dec(next)
           last == Len(log'[i])
<1>1. /\ next \in Nat /\ prev \in Nat /\ lastIndex'[i] = last
      /\ last \in Nat /\ last <= IndexMax /\ n \in Nat
      /\ log'[i] \in Seq(Entry)
  <2>1. lastIndex'[i] = last
    BY DEF EndKnown
  <2>2. last \in Nat /\ last <= IndexMax /\ log'[i] \in Seq(Entry)
    BY CalledFacts
  <2>3. prev \in Index
    BY IncDec
  <2> HIDE DEF last, prev
  <2>4. next \in Nat /\ prev \in Nat /\ n \in Nat
    BY <2>3, Limits DEF Index
  <2> QED BY <2>1, <2>2, <2>4
<1>2. n <= Available(i, next)
  BY DEF IsBatch
<1>3. prev <= last
  BY <1>1 DEF Readable
<1>4. ASSUME n = 0, next + n - 1 < next
      PROVE  Len(BatchOf(i, next, n)) = 0
  BY <1>1, <1>4, SubSeqEmpty DEF BatchOf
<1>5. CASE next = 0
  <2>1. prev = IndexMax /\ last = IndexMax
    BY <1>1, <1>3, <1>5 DEF Dec
  <2>2. n = 0
    BY <1>1, <1>2, <1>5, <2>1, LimitAssumption DEF Available, Inc, MinOf
  <2> QED BY <1>1, <1>3, <1>4, <1>5, <2>2
<1>6. CASE next > last
  <2>1. n = 0
    BY <1>1, <1>2, <1>6 DEF Available
  <2> QED BY <1>1, <1>3, <1>4, <2>1
<1>7. CASE next # 0 /\ ~(next > last)
  <2>1. prev = next - 1
    BY <1>1, <1>7 DEF Dec
  <2>2. Inc(last - next) = last - next + 1
    <3>1. last - next \in Index /\ last - next < IndexMax
      BY <1>1, <1>7, Limits DEF Index
    <3> QED BY <3>1, IncDec
  <2>3. n <= last - next + 1
    BY <1>1, <1>2, <1>7, <2>2, Limits DEF Available, MinOf
  <2>4. /\ next \in 1..last+1 /\ next + n - 1 \in Int
        /\ next + n - 1 <= last
    BY <1>1, <1>7, <2>3
  <2> DEFINE top == next + n - 1
  <2>5. \A h \in next..top : log'[i][h] \in Entry
    <3>1. ASSUME NEW h \in next..top PROVE h \in 1..last
      BY <1>1, <2>4, <3>1
    <3> QED BY <1>1, <3>1, ElementOfSeq
  <2>6. /\ Len(SubSeq(log'[i], next, top)) =
             IF next <= top THEN top - next + 1 ELSE 0
        /\ \A h \in 1..top-next+1 :
              SubSeq(log'[i], next, top)[h] = log'[i][next + h - 1]
    <3>1. next \in Int /\ top \in Int /\ log'[i] \in Seq(Entry)
      BY <1>1, <2>4
    <3> HIDE DEF top
    <3> QED BY <2>5, <3>1, SubSeqProperties
  <2>7. top - next + 1 = n /\ (next <= top <=> n # 0)
    BY <1>1
  <2>8. Len(BatchOf(i, next, n)) = n
    BY <1>1, <2>6, <2>7 DEF BatchOf
  <2>9. ASSUME NEW h \in 1..n
        PROVE  BatchOf(i, next, n)[h] = log'[i][prev + h]
    <3>1. next + h - 1 = prev + h
      BY <1>1, <2>1
    <3> QED BY <2>6, <2>7, <3>1 DEF BatchOf
  <2>10. prev + n <= last
    BY <1>1, <2>1, <2>4
  <2> QED BY <1>1, <2>8, <2>9, <2>10
<1> QED BY <1>1, <1>5, <1>6, <1>7

\* A leader sends a piece of its log, with what it knows to be committed.
LEMMA CopySane ==
    ASSUME NEW M, NEW B, NEW i \in Server, Ground(M, B, i),
           role'[i] = "LEADER", NEW j \in Server, nextIndex'[i][j] \in Index,
           NEW s \in {"NONE", "LEADER_BROADCAST"}, LeaderSendTo(i, j, s)
    PROVE  Sane(M, B, i)
<1> DEFINE next == nextIndex'[i][j]
           prev == Dec(next)
           u == currentTerm'[i]
<1>1. /\ u \in DOMAIN M /\ M[u] = log'[i]
      /\ Called(i) /\ "nomem" \notin Faults
      /\ Committed(M, B, log'[i], u, commitIndex[i])
  BY GroundFacts DEF Ground
<1>2. ASSUME NEW n \in 0..MaxAppendEntries, IsBatch(i, next, n),
             prev # 0 => Readable(i, prev),
             Emit(i, Send(AppendEntries(i, j, u, prev, TermAt(i, prev),
                             commitIndex[i], BatchOf(i, next, n))), s)
      PROVE  Sane(M, B, i)
  <2>1. /\ prev \in Nat
        /\ prev + Len(BatchOf(i, next, n)) <= Len(log'[i])
        /\ \A h \in 1..Len(BatchOf(i, next, n)) :
              BatchOf(i, next, n)[h] = log'[i][prev + h]
    <3>1. EndKnown(i)'
      BY <1>2, EmittedEnd
    <3> QED BY <1>1, <1>2, <3>1, BatchCut
  <2>2. FromLeader(M, B, u, prev, TermAt(i, prev), BatchOf(i, next, n),
                   commitIndex[i])
    BY <1>1, <2>1 DEF FromLeader, TermAt
  <2>3. PICK m : m = AppendEntries(i, j, u, prev, TermAt(i, prev),
                                   commitIndex[i], BatchOf(i, next, n))
    OBVIOUS
  <2>4. /\ m.type = "AE" /\ m.term = u /\ m.prev = prev
        /\ m.prevTerm = TermAt(i, prev) /\ m.commit = commitIndex[i]
        /\ m.entries = BatchOf(i, next, n)
    BY <2>3 DEF AppendEntries
  <2>5. MessageSound(M, B, m)'
    BY <2>2, <2>4 DEF MessageSound
  <2>6. Emit(i, Send(m), s)
    BY <1>2, <2>3
  <2>7. s \in {"NONE", "LEADER_BROADCAST", "ELECTION_BROADCAST"}
    OBVIOUS
  <2> QED BY <2>5, <2>6, <2>7, SendSane
<1>3. CASE Fault(i, s)
  BY <1>3, ReturnSane
<1>4. \/ \E n \in 0..MaxAppendEntries :
            /\ IsBatch(i, next, n)
            /\ prev # 0 => Readable(i, prev)
            /\ Emit(i, Send(AppendEntries(i, j, u, prev, TermAt(i, prev),
                               commitIndex[i], BatchOf(i, next, n))), s)
      \/ Fault(i, s)
  BY <1>1 DEF LeaderSendTo
<1> QED BY <1>2, <1>3, <1>4

---------------------------------------------------------------------------
(* Commit and broadcast.                                                   *)

\* i keeps its standing, as far as leaders are concerned.
Stays(i) ==
    role'[i] = "LEADER" =>
        role[i] = "LEADER" /\ matchIndex'[i] = matchIndex[i]

\* A handler that leaves the commit index alone, or moves it to a committed
\* one, has to care about its action only.
LEMMA FineKept ==
    ASSUME NEW M, NEW B, NEW i \in Server, Ground(M, B, i), Stays(i),
           Sane(M, B, i),
           \/ commitIndex'[i] = commitIndex[i]
           \/ Committed(M, B, log'[i], currentTerm'[i], commitIndex'[i])
    PROVE  Fine(M, B, i)
<1>1. role'[i] = "LEADER" => AckedBy(M, B, i)
  BY DEF Ground, Stays, AckedBy
<1>2. Committed(M, B, log'[i], currentTerm'[i], commitIndex'[i])
  BY GroundFacts
<1> QED BY <1>1, <1>2 DEF Fine

\* raft89__apply_next: the entry is read from the log, or the node faults.
LEMMA NextApplySane ==
    ASSUME NEW M, NEW B, NEW i \in Server, Ground(M, B, i), NEW k, NEW s,
           EmitNextApply(i, k, s),
           afterApply'[i] = "AE_REPLY" /\ ae'[i].success =>
             /\ currentTerm'[i] \in DOMAIN M
             /\ Same(log'[i], M[currentTerm'[i]], ae'[i].match)
    PROVE  Sane(M, B, i)
<1>1. \/ Readable(i, k) /\ Emit(i, Apply(k, log'[i][k]), "APPLY")
      \/ Fault(i, s)
  BY GroundFacts DEF EmitNextApply
<1> QED BY <1>1, ApplySane, ReturnSane

\* raft89__advance_commit.
LEMMA AdvanceSane ==
    ASSUME NEW M, NEW B, NEW i \in Server, Ground(M, B, i), NEW k, NEW after,
           NEW s, AdvanceCommit(i, k, after, s),
           after = "AE_REPLY" /\ ae'[i].success =>
             /\ currentTerm'[i] \in DOMAIN M
             /\ Same(log'[i], M[currentTerm'[i]], ae'[i].match)
    PROVE  Sane(M, B, i) /\ commitIndex'[i] = k
<1>1. commitIndex'[i] = k /\ afterApply'[i] = after
  BY GroundFacts DEF AdvanceCommit, Set, TypeOK
<1>2. EmitNextApply(i, Inc(appliedIndex[i]), s)
  BY DEF AdvanceCommit
<1> QED BY <1>1, <1>2, NextApplySane

\* What a majority holds of the leader's term is committed.
LEMMA CountedChosen ==
    ASSUME NEW M, NEW B, NEW i \in Server, Ground(M, B, i),
           role'[i] = "LEADER", AckedBy(M, B, i), NEW k,
           IsQuorum(Replicated(i, k)), Readable(i, k), OfCurrentTerm(i, k)
    PROVE  Committed(M, B, log'[i], currentTerm'[i], k)
<1> DEFINE u == currentTerm'[i]
           R == {j \in Server \ {i} : matchIndex'[i][j] >= k}
           Q == R \union {i}
<1>1. /\ u \in DOMAIN M /\ M[u] = log'[i] /\ u \in Nat
      /\ hard'[i].term = u /\ AcksKept(M, B, hard', log')
      /\ Len(log'[i]) \in Nat /\ log'[i] \in Seq(Entry)
  BY GroundFacts DEF Ground
<1>2. k \in 1..Len(log'[i]) /\ k # 0 /\ k \in Nat /\ log'[i][k].term = u
  BY <1>1 DEF Readable, OfCurrentTerm, TermAt
<1>3. Cardinality(Q) = Replicated(i, k) /\ Q \subseteq Server
  <2>1. IsFiniteSet(R) /\ i \notin R
    BY ServerAssumption, FS_Subset
  <2> QED BY <2>1, FS_AddElement DEF Replicated
<1>4. Q \in Quorums
  BY <1>3 DEF Quorums
<1>5. <<i, u, k>> \in B
  BY <1>1, <1>2 DEF AcksKept
<1>6. ASSUME NEW j \in R
      PROVE  <<j, u, k>> \in B
  <2>1. AckedUpTo(M, B, j, u, matchIndex'[i][j])
    BY DEF AckedBy
  <2>2. matchIndex'[i][j] \in Nat /\ matchIndex'[i][j] >= k
    BY GroundFacts, Limits DEF TypeOK, Index
  <2>3. k \in 1..matchIndex'[i][j]
    BY <1>2, <2>2
  <2> QED BY <1>1, <1>2, <2>1, <2>3 DEF AckedUpTo
<1>7. Chosen(B, u, k)
  BY <1>4, <1>5, <1>6 DEF Chosen
<1>8. Same(log'[i], M[u], k)
  BY <1>1, <1>2 DEF Same
<1>9. u <= u /\ k <= k
  BY <1>1, <1>2
<1> QED BY <1>1, <1>2, <1>7, <1>8, <1>9 DEF Committed

\* raft89__leader_maybe_commit.
LEMMA CountSane ==
    ASSUME NEW M, NEW B, NEW i \in Server, Ground(M, B, i),
           role'[i] = "LEADER", AckedBy(M, B, i), NEW s, s = "NONE",
           LeaderMaybeCommit(i, s)
    PROVE  Fine(M, B, i)
<1>1. CASE UNCHANGED progress /\ (Return(i, s) \/ Fault(i, s))
  <2>1. Sane(M, B, i)
    BY <1>1, ReturnSane
  <2> QED BY <1>1, <2>1, GroundFacts DEF Fine, progress
<1>2. ASSUME NEW k, MajorityIndex(i, k), k > commitIndex[i], Readable(i, k),
             OfCurrentTerm(i, k), AdvanceCommit(i, k, "NONE", s)
      PROVE  Fine(M, B, i)
  <2>1. commitIndex[i] \in Nat /\ k \in Nat
    BY <1>2, GroundFacts DEF Readable
  <2>2. IsQuorum(Replicated(i, k))
    BY <1>2, <2>1 DEF MajorityIndex
  <2>3. Committed(M, B, log'[i], currentTerm'[i], k)
    BY <1>2, <2>2, CountedChosen
  <2>4. Sane(M, B, i) /\ commitIndex'[i] = k
    BY <1>2, AdvanceSane
  <2> QED BY <2>3, <2>4 DEF Fine
<1> QED BY <1>1, <1>2 DEF LeaderMaybeCommit

\* raft89__leader_broadcast_next.
LEMMA BroadcastSane ==
    ASSUME NEW M, NEW B, NEW i \in Server, Ground(M, B, i),
           role'[i] = "LEADER", AckedBy(M, B, i), NEW c \in Nat,
           LeaderBroadcastNext(i, c)
    PROVE  Fine(M, B, i)
<1>1. CASE /\ c < Len(Peers[i])
           /\ LeaderSendTo(i, Peers[i][c + 1], "LEADER_BROADCAST")
           /\ UNCHANGED progress
  <2>1. PICK j : j = Peers[i][c + 1]
    OBVIOUS
  <2>2. j \in Server
    BY <1>1, <2>1, PeersAssumption, ElementOfSeq, LenProperties
  <2>3. nextIndex'[i][j] \in Index
    BY <2>2, GroundFacts DEF TypeOK
  <2>4. LeaderSendTo(i, j, "LEADER_BROADCAST")
    BY <1>1, <2>1
  <2>5. Sane(M, B, i)
    BY <2>2, <2>3, <2>4, CopySane
  <2> QED BY <1>1, <2>5, GroundFacts DEF Fine, progress
<1>2. CASE LeaderMaybeCommit(i, "NONE")
  BY <1>2, CountSane
<1> QED BY <1>1, <1>2 DEF LeaderBroadcastNext

---------------------------------------------------------------------------
(* Handlers of raft89_election.c.                                          *)

\* A node that leads on, with the same view of its peers.
LEMMA StaysAcked ==
    ASSUME NEW M, NEW B, NEW i \in Server, Ground(M, B, i), Stays(i),
           role'[i] = "LEADER"
    PROVE  AckedBy(M, B, i)
BY DEF Ground, Stays, AckedBy

\* An idle node that does nothing.
LEMMA QuietFine ==
    ASSUME NEW M, NEW B, NEW i \in Server, Ground(M, B, i), Idle(i),
           step[i] = "NONE",
           UNCHANGED <<role, matchIndex, commitIndex, control>>
    PROVE  Fine(M, B, i)
<1>1. Return(i, step[i])
  BY GroundFacts, UnchangedReturns
<1>2. Sane(M, B, i)
  BY <1>1, ReturnSane
<1> QED BY <1>2, FineKept DEF Stays

\* raft89__emit_hard_state: not from a leader, from a candidate only for a
\* new election.
LEMMA PersistFine ==
    ASSUME NEW M, NEW B, NEW i \in Server, Ground(M, B, i), NEW t, NEW v,
           NEW s \in {"ELECTION_BROADCAST", "VOTE_RESPONSE", "STEP_DOWN",
                      "AE_HARD_STATE"},
           Emit(i, HardState(t, v), s), UNCHANGED progress,
           v \in Server \ {i} => VoteSound(B, i, v, t)',
           s = "ELECTION_BROADCAST" => t > currentTerm'[i],
           s = "AE_HARD_STATE" =>
             FromLeader(M, B, t, ae'[i].prev, ae'[i].prevTerm, pending'[i],
                        ae'[i].commit)
    PROVE  Fine(M, B, i)
<1>1. action'[i] = HardState(t, v) /\ step'[i] = s
  BY GroundFacts, EmitSets
<1>2. action'[i].type = "HARD_STATE"
  BY <1>1 DEF HardState
<1>3. Forward(i)'
  BY GroundFacts DEF VoteInv, NodeInv
<1>4. role'[i] = "FOLLOWER" \/ (role'[i] = "CANDIDATE" /\ step'[i] = "ELECTION_BROADCAST")
  BY <1>2, <1>3 DEF Forward
<1>5. Sane(M, B, i)
  BY <1>1, <1>4, PersistSane
<1>6. Stays(i) /\ commitIndex'[i] = commitIndex[i]
  BY <1>4 DEF Stays, progress
<1> QED BY <1>5, <1>6, FineKept

\* raft89__step_down_new_term.
LEMMA StepDownFine ==
    ASSUME NEW M, NEW B, NEW i \in Server, Ground(M, B, i), NEW t,
           StepDownNewTerm(i, t)
    PROVE  Fine(M, B, i)
<1>1. NoId \notin Server
  BY ServerAssumption
<1> QED BY <1>1, PersistFine DEF StepDownNewTerm

\* raft89__start_election.
LEMMA StartElectionFine ==
    ASSUME NEW M, NEW B, NEW i \in Server, Ground(M, B, i), Idle(i),
           step[i] = "NONE", UNCHANGED termVars, StartElection(i)
    PROVE  Fine(M, B, i)
<1>1. CASE Ignore(i)
  BY <1>1, QuietFine DEF Ignore, standing, progress, peerView
<1>2. CASE /\ Emit(i, HardState(currentTerm[i] + 1, i), "ELECTION_BROADCAST")
           /\ UNCHANGED progress
  <2>1. PICK t : t = currentTerm[i] + 1
    OBVIOUS
  <2>2. currentTerm'[i] = currentTerm[i] /\ currentTerm'[i] \in Nat
    BY GroundFacts DEF termVars
  <2>3. t > currentTerm'[i]
    BY <2>1, <2>2
  <2>4. Emit(i, HardState(t, i), "ELECTION_BROADCAST")
    BY <1>2, <2>1
  <2> QED BY <1>2, <2>3, <2>4, PersistFine
<1> QED BY <1>1, <1>2 DEF StartElection

\* raft89__become_leader.
LEMMA ElectedFine ==
    ASSUME NEW M, NEW B, NEW i \in Server, Ground(M, B, i), NEW s,
           BecomeLeader(i, s)
    PROVE  Fine(M, B, i)
<1>1. CASE Fault(i, s) /\ UNCHANGED <<role, progress, peerView>>
  <2>1. Sane(M, B, i)
    BY <1>1, ReturnSane
  <2>2. Stays(i) /\ commitIndex'[i] = commitIndex[i]
    BY <1>1 DEF Stays, progress, peerView
  <2> QED BY <2>1, <2>2, FineKept
<1>2. CASE /\ role' = Set(role, i, "LEADER")
           /\ matchIndex' = Set(matchIndex, i, [j \in Server |-> 0])
           /\ LeaderBroadcastNext(i, 0)
  <2>1. role'[i] = "LEADER" /\ matchIndex'[i] = [j \in Server |-> 0]
    BY <1>2, GroundFacts DEF TypeOK, Set
  <2>2. /\ currentTerm'[i] \in DOMAIN M
        /\ Len(M[currentTerm'[i]]) \in Nat
    BY <2>1, GroundFacts DEF Ground
  <2>3. AckedBy(M, B, i)
    BY <2>1, <2>2 DEF AckedBy, AckedUpTo
  <2> QED BY <1>2, <2>1, <2>3, BroadcastSane
<1> QED BY <1>1, <1>2 DEF BecomeLeader

\* raft89__election_send_next.
LEMMA ElectionSendFine ==
    ASSUME NEW M, NEW B, NEW i \in Server, Ground(M, B, i),
           ElectionSendNext(i)
    PROVE  Fine(M, B, i)
<1>1. UNCHANGED lastLog
  BY DEF ElectionSendNext
<1>2. CASE BecomeLeader(i, "NONE")
  BY <1>2, ElectedFine
<1>3. CASE /\ \E j : Emit(i, Send(RequestVote(i, j, currentTerm'[i],
                              lastIndex[i], lastTerm[i])), "ELECTION_BROADCAST")
           /\ UNCHANGED <<role, progress, peerView>>
  <2>1. PICK j : Emit(i, Send(RequestVote(i, j, currentTerm'[i],
                         lastIndex[i], lastTerm[i])), "ELECTION_BROADCAST")
    BY <1>3
  <2>2. PICK m : m = RequestVote(i, j, currentTerm'[i], lastIndex'[i],
                                 lastTerm'[i])
    OBVIOUS
  <2>3. Emit(i, Send(m), "ELECTION_BROADCAST")
    BY <1>1, <2>1, <2>2 DEF lastLog
  <2>4. EndKnown(i)'
    BY <2>3, EmittedEnd
  <2>5. MessageSound(M, B, m)'
    BY <2>2, <2>4, CanvassSound
  <2>6. Sane(M, B, i)
    BY <2>3, <2>5, SendSane
  <2>7. Stays(i) /\ commitIndex'[i] = commitIndex[i]
    BY <1>3 DEF Stays, progress, peerView
  <2> QED BY <2>6, <2>7, FineKept
<1>4. CASE Return(i, "NONE") /\ UNCHANGED <<role, progress, peerView>>
  <2>1. Sane(M, B, i)
    BY <1>4, ReturnSane
  <2>2. Stays(i) /\ commitIndex'[i] = commitIndex[i]
    BY <1>4 DEF Stays, progress, peerView
  <2> QED BY <2>1, <2>2, FineKept
<1> QED BY <1>2, <1>3, <1>4 DEF ElectionSendNext

\* A vote response is sent, and nothing else changes.
LEMMA RespondFine ==
    ASSUME NEW M, NEW B, NEW i \in Server, Ground(M, B, i), NEW m,
           m.type = "RVR", NEW s, s = "NONE", Emit(i, Send(m), s),
           UNCHANGED <<standing, progress, peerView>>
    PROVE  Fine(M, B, i)
<1>1. action'[i] = Send(m)
  BY GroundFacts, EmitSets
<1>2. MessageSound(M, B, m)'
  BY <1>1, ResponseSound
<1>3. Sane(M, B, i)
  BY <1>2, SendSane
<1>4. Stays(i) /\ commitIndex'[i] = commitIndex[i]
  BY DEF Stays, standing, progress, peerView
<1> QED BY <1>3, <1>4, FineKept

\* raft89__vote_response_send.
LEMMA VoteSendFine ==
    ASSUME NEW M, NEW B, NEW i \in Server, Ground(M, B, i),
           pendingMsg[i] \in VoteResponseMsg, VoteResponseSend(i)
    PROVE  Fine(M, B, i)
BY RespondFine DEF VoteResponseSend, VoteResponseMsg

\* A vote is for a log at least as fresh as one's own.
LEMMA GrantSound ==
    ASSUME NEW M, NEW B, NEW i \in Server, Ground(M, B, i), Stands(i),
           NEW m \in Message, m \in msgs', m.type = "RV",
           LogIsFresh(m.lastTerm, m.lastIndex, lastTerm[i], lastIndex[i])
    PROVE  VoteSound(B, i, m.from, m.term)'
<1> DEFINE j == m.from
<1>1. /\ log' \in Logs /\ LeaderLogs(M) /\ LogsAgree(M, hard', log')
      /\ AcksKept(M, B, hard', log')
  BY GroundFacts
<1>2. /\ m.term <= hard'[j].term
      /\ Campaigns(j, m.term)' =>
           /\ m.lastIndex = Len(log'[j])
           /\ m.lastTerm = LastTermOf(log'[j])
  BY GroundFacts DEF MessageSound
<1>3. m.lastIndex \in Nat /\ m.lastTerm \in Nat
  BY MessageFields, Limits DEF Index, Term
<1>4. LogIsFresh(m.lastTerm, m.lastIndex, LastTermOf(log'[i]), Len(log'[i]))
  BY DEF Stands
<1>5. ASSUME NEW t \in Term, NEW k \in Index, <<i, t, k>> \in B
      PROVE  \/ LogIsFresh(m.lastTerm, m.lastIndex, t, k)
             \/ Lost(hard', B, t, k)
  BY <1>1, <1>3, <1>4, <1>5, VoteFresh
<1> QED BY <1>2, <1>5 DEF VoteSound

\* raft89__recv_request_vote.
LEMMA RequestVoteFine ==
    ASSUME NEW M, NEW B, NEW i \in Server, Ground(M, B, i), Stands(i),
           step[i] = "NONE", NEW m \in Message, m \in msgs', m.type = "RV",
           RecvRequestVote(i, m)
    PROVE  Fine(M, B, i)
<1> DEFINE fresh == LogIsFresh(m.lastTerm, m.lastIndex, lastTerm[i],
                               lastIndex[i])
<1>1. ASSUME NEW t, NEW g, ReplyVote(i, m.from, t, g)
      PROVE  Fine(M, B, i)
  <2>1. PICK n : n = VoteResponse(i, m.from, t, g)
    OBVIOUS
  <2>2. n.type = "RVR" /\ Emit(i, Send(n), step[i])
    BY <1>1, <2>1 DEF ReplyVote, VoteResponse
  <2>3. UNCHANGED <<standing, progress, peerView>>
    BY <1>1 DEF ReplyVote
  <2> QED BY <2>2, <2>3, RespondFine
<1>2. ASSUME NEW v, NEW g, PersistVoteThenReply(i, m.from, m.term, v, g),
             v \in Server \ {i} => v = m.from /\ fresh
      PROVE  Fine(M, B, i)
  <2>1. /\ Emit(i, HardState(m.term, v), "VOTE_RESPONSE")
        /\ UNCHANGED progress
    BY <1>2 DEF PersistVoteThenReply
  <2>2. v \in Server \ {i} => VoteSound(B, i, v, m.term)'
    BY <1>2, GrantSound
  <2> QED BY <2>1, <2>2, PersistFine
<1>3. NoId \notin Server
  BY ServerAssumption
<1> QED BY <1>1, <1>2, <1>3 DEF RecvRequestVote, VoteNewTerm

\* raft89__recv_vote_response.
LEMMA VoteResponseFine ==
    ASSUME NEW M, NEW B, NEW i \in Server, Ground(M, B, i), Idle(i),
           step[i] = "NONE", NEW m, RecvVoteResponse(i, m)
    PROVE  Fine(M, B, i)
<1>1. CASE StepDownNewTerm(i, m.term)
  BY <1>1, StepDownFine
<1>2. CASE UNCHANGED <<role, progress, peerView, control>>
  BY <1>2, QuietFine DEF progress, peerView
<1>3. CASE BecomeLeader(i, step[i])
  BY <1>3, ElectedFine
<1> QED BY <1>1, <1>2, <1>3 DEF RecvVoteResponse, Ignore, standing

---------------------------------------------------------------------------
(* Handlers of raft89_timer.c and raft89_leader.c.                         *)

\* A broadcast by a node that leads already.
LEMMA LeadOnFine ==
    ASSUME NEW M, NEW B, NEW i \in Server, Ground(M, B, i), role[i] = "LEADER",
           UNCHANGED <<standing, peerView>>, NEW c \in Nat, LeaderBroadcastNext(i, c)
    PROVE  Fine(M, B, i)
<1>1. Stays(i) /\ role'[i] = "LEADER"
  BY DEF Stays, standing, peerView
<1> QED BY <1>1, StaysAcked, BroadcastSane

\* raft89_tick.
LEMMA TickFine ==
    ASSUME NEW M, NEW B, NEW i \in Server, Ground(M, B, i), Idle(i),
           step[i] = "NONE", UNCHANGED termVars,
           TickLeader(i) \/ TickFollower(i)
    PROVE  Fine(M, B, i)
<1>1. CASE TickLeader(i)
  BY <1>1, LeadOnFine DEF TickLeader
<1>2. CASE TickFollower(i)
  BY <1>2, StartElectionFine DEF TickFollower
<1> QED BY <1>1, <1>2

\* raft89__handle_ae_failure.
LEMMA FailureFine ==
    ASSUME NEW M, NEW B, NEW i \in Server, Ground(M, B, i),
           step[i] = "NONE", role[i] = "LEADER", NEW m \in Message,
           HandleAeFailure(i, m)
    PROVE  Fine(M, B, i)
<1>1. UNCHANGED <<standing, lastLog, progress, matchIndex>>
  BY DEF HandleAeFailure
<1>2. Stays(i) /\ commitIndex'[i] = commitIndex[i] /\ role'[i] = "LEADER"
  BY <1>1 DEF Stays, progress, standing
<1>3. CASE LeaderSendTo(i, m.from, step[i])
  <2>1. m.from \in Server
    BY MessageFields
  <2>2. nextIndex'[i][m.from] \in Index
    BY <2>1, GroundFacts DEF TypeOK
  <2>3. Sane(M, B, i)
    BY <1>2, <1>3, <2>1, <2>2, CopySane
  <2> QED BY <1>2, <2>3, FineKept
<1>4. CASE Fault(i, step[i])
  BY <1>2, <1>4, ReturnSane, FineKept
<1> QED BY <1>3, <1>4 DEF HandleAeFailure

\* raft89__handle_ae_success.
LEMMA SuccessFine ==
    ASSUME NEW M, NEW B, NEW i \in Server, Ground(M, B, i),
           step[i] = "NONE", role[i] = "LEADER", UNCHANGED termVars,
           NEW m \in Message, m \in msgs', m.type = "AER", m.success,
           m.term = currentTerm[i], HandleAeSuccess(i, m)
    PROVE  Fine(M, B, i)
<1>1. role'[i] = "LEADER" /\ currentTerm'[i] = m.term
  BY DEF HandleAeSuccess, standing, termVars
<1>2. AckedUpTo(M, B, m.from, m.term, m.match)
  BY GroundFacts DEF MessageSound
<1>3. m.from \in Server /\ m.match \in Index
  BY MessageFields
<1>4. \A j \in Server : matchIndex'[i][j] =
         IF j = m.from THEN m.match ELSE matchIndex[i][j]
  <2>1. matchIndex' = [matchIndex EXCEPT ![i][m.from] = m.match]
    BY DEF HandleAeSuccess
  <2>2. matchIndex \in [Server -> [Server -> Index]]
    BY GroundFacts DEF TypeOK
  <2> QED BY <1>3, <2>1, <2>2
<1>5. AckedBy(M, B, i)
  BY <1>1, <1>2, <1>4 DEF AckedBy, Ground
<1> QED BY <1>1, <1>5, CountSane DEF HandleAeSuccess

\* raft89__recv_ae_response.
LEMMA AeResponseFine ==
    ASSUME NEW M, NEW B, NEW i \in Server, Ground(M, B, i), Idle(i),
           step[i] = "NONE", UNCHANGED termVars,
           NEW m \in Message, m \in msgs', m.type = "AER",
           RecvAeResponse(i, m)
    PROVE  Fine(M, B, i)
<1>1. CASE StepDownNewTerm(i, m.term)
  BY <1>1, StepDownFine
<1>2. CASE role[i] = "LEADER" /\ HandleAeFailure(i, m)
  BY <1>2, FailureFine
<1>3. CASE /\ role[i] = "LEADER" /\ m.term = currentTerm[i] /\ m.success
           /\ HandleAeSuccess(i, m)
  BY <1>3, SuccessFine
<1>4. CASE Ignore(i)
  BY <1>4, QuietFine DEF Ignore, standing, progress, peerView
<1> QED BY <1>1, <1>2, <1>3, <1>4 DEF RecvAeResponse

\* raft89_proposev.
LEMMA ProposeFine ==
    ASSUME NEW M, NEW B, NEW i \in Server, Ground(M, B, i),
           UNCHANGED termVars, NEW cmds \in Seq(Command), Proposev(i, cmds)
    PROVE  Fine(M, B, i)
<1>1. PICK es : es = [k \in DOMAIN cmds |->
                        [term |-> currentTerm[i], cmd |-> cmds[k]]]
  OBVIOUS
<1>2. \A h \in 1..Len(es) : es[h].term = currentTerm'[i]
  BY <1>1 DEF termVars
<1>3. role[i] = "LEADER" /\ UNCHANGED <<standing, progress, peerView>>
  BY DEF Proposev
<1>4. Stays(i) /\ commitIndex'[i] = commitIndex[i] /\ role'[i] = "LEADER"
  BY <1>3 DEF Stays, standing, progress, peerView
<1>5. CASE Emit(i, LogAppend(FirstNew(i), es), "LEADER_APPEND")
  BY <1>2, <1>4, <1>5, LeadAppendSane, FineKept
<1>6. CASE Fault(i, step[i])
  BY <1>4, <1>6, ReturnSane, FineKept
<1>7. "nomem" \notin Faults
  BY GroundFacts
<1> QED BY <1>1, <1>5, <1>6, <1>7 DEF Proposev

\* raft89__leader_after_append.
LEMMA AfterAppendFine ==
    ASSUME NEW M, NEW B, NEW i \in Server, Ground(M, B, i), role[i] = "LEADER",
           LeaderAfterAppend(i)
    PROVE  Fine(M, B, i)
BY LeadOnFine DEF LeaderAfterAppend

---------------------------------------------------------------------------
(* Handlers of raft89_replication.c.                                       *)

\* What a success reply of i promises.
Promised(M, i) ==
    ae'[i].success =>
        /\ currentTerm'[i] \in DOMAIN M
        /\ Same(log'[i], M[currentTerm'[i]], ae'[i].match)

\* ae_send_reply.
LEMMA SendReplySane ==
    ASSUME NEW M, NEW B, NEW i \in Server, Ground(M, B, i), Promised(M, i),
           AeSendReply(i)
    PROVE  Sane(M, B, i)
<1>1. ae'[i] \in Stash
  BY GroundFacts DEF TypeOK
<1>2. ae'[i].success \in BOOLEAN /\ ae'[i].match \in Nat
  BY <1>1, StashFields, Limits DEF Index
<1>3. PICK m : m = AppendResponse(i, ae'[i].leader, currentTerm'[i],
                      ae'[i].success, ae'[i].match, ae'[i].conflictTerm,
                      ae'[i].conflictIndex)
  OBVIOUS
<1>4. /\ m.type = "AER" /\ m.from = i /\ m.term = currentTerm'[i]
      /\ m.success = ae'[i].success /\ m.match = ae'[i].match
  BY <1>3 DEF AppendResponse
<1>5. MessageSound(M, B, m)'
  <2>1. CASE m.success
    BY <1>2, <1>4, <2>1, ReplySound DEF Promised
  <2>2. CASE ~m.success
    BY <1>4, <2>2, RefusalSound
  <2> QED BY <2>1, <2>2
<1>6. Emit(i, Send(m), "NONE")
  BY <1>3 DEF AeSendReply
<1> QED BY <1>5, <1>6, SendSane

\* send_ae_failure.
LEMMA RefuseFine ==
    ASSUME NEW M, NEW B, NEW i \in Server, Ground(M, B, i), step[i] = "NONE",
           NEW j, SendAeFailure(i, j)
    PROVE  Fine(M, B, i)
<1>1. PICK m : m = AppendResponse(i, j, currentTerm[i], FALSE, 0, 0,
                                  Inc(lastIndex[i]))
  OBVIOUS
<1>2. m.type = "AER" /\ ~m.success
  BY <1>1 DEF AppendResponse
<1>3. Emit(i, Send(m), "NONE")
  BY <1>1 DEF SendAeFailure
<1>4. Sane(M, B, i)
  BY <1>2, <1>3, RefusalSound, SendSane
<1>5. Stays(i) /\ commitIndex'[i] = commitIndex[i]
  BY DEF SendAeFailure, Stays, standing, progress, peerView
<1> QED BY <1>4, <1>5, FineKept

\* ae_finish: what the leader has committed of what i holds is committed.
LEMMA FinishFine ==
    ASSUME NEW M, NEW B, NEW i \in Server, Ground(M, B, i),
           role'[i] = "FOLLOWER", Promised(M, i), ae'[i].success,
           Committed(M, B, M[currentTerm'[i]], currentTerm'[i], ae'[i].commit),
           NEW s, AeFinish(i, s)
    PROVE  Fine(M, B, i)
<1> DEFINE u == currentTerm'[i]
           c == FollowerCommit(i)
<1>1. ~(role'[i] = "LEADER")
  OBVIOUS
<1>2. CASE /\ c > commitIndex[i]
           /\ AdvanceCommit(i, c, "AE_REPLY", s)
  <2>1. /\ u \in DOMAIN M /\ Same(log'[i], M[u], ae'[i].match)
    BY DEF Promised
  <2>2. /\ M[u] \in Seq(Entry) /\ log'[i] \in Seq(Entry) /\ LeaderLogs(M)
    BY <2>1, GroundFacts, LeaderLog
  <2>3. ae'[i] \in Stash /\ lastIndex'[i] \in Index
    BY GroundFacts DEF TypeOK
  <2>4. ae'[i].commit \in Nat /\ ae'[i].match \in Nat /\ lastIndex'[i] \in Nat
    BY <2>3, StashFields, Limits DEF Index
  <2>5. c \in Nat /\ c <= ae'[i].commit /\ c <= ae'[i].match
    BY <2>4 DEF FollowerCommit, MinOf
  <2>6. Same(log'[i], M[u], c)
    <3> HIDE DEF c
    <3> QED BY <2>1, <2>2, <2>4, <2>5, SameShorter
  <2>7. Committed(M, B, log'[i], u, c)
    <3> HIDE DEF c
    <3> QED BY <2>2, <2>4, <2>5, <2>6, CommittedLess
  <2>8. Sane(M, B, i) /\ commitIndex'[i] = c
    <3> HIDE DEF c
    <3> QED BY <1>2, <2>1, AdvanceSane
  <2> QED BY <1>1, <2>7, <2>8 DEF Fine
<1>3. CASE AeSendReply(i) /\ UNCHANGED progress
  <2>1. Sane(M, B, i)
    BY <1>3, SendReplySane
  <2> QED BY <1>1, <1>3, <2>1, FineKept DEF Stays, progress
<1> QED BY <1>2, <1>3 DEF AeFinish

\* ae_prefix_matches, ae_scan: before the first difference the log is that of
\* the leader.
LEMMA ScanSame ==
    ASSUME NEW M, NEW B, NEW i \in Server, Ground(M, B, i), Stands(i),
           NEW a \in Stash, NEW es \in Seq(Entry),
           FromLeader(M, B, currentTerm'[i], a.prev, a.prevTerm, es, a.commit),
           PrefixMatches(i, a),
           NEW k \in 1..Len(es)+1, FirstDifference(i, a, es, k)
    PROVE  Same(log'[i], M[currentTerm'[i]], a.prev + k - 1)
<1> DEFINE u == currentTerm'[i]
           p == a.prev
           x == Len(es)
<1>1. /\ u \in DOMAIN M /\ p + x <= Len(M[u])
      /\ \A h \in 1..x : es[h] = M[u][p + h]
      /\ p # 0 => M[u][p].term = a.prevTerm
  BY DEF FromLeader
<1>2. /\ M[u] \in Seq(Entry) /\ Len(M[u]) \in Nat /\ Agrees(M, M[u])
      /\ Agrees(M, log'[i]) /\ log'[i] \in Seq(Entry)
      /\ lastIndex[i] = Len(log'[i]) /\ Len(log'[i]) \in Nat
  BY <1>1, GroundFacts, LeaderLog DEF Stands
<1>3. p \in Nat /\ x \in Nat
  BY StashFields, LenNat, Limits DEF Index
<1>4. CASE k = 1
  <2>1. p + k - 1 = p
    BY <1>3, <1>4
  <2>2. CASE p = 0
    BY <1>2, <2>1, <2>2, SameNone
  <2>3. CASE p # 0
    <3>1. p \in 1..Len(log'[i]) /\ log'[i][p].term = M[u][p].term
      BY <1>1, <2>3 DEF PrefixMatches, Readable, TermAt
    <3>2. p \in 1..Len(M[u])
      <4> HIDE DEF x, p
      <4> QED BY <1>1, <1>2, <1>3, <2>3
    <3>3. Same(log'[i], M[u], p)
      BY <1>2, <3>1, <3>2, AgreeingLogsMatch
    <3> QED BY <2>1, <3>3
  <2> QED BY <2>2, <2>3
<1>5. CASE k # 1
  <2>1. PICK h : h = k - 1
    OBVIOUS
  <2>2. h \in 1..k-1 /\ h \in 1..x /\ h \in Nat /\ k - 1 = h
    <3> HIDE DEF x
    <3> QED BY <1>3, <1>5, <2>1 DEF x
  <2>3. p + h \in Nat /\ p + h # 0 /\ p + k - 1 = p + h
    BY <1>3, <2>1, <2>2
  <2>4. ~Differs(i, a, es, h)
    BY <2>2 DEF FirstDifference
  <2>5. p + h <= Len(log'[i]) /\ log'[i][p + h].term = es[h].term
    BY <1>2, <2>3, <2>4 DEF Differs, TermAt
  <2>6. log'[i][p + h].term = M[u][p + h].term
    BY <1>1, <2>2, <2>5
  <2>7. p + h \in 1..Len(log'[i]) /\ p + h \in 1..Len(M[u])
    <3> HIDE DEF x, p
    <3> QED BY <1>1, <1>2, <1>3, <2>2, <2>3, <2>5 DEF p
  <2>8. Same(log'[i], M[u], p + h)
    BY <1>2, <2>6, <2>7, AgreeingLogsMatch
  <2> QED BY <2>3, <2>8
<1> QED BY <1>4, <1>5

\* ae_apply_entries: nothing more to persist.
LEMMA NothingNewFine ==
    ASSUME NEW M, NEW B, NEW i \in Server, Ground(M, B, i), Stands(i),
           role'[i] = "FOLLOWER", NEW a \in Stash, NEW es \in Seq(Entry),
           FromLeader(M, B, currentTerm'[i], a.prev, a.prevTerm, es, a.commit),
           PrefixMatches(i, a), a.success, a.match = a.prev + Len(es),
           FirstDifference(i, a, es, Len(es) + 1),
           ae'[i] = a, NEW s, AeFinish(i, s)
    PROVE  Fine(M, B, i)
<1> DEFINE u == currentTerm'[i]
<1>1. a.prev \in Nat /\ Len(es) \in Nat
  BY StashFields, LenNat, Limits DEF Index
<1>2. PICK k : k = Len(es) + 1
  OBVIOUS
<1>3. k \in 1..Len(es)+1 /\ a.prev + k - 1 = a.match
  BY <1>1, <1>2
<1>4. Same(log'[i], M[u], a.prev + k - 1)
  BY <1>2, <1>3, ScanSame
<1>5. u \in DOMAIN M /\ Committed(M, B, M[u], u, a.commit)
  BY DEF FromLeader
<1>6. Promised(M, i)
  BY <1>3, <1>4, <1>5 DEF Promised
<1> QED BY <1>5, <1>6, FinishFine

\* What starts behind the end of a log that is long enough starts at its end.
LEMMA NoGap ==
    ASSUME NEW p \in Nat, NEW n \in Nat, NEW k, NEW y \in Nat, n + 1 = k,
           p + k - 1 <= y, p + k > y
    PROVE  y = p + n /\ p + k - 1 = y
OBVIOUS

\* ae_apply_entries: the entries go behind the end of the log.
LEMMA MissingFine ==
    ASSUME NEW M, NEW B, NEW i \in Server, Ground(M, B, i), Stands(i),
           role'[i] = "FOLLOWER", NEW a \in Stash, NEW es \in Seq(Entry),
           FromLeader(M, B, currentTerm'[i], a.prev, a.prevTerm, es, a.commit),
           PrefixMatches(i, a), a.success, a.match = a.prev + Len(es),
           NEW k \in 1..Len(es)+1, FirstDifference(i, a, es, k),
           k <= Len(es), a.prev + k > lastIndex[i],
           ae'[i] = [a EXCEPT !.truncate = 0, !.offset = k - 1],
           pending'[i] = es, commitIndex'[i] = commitIndex[i],
           Emit(i, LogAppend(a.prev + k, SubSeq(es, k, Len(es))), "AE_APPEND")
    PROVE  Fine(M, B, i)
<1> DEFINE u == currentTerm'[i]
           p == a.prev
           x == Len(es)
<1>1. p \in Nat /\ x \in Nat
  BY StashFields, LenNat, Limits DEF Index
<1>2. Same(log'[i], M[u], p + k - 1)
  BY ScanSame
<1>3. Len(log'[i]) \in Nat /\ lastIndex[i] = Len(log'[i])
  BY GroundFacts DEF Stands
<1>4. PICK n : n = k - 1
  OBVIOUS
<1>5. n \in Nat /\ n < x /\ n + 1 = k
  <2> HIDE DEF x
  <2> QED BY <1>1, <1>4 DEF x
<1>6. Len(log'[i]) = p + n /\ p + k - 1 = Len(log'[i])
  <2> DEFINE y == Len(log'[i])
  <2>1. p + k - 1 <= y
    BY <1>2 DEF Same
  <2>2. y \in Nat /\ p + k > y
    BY <1>3
  <2> HIDE DEF p, x, y
  <2>3. y = p + n /\ p + k - 1 = y
    BY <1>1, <1>5, <2>1, <2>2, NoGap
  <2> QED BY <2>3 DEF y
<1>7. /\ ae'[i].prev = p /\ ae'[i].prevTerm = a.prevTerm
      /\ ae'[i].commit = a.commit /\ ae'[i].success
      /\ ae'[i].match = a.match
  BY DEF Stash
<1>8. Follows(M, B, i)
  BY <1>7 DEF Follows
<1>9. Emit(i, LogAppend(p + k, SubSeq(pending'[i], n + 1, Len(pending'[i]))),
           "AE_APPEND")
  BY <1>5
<1>10. Sane(M, B, i)
  BY <1>1, <1>2, <1>5, <1>6, <1>7, <1>8, <1>9, FollowAppendSane
<1> QED BY <1>10, FineKept DEF Stays

\* ae_apply_entries: a conflict, which is beyond what is committed.
LEMMA ConflictFine ==
    ASSUME NEW M, NEW B, NEW i \in Server, Ground(M, B, i), Stands(i),
           role'[i] = "FOLLOWER", NEW a \in Stash, NEW es \in Seq(Entry),
           FromLeader(M, B, currentTerm'[i], a.prev, a.prevTerm, es, a.commit),
           PrefixMatches(i, a), a.success, a.match = a.prev + Len(es),
           NEW k \in 1..Len(es)+1, FirstDifference(i, a, es, k),
           k <= Len(es), a.prev + k <= lastIndex[i],
           ae'[i] = [a EXCEPT !.truncate = a.prev + k, !.offset = k - 1],
           pending'[i] = es, commitIndex'[i] = commitIndex[i],
           NEW s,
           IF a.prev + k <= commitIndex[i]
           THEN Return(i, s)
           ELSE Emit(i, LogTruncate(a.prev + k), "AE_TRUNCATE")
    PROVE  Fine(M, B, i)
<1> DEFINE u == currentTerm'[i]
           p == a.prev
           x == Len(es)
<1>1. p \in Nat /\ x \in Nat /\ k \in Nat /\ k # 0
  BY StashFields, LenNat, Limits DEF Index
<1>2. Same(log'[i], M[u], p + k - 1)
  BY ScanSame
<1>3. /\ u \in DOMAIN M /\ p + x <= Len(M[u]) /\ es[k] = M[u][p + k]
      /\ Len(M[u]) \in Nat
  <2>1. u \in DOMAIN M /\ p + x <= Len(M[u])
        /\ \A h \in 1..x : es[h] = M[u][p + h]
    BY DEF FromLeader
  <2>2. k \in 1..x
    BY <1>1
  <2> QED BY <2>1, <2>2, GroundFacts, LeaderLog
<1>4. PICK f : f = p + k
  OBVIOUS
<1>5. f \in Nat \ {0} /\ f - 1 = p + k - 1 /\ f <= Len(M[u])
  <2> HIDE DEF p, x
  <2> QED BY <1>1, <1>3, <1>4 DEF x
<1>6. log'[i][f].term # M[u][f].term
  <2>1. TermAt(i, f) # es[k].term
    BY <1>4 DEF FirstDifference, Differs
  <2> QED BY <1>3, <1>4, <1>5, <2>1 DEF TermAt
<1>7. commitIndex[i] < f
  <2>1. /\ LeaderLogs(M) /\ AcksKept(M, B, hard', log')
        /\ LeadersComplete(M, B, hard') /\ log'[i] \in Seq(Entry)
        /\ u \in Nat /\ commitIndex[i] \in Nat /\ u <= u
        /\ Committed(M, B, log'[i], u, commitIndex[i])
    BY GroundFacts
  <2>2. PICK h, l : h = hard' /\ l = log'
    OBVIOUS
  <2>3. AcksKept(M, B, h, l) /\ LeadersComplete(M, B, h)
    BY <2>1, <2>2
  <2>4. PICK r, v, c : r = log'[i] /\ v = u /\ c = commitIndex[i]
    OBVIOUS
  <2>5. /\ r \in Seq(Entry) /\ v \in Nat /\ c \in Nat /\ v <= v
        /\ Committed(M, B, r, v, c) /\ v \in DOMAIN M
        /\ r[f].term # M[v][f].term
    BY <1>3, <1>6, <2>1, <2>4
  <2>6. c < f
    BY <1>5, <2>1, <2>3, <2>5, ConflictBeyond
  <2> QED BY <2>4, <2>6
<1>8. Emit(i, LogTruncate(f), "AE_TRUNCATE")
  <2>1. commitIndex[i] \in Nat
    BY GroundFacts
  <2>2. ~(f <= commitIndex[i])
    BY <1>5, <1>7, <2>1
  <2> QED BY <1>4, <2>2
<1>9. /\ ae'[i].prev = p /\ ae'[i].prevTerm = a.prevTerm
      /\ ae'[i].commit = a.commit /\ ae'[i].success
      /\ ae'[i].match = a.match
  BY DEF Stash
<1>10. Follows(M, B, i)
  BY <1>9 DEF Follows
<1>11. Sane(M, B, i)
  BY <1>2, <1>5, <1>6, <1>8, <1>10, TruncateSane
<1> QED BY <1>11, FineKept DEF Stays

\* ae_process.
LEMMA ProcessFine ==
    ASSUME NEW M, NEW B, NEW i \in Server, Ground(M, B, i), Stands(i),
           NEW s, NEW a \in Stash, NEW es \in Seq(Entry),
           a.prev + Len(es) <= IndexMax,
           FromLeader(M, B, currentTerm'[i], a.prev, a.prevTerm, es, a.commit),
           AeProcess(i, s, a, es)
    PROVE  Fine(M, B, i)
<1>1. /\ TypeOK /\ role'[i] = "FOLLOWER" /\ lastIndex'[i] = lastIndex[i]
      /\ Stays(i)
  BY GroundFacts DEF AeProcess, TypeOK, Set, lastLog, Stays
<1>2. CASE ReplyPrefixFailure(i, a) /\ UNCHANGED progress
  <2>1. ~ae'[i].success
    <3>1. PICK t, k : ae' = Set(ae, i, [a EXCEPT !.success = FALSE,
                                   !.match = 0, !.conflictTerm = t,
                                   !.conflictIndex = k])
      BY <1>2 DEF ReplyPrefixFailure
    <3>2. ae'[i] = [a EXCEPT !.success = FALSE, !.match = 0,
                             !.conflictTerm = t, !.conflictIndex = k]
      BY <1>1, <3>1 DEF TypeOK, Set
    <3> QED BY <3>2 DEF Stash
  <2>2. Promised(M, i)
    BY <2>1 DEF Promised
  <2>3. Sane(M, B, i)
    BY <1>2, <2>2, SendReplySane DEF ReplyPrefixFailure
  <2> QED BY <1>1, <1>2, <2>3, FineKept DEF progress
<1>3. CASE Fault(i, s) /\ UNCHANGED progress
  BY <1>1, <1>3, ReturnSane, FineKept DEF progress
<1>4. CASE PrefixMatches(i, a) /\ AeApplyEntries(i, s,
             [a EXCEPT !.success = TRUE, !.match = MatchOf(i, a, es)], es)
  <2>1. PICK b : b = [a EXCEPT !.success = TRUE, !.match = MatchOf(i, a, es)]
    OBVIOUS
  <2>2. /\ b.prev = a.prev /\ b.prevTerm = a.prevTerm /\ b.commit = a.commit
        /\ b.success /\ b.match = a.prev + Len(es)
    BY <2>1 DEF Stash, MatchOf
  <2>3. b \in Stash
    <3>1. a.prev + Len(es) \in Index
      <4>1. a.prev \in Nat /\ Len(es) \in Nat
        BY StashFields, LenNat, Limits DEF Index
      <4> QED BY <4>1, Limits DEF Index
    <3> QED BY <2>1, <3>1 DEF Stash, MatchOf
  <2>4. FromLeader(M, B, currentTerm'[i], b.prev, b.prevTerm, es, b.commit)
    BY <2>2
  <2>5. PrefixMatches(i, b) /\ AeApplyEntries(i, s, b, es)
    BY <1>4, <2>1, <2>2 DEF PrefixMatches
  <2>6. PICK k \in 1..Len(es)+1 :
          /\ FirstDifference(i, b, es, k)
          /\ \/ k > Len(es) /\ ae' = Set(ae, i, b) /\ AeFinish(i, s)
             \/ /\ k <= Len(es)
                /\ pending' = Set(pending, i, es)
                /\ UNCHANGED progress
                /\ \/ /\ b.prev + k > lastIndex[i]
                      /\ ae' = Set(ae, i, [b EXCEPT !.truncate = 0,
                                                    !.offset = k - 1])
                      /\ Emit(i, LogAppend(b.prev + k,
                                           SubSeq(es, k, Len(es))), "AE_APPEND")
                   \/ /\ b.prev + k <= lastIndex[i]
                      /\ ae' = Set(ae, i, [b EXCEPT !.truncate = b.prev + k,
                                                    !.offset = k - 1])
                      /\ IF b.prev + k <= commitIndex[i]
                         THEN Return(i, s)
                         ELSE Emit(i, LogTruncate(b.prev + k), "AE_TRUNCATE")
    BY <2>5 DEF AeApplyEntries
  <2>7. /\ \A v : ae' = Set(ae, i, v) => ae'[i] = v
        /\ \A v : pending' = Set(pending, i, v) => pending'[i] = v
        /\ UNCHANGED progress => commitIndex'[i] = commitIndex[i]
    BY <1>1 DEF TypeOK, Set, progress
  <2>8. b.prev \in Nat /\ Len(es) \in Nat /\ lastIndex[i] \in Nat
    <3>1. b.prev \in Index
      BY <2>3, StashFields
    <3>2. lastIndex[i] \in Index
      BY <1>1 DEF TypeOK
    <3> QED BY <3>1, <3>2, LenNat, Limits DEF Index
  <2>9. CASE k > Len(es)
    <3>1. k = Len(es) + 1
      BY <2>9, LenNat
    <3> QED BY <1>1, <2>2, <2>3, <2>4, <2>5, <2>6, <2>7, <2>9, <3>1,
               NothingNewFine
  <2>10. CASE k <= Len(es) /\ b.prev + k > lastIndex[i]
    <3>1. ~(k > Len(es)) /\ ~(b.prev + k <= lastIndex[i])
      BY <2>8, <2>10
    <3> QED BY <1>1, <2>2, <2>3, <2>4, <2>5, <2>6, <2>7, <2>10, <3>1,
               MissingFine
  <2>11. CASE k <= Len(es) /\ b.prev + k <= lastIndex[i]
    <3>1. ~(k > Len(es)) /\ ~(b.prev + k > lastIndex[i])
      BY <2>8, <2>11
    <3> QED BY <1>1, <2>2, <2>3, <2>4, <2>5, <2>6, <2>7, <2>11, <3>1,
               ConflictFine
  <2> QED BY <2>6, <2>9, <2>10, <2>11
<1> QED BY <1>2, <1>3, <1>4 DEF AeProcess

\* raft89__recv_append_entries.
LEMMA AppendEntriesFine ==
    ASSUME NEW M, NEW B, NEW i \in Server, Ground(M, B, i), Stands(i),
           step[i] = "NONE", UNCHANGED termVars,
           NEW m \in Message, m \in msgs', m.type = "AE", EnvelopeValid(i, m),
           RecvAppendEntries(i, m)
    PROVE  Fine(M, B, i)
<1>1. FromLeader(M, B, m.term, m.prev, m.prevTerm, m.entries, m.commit)
  BY GroundFacts DEF MessageSound
<1>2. /\ StashOf(m) \in Stash /\ StashOf(m).prev = m.prev
      /\ StashOf(m).prevTerm = m.prevTerm /\ StashOf(m).commit = m.commit
      /\ m.entries \in Seq(Entry) /\ m.prev + Len(m.entries) <= IndexMax
  BY RequestFits DEF StashOf, NoStash
<1>3. CASE SendAeFailure(i, m.from)
  BY <1>3, RefuseFine
<1>4. CASE StartAeHardState(i, m)
  <2>1. ae'[i] = StashOf(m) /\ pending'[i] = m.entries
    BY <1>4, GroundFacts DEF StartAeHardState, Set, TypeOK
  <2>2. NoId \notin Server
    BY ServerAssumption
  <2>3. /\ Emit(i, HardState(m.term, NoId), "AE_HARD_STATE")
        /\ UNCHANGED progress
    BY <1>4 DEF StartAeHardState
  <2> QED BY <1>1, <1>2, <2>1, <2>2, <2>3, PersistFine
<1>5. CASE /\ m.term = currentTerm[i]
           /\ AeProcess(i, step[i], StashOf(m), m.entries)
  <2>1. currentTerm'[i] = m.term
    BY <1>5 DEF termVars
  <2>2. PICK a, es : a = StashOf(m) /\ es = m.entries
    OBVIOUS
  <2>3. /\ FromLeader(M, B, currentTerm'[i], a.prev, a.prevTerm, es, a.commit)
        /\ a \in Stash /\ es \in Seq(Entry) /\ a.prev + Len(es) <= IndexMax
        /\ AeProcess(i, step[i], a, es)
    BY <1>1, <1>2, <1>5, <2>1, <2>2
  <2> QED BY <2>3, ProcessFine
<1>6. ~StashFails(i, m)
  BY GroundFacts DEF StashFails
<1> QED BY <1>3, <1>4, <1>5, <1>6 DEF RecvAppendEntries

\* raft89__ae_after_truncate.
LEMMA AfterTruncateFine ==
    ASSUME NEW M, NEW B, NEW i \in Server, Ground(M, B, i),
           role[i] = "FOLLOWER", ae[i].success,
           ae[i].match = ae[i].prev + Len(pending[i]),
           FromLeader(M, B, currentTerm'[i], ae[i].prev, ae[i].prevTerm,
                      pending[i], ae[i].commit),
           Same(log'[i], M[currentTerm'[i]], Len(log'[i])),
           ae[i].prev + ae[i].offset = Len(log'[i]),
           ae[i].offset < Len(pending[i]),
           AeAfterTruncate(i)
    PROVE  Fine(M, B, i)
<1>1. /\ role'[i] = "FOLLOWER" /\ ae'[i] = ae[i] /\ Stays(i)
      /\ UNCHANGED progress
  BY DEF AeAfterTruncate, standing, LastUnreadable, Stays
<1>2. CASE Fault(i, "AE_TRUNCATE")
  BY <1>1, <1>2, ReturnSane, FineKept DEF progress
<1>3. CASE /\ Emit(i, LogAppend(ae[i].prev + ae[i].offset + 1,
                         SubSeq(pending[i], ae[i].offset + 1,
                                Len(pending[i]))), "AE_APPEND")
           /\ UNCHANGED pending
  <2>1. Follows(M, B, i)
    BY <1>1, <1>3 DEF Follows
  <2>2. ae[i] \in Stash /\ pending'[i] \in Seq(Entry)
    BY GroundFacts DEF TypeOK
  <2>3. ae[i].offset \in Nat /\ ae[i].prev \in Nat
    BY <2>2, StashFields, Limits DEF Index
  <2>4. PICK n, k : n = ae[i].offset /\ k = ae[i].prev + ae[i].offset + 1
    OBVIOUS
  <2>5. /\ n \in Nat /\ n < Len(pending'[i])
        /\ Emit(i, LogAppend(k, SubSeq(pending'[i], n + 1, Len(pending'[i]))),
                "AE_APPEND")
        /\ ae'[i].prev \in Nat /\ Len(log'[i]) = ae'[i].prev + n
    BY <1>1, <1>3, <2>3, <2>4
  <2>6. Sane(M, B, i)
    BY <2>1, <2>2, <2>5, FollowAppendSane
  <2> QED BY <1>1, <2>6, FineKept DEF progress
<1> QED BY <1>2, <1>3 DEF AeAfterTruncate, LastUnreadable

\* raft89__ae_after_append.
LEMMA AfterFollowFine ==
    ASSUME NEW M, NEW B, NEW i \in Server, Ground(M, B, i),
           role[i] = "FOLLOWER", ae[i].success,
           ae[i].match = ae[i].prev + Len(pending[i]),
           FromLeader(M, B, currentTerm'[i], ae[i].prev, ae[i].prevTerm,
                      pending[i], ae[i].commit),
           Same(log'[i], M[currentTerm'[i]], Len(log'[i])),
           ae[i].prev + Len(pending[i]) = Len(log'[i]),
           AeAfterAppend(i)
    PROVE  Fine(M, B, i)
<1>1. role'[i] = "FOLLOWER" /\ ae'[i] = ae[i] /\ Stays(i)
  BY DEF AeAfterAppend, standing, Stays
<1>2. CASE Fault(i, "AE_APPEND") /\ UNCHANGED progress
  BY <1>1, <1>2, ReturnSane, FineKept DEF progress
<1>3. CASE AeFinish(i, "AE_APPEND")
  <2>1. /\ currentTerm'[i] \in DOMAIN M
        /\ Committed(M, B, M[currentTerm'[i]], currentTerm'[i], ae'[i].commit)
    BY <1>1 DEF FromLeader
  <2>2. Promised(M, i)
    BY <1>1, <2>1 DEF Promised
  <2> QED BY <1>1, <1>3, <2>1, <2>2, FinishFine
<1> QED BY <1>2, <1>3 DEF AeAfterAppend, LastUnreadable

---------------------------------------------------------------------------
(* The rest of raft89_action_done.                                         *)

\* raft89__apply_ack.
LEMMA ApplyAckFine ==
    ASSUME NEW M, NEW B, NEW i \in Server, Ground(M, B, i),
           afterApply[i] = "AE_REPLY" /\ ae[i].success =>
             /\ currentTerm'[i] \in DOMAIN M
             /\ Same(log'[i], M[currentTerm'[i]], ae[i].match),
           ApplyAck(i)
    PROVE  Fine(M, B, i)
<1>1. /\ ae'[i] = ae[i] /\ Stays(i) /\ commitIndex'[i] = commitIndex[i]
  BY DEF ApplyAck, standing, peerView, stash, Stays
<1>2. CASE /\ EmitNextApply(i, Inc(Inc(appliedIndex[i])), "NONE")
           /\ UNCHANGED afterApply
  <2>1. Sane(M, B, i)
    BY <1>1, <1>2, NextApplySane
  <2> QED BY <1>1, <2>1, FineKept
<1>3. CASE afterApply[i] = "AE_REPLY" /\ AeSendReply(i)
  <2>1. Promised(M, i)
    BY <1>1, <1>3 DEF Promised
  <2>2. Sane(M, B, i)
    BY <1>3, <2>1, SendReplySane
  <2> QED BY <1>1, <2>2, FineKept
<1>4. CASE Return(i, "NONE")
  BY <1>1, <1>4, ReturnSane, FineKept
<1> QED BY <1>2, <1>3, <1>4 DEF ApplyAck

\* Steps NONE and STEP_DOWN.
LEMMA EndOfChainFine ==
    ASSUME NEW M, NEW B, NEW i \in Server, Ground(M, B, i), EndOfChain(i)
    PROVE  Fine(M, B, i)
<1>1. Stays(i) /\ commitIndex'[i] = commitIndex[i]
  BY DEF EndOfChain, standing, progress, peerView, Stays
<1> QED BY <1>1, ReturnSane, FineKept DEF EndOfChain

---------------------------------------------------------------------------
(* Public calls.                                                           *)

\* What i knows to be committed stays committed.
LEMMA CommitKept ==
    ASSUME NEW L, NEW A, NEW M, NEW B, NEW i \in Server, Hands(L, A, M, B, i)
    PROVE  Committed(M, B, log'[i], currentTerm'[i], commitIndex[i])
<1> DEFINE c == commitIndex[i]
           a == SubSeq(log[i], 1, c)
<1>1. /\ LocalState /\ LocalState' /\ LeaderLogs(L) /\ NodeSound(L, A, i)
      /\ AcksKept(L, A, hard, log) /\ LeadersComplete(L, A, hard)
      /\ LeaderLogs(M) /\ Move(i)
      /\ Grows(L, A, hard, M, B, hard', i)
      /\ hard'[i].term >= hard[i].term
  BY HandsFacts
<1>2. c \in Nat
  <2>1. c \in Index
    BY <1>1 DEF LocalState, NodesInv, TypeOK
  <2> QED BY <2>1, Limits DEF Index
<1>3. /\ log[i] \in Seq(Entry) /\ log'[i] \in Seq(Entry)
      /\ hard[i].term \in Nat /\ hard'[i].term \in Nat
      /\ hard'[i].term = currentTerm'[i] /\ action[i] \in Action
  BY <1>1, PastTyped, PastTypedNext
<1>4. Committed(L, A, log[i], hard[i].term, c)
  BY <1>1 DEF NodeSound, ProgressSound
<1>5. c <= Len(log[i])
  BY <1>2, <1>3, <1>4, CommittedLen
<1>6. a \in Seq(Entry) /\ Len(a) = c /\ Same(a, log[i], Len(a))
  <2>1. a \in Seq(Entry) /\ Len(a) = c
    BY <1>2, <1>3, <1>5, CutLog
  <2>2. Cut(log[i], a, 0)
    BY <1>2, <1>3, <1>5, CutAt
  <2>3. Same(a, log[i], Len(a))
    BY <1>3, <2>1, <2>2, CutSame
  <2> QED BY <2>1, <2>3
<1>7. \/ log'[i] = log[i]
      \/ \E es : Appended(log[i], log'[i], es)
      \/ \E f \in Nat : Cut(log[i], log'[i], f) /\ c < f
  <2>1. CASE action[i].type = "LOG_TRUNCATE" /\ Cut(log[i], log'[i], action[i].first)
    <3>1. action[i].first \in Index /\ action[i].first > c
      BY <1>1, <1>3, <2>1, ActionFields
         DEF LocalState, NodesInv, LocalInv, ActionFits
    <3>2. action[i].first \in Nat
      BY <3>1, Limits DEF Index
    <3> QED BY <1>2, <2>1, <3>1, <3>2
  <2> QED BY <1>1, <2>1 DEF Move, Effected
<1>8. Same(a, log'[i], c)
  <2> HIDE DEF a, c
  <2> QED BY <1>3, <1>6, <1>7, PrefixSurvives
<1>9. Same(log'[i], log[i], c)
  <2> HIDE DEF a, c
  <2> QED BY <1>6, <1>8, SameSym, SameTrans
<1>10. Committed(L, A, log'[i], hard[i].term, c)
  <2>1. c <= c
    BY <1>2
  <2> HIDE DEF c
  <2> QED BY <1>1, <1>2, <1>3, <1>4, <1>9, <2>1, CommittedLess
<1> QED BY <1>1, <1>2, <1>3, <1>10, CommittedLater

\* A step of i, idle or acknowledged, gives its handlers their ground.
LEMMA HandsGround ==
    ASSUME NEW L, NEW A, NEW M, NEW B, NEW i \in Server, Hands(L, A, M, B, i),
           Called(i)
    PROVE  Ground(M, B, i)
<1>1. /\ LocalState /\ LocalState' /\ NodeSound(L, A, i) /\ Move(i)
  BY HandsFacts
<1>2. TypeOK /\ TypeOK' /\ LocalInv(i)' /\ VoteInv'
  BY <1>1 DEF LocalState, NodesInv
<1>3. Past(M, B, hard', log', app')
  BY HandsPast
<1>4. \A m \in msgs' : MessageSound(M, B, m)'
  BY MessagesNext
<1>5. role'[i] = "LEADER" =>
         currentTerm'[i] \in DOMAIN M /\ M[currentTerm'[i]] = log'[i]
  BY MoverLeads
<1>6. hard'[i].vote \in Server \ {i} =>
         VoteSound(B, i, hard[i].vote, hard[i].term)'
  BY MoverVote
<1>7. ASSUME role[i] = "LEADER", NEW j \in Server \ {i}
      PROVE  AckedUpTo(M, B, j, currentTerm'[i], matchIndex[i][j])
  <2>1. action[i].type # "HARD_STATE"
    BY <1>1, <1>7, RoleActions DEF NodeSound
  <2>2. hard'[i] = hard[i]
    BY <1>1, <2>1 DEF Move, Effected
  <2>3. currentTerm'[i] = currentTerm[i]
    BY <1>1, <2>2, PastTyped, PastTypedNext
  <2>4. AckedUpTo(L, A, j, currentTerm[i], matchIndex[i][j])
    BY <1>1, <1>7 DEF NodeSound, Leads
  <2>5. matchIndex[i][j] \in Nat
    BY <1>2, Limits DEF TypeOK, Index
  <2>6. AckedUpTo(M, B, j, currentTerm[i], matchIndex[i][j])
    BY <2>4, <2>5, AckedLater
  <2> QED BY <2>3, <2>6
<1>8. Committed(M, B, log'[i], currentTerm'[i], commitIndex[i])
  BY CommitKept
<1> QED BY <1>2, <1>3, <1>4, <1>5, <1>6, <1>7, <1>8 DEF Ground

\* A node that has not faulted carries a continuation only with the action
\* that it waits for.
LEMMA IdleNone ==
    ASSUME NEW L, NEW A, NEW i \in Server, NodeSound(L, A, i), Ready(i), Idle(i)
    PROVE  step[i] = "NONE"
<1>1. action[i].type # "HARD_STATE" /\ ~faulted[i]
  BY DEF Ready, NoAction
<1> QED BY <1>1 DEF NodeSound, StepSound, Idle

\* raft89_recv, raft89_tick, raft89_proposev.
LEMMA CallFine ==
    ASSUME NEW L, NEW A, NEW M, NEW B, NEW i \in Server, Hands(L, A, M, B, i),
           "nomem" \notin Faults, Call(i), UNCHANGED msgs
    PROVE  Fine(M, B, i)
<1>1. /\ NodesInv /\ NodesInv' /\ NodeSound(L, A, i) /\ msgs \subseteq Message
  BY HandsFacts DEF LocalState, NodesInv, TypeOK
<1>2. Ready(i) /\ UNCHANGED <<durable, termVars>>
  BY DEF Call, Recv, Tick, Propose
<1>3. /\ Called(i) /\ Stands(i) /\ Idle(i)
  BY <1>1, <1>2, CallCalled
<1>4. /\ step[i] = "NONE" /\ Ground(M, B, i) /\ UNCHANGED termVars
  BY <1>1, <1>2, <1>3, IdleNone, HandsGround
<1>5. ASSUME NEW m \in msgs, Recv(i, m)
      PROVE  Fine(M, B, i)
  <2>1. m \in Message /\ m \in msgs'
    BY <1>1
  <2>2. CASE m.type = "RV" /\ RecvRequestVote(i, m)
    BY <1>3, <1>4, <2>1, <2>2, RequestVoteFine
  <2>3. CASE m.type = "RVR" /\ RecvVoteResponse(i, m)
    BY <1>3, <1>4, <2>3, VoteResponseFine
  <2>4. CASE m.type = "AE" /\ RecvAppendEntries(i, m)
    <3>1. EnvelopeValid(i, m)
      BY <1>5 DEF Recv
    <3> QED BY <1>3, <1>4, <2>1, <2>4, <3>1, AppendEntriesFine
  <2>5. CASE m.type = "AER" /\ RecvAeResponse(i, m)
    BY <1>3, <1>4, <2>1, <2>5, AeResponseFine
  <2> QED BY <1>5, <2>2, <2>3, <2>4, <2>5 DEF Recv
<1>6. CASE Tick(i)
  BY <1>3, <1>4, <1>6, TickFine DEF Tick
<1>7. ASSUME NEW cmds \in Batches, Propose(i, cmds)
      PROVE  Fine(M, B, i)
  <2>1. cmds \in Seq(Command)
    BY BatchAssumption
  <2> QED BY <1>4, <1>7, <2>1, ProposeFine DEF Propose
<1> QED BY <1>5, <1>6, <1>7 DEF Call

---------------------------------------------------------------------------
(* raft89_action_done.                                                     *)

\* What is known when the acknowledged action does not change the hard state:
\* the term is the same, and a stashed request is still one of its leader.
LEMMA SameTerm ==
    ASSUME NEW L, NEW A, NEW M, NEW B, NEW i \in Server, Hands(L, A, M, B, i),
           Effect(i), action[i].type # "HARD_STATE"
    PROVE  /\ hard'[i].term = hard[i].term
           /\ currentTerm'[i] = currentTerm[i]
           /\ currentTerm[i] = hard[i].term
<1>1. LocalState /\ LocalState'
  BY HandsFacts
<1> QED BY <1>1, PastTyped, PastTypedNext DEF Effect

\* The stashed request of a continuation is one of the present leader.
LEMMA StashKept ==
    ASSUME NEW L, NEW A, NEW M, NEW B, NEW i \in Server, Hands(L, A, M, B, i),
           Effect(i), ~faulted[i],
           step[i] \in {"AE_HARD_STATE", "AE_TRUNCATE", "AE_APPEND"}
    PROVE  /\ role[i] = "FOLLOWER"
           /\ FromLeader(M, B, currentTerm'[i], ae[i].prev, ae[i].prevTerm,
                         pending[i], ae[i].commit)
<1>1. /\ LocalState /\ LocalState' /\ NodeSound(L, A, i) /\ TypeOK
  BY HandsFacts DEF LocalState, NodesInv
<1>2. /\ role[i] = "FOLLOWER"
      /\ FromLeader(L, A, StashTerm(i), ae[i].prev, ae[i].prevTerm,
                    pending[i], ae[i].commit)
  BY <1>1 DEF NodeSound, StepSound
<1>3. StashTerm(i) = currentTerm'[i]
  <2>1. CASE action[i].type = "HARD_STATE"
    <3>1. hard'[i].term = currentTerm'[i]
      BY <1>1, PastTypedNext
    <3> QED BY <2>1, <3>1 DEF Effect, StashTerm
  <2>2. CASE action[i].type # "HARD_STATE"
    BY <2>2, SameTerm DEF StashTerm
  <2> QED BY <2>1, <2>2
<1>4. ae[i] \in Stash /\ pending[i] \in Seq(Entry)
  BY <1>1 DEF TypeOK
<1>5. ae[i].prev \in Nat /\ ae[i].commit \in Nat
  BY <1>4, StashFields, Limits DEF Index
<1> QED BY <1>2, <1>3, <1>4, <1>5, FromLeaderLater

\* The entries from f on start behind the first p + o.
LEMMA OneBack ==
    ASSUME NEW p \in Nat, NEW o \in Nat, NEW f, p + o + 1 = f
    PROVE  f - 1 \in Nat /\ p + o = f - 1
OBVIOUS

\* The continuations of a follower.
LEMMA FollowDoneFine ==
    ASSUME NEW L, NEW A, NEW M, NEW B, NEW i \in Server, Hands(L, A, M, B, i),
           Ground(M, B, i), Effect(i), ~faulted[i], StepFits(i),
           action[i].type \notin {"LOG_APPEND", "LOG_TRUNCATE"} => Stands(i),
           \/ step[i] = "AE_HARD_STATE" /\ AeContinue(i)
           \/ step[i] = "AE_TRUNCATE" /\ AeAfterTruncate(i)
           \/ step[i] = "AE_APPEND" /\ AeAfterAppend(i)
    PROVE  Fine(M, B, i)
<1> DEFINE a == action[i]
           u == currentTerm'[i]
<1>1. /\ LocalState /\ LocalState' /\ NodeSound(L, A, i) /\ TypeOK
      /\ LeaderLogs(L) /\ LeaderLogs(M) /\ Extends(L, M) /\ LocalInv(i)
      /\ a \in Action
  <2>1. /\ LocalState /\ LocalState' /\ NodeSound(L, A, i)
        /\ LeaderLogs(L) /\ LeaderLogs(M) /\ Extends(L, M)
    BY HandsFacts
  <2>2. TypeOK /\ LocalInv(i)
    BY <2>1 DEF LocalState, NodesInv
  <2>3. a \in Action
    BY <2>2 DEF TypeOK
  <2> QED BY <2>1, <2>2, <2>3
<1>2. /\ role[i] = "FOLLOWER"
      /\ FromLeader(M, B, u, ae[i].prev, ae[i].prevTerm, pending[i],
                    ae[i].commit)
  BY StashKept
<1>3. ae[i] \in Stash /\ pending[i] \in Seq(Entry)
  BY <1>1 DEF TypeOK
<1>4. /\ log[i] \in Seq(Entry) /\ log'[i] \in Seq(Entry)
      /\ Len(log[i]) \in Nat /\ Len(log'[i]) \in Nat
  BY <1>1, PastTyped, PastTypedNext
<1>5. CASE step[i] = "AE_HARD_STATE" /\ AeContinue(i)
  <2>1. Stands(i)
    BY <1>1, <1>5, StepActions
  <2>2. ae[i].prev + Len(pending[i]) <= IndexMax
    BY <1>5 DEF StepFits, Stashed
  <2> QED BY <1>2, <1>3, <1>5, <2>1, <2>2, ProcessFine DEF AeContinue
<1>6. CASE step[i] = "AE_TRUNCATE" /\ AeAfterTruncate(i)
  <2>1. a.type = "LOG_TRUNCATE"
    BY <1>1, <1>6, StepActions
  <2>2. /\ currentTerm[i] \in DOMAIN L
        /\ Same(log[i], L[currentTerm[i]], a.first - 1)
    BY <1>1, <2>1 DEF NodeSound, ActionSound
  <2>3. /\ ae[i].prev + ae[i].offset + 1 = a.first
        /\ ae[i].offset < Len(pending[i])
    BY <1>6 DEF StepFits
  <2>4. ae[i].prev \in Nat /\ ae[i].offset \in Nat
    BY <1>3, StashFields, Limits DEF Index
  <2>5. PICK n : n = a.first - 1
    OBVIOUS
  <2>6. n \in Nat /\ ae[i].prev + ae[i].offset = n
    BY <2>3, <2>4, <2>5, OneBack
  <2>7. n <= Len(log[i]) /\ log'[i] = SubSeq(log[i], 1, n)
    BY <2>1, <2>2, <2>5 DEF Same, Effect
  <2>8. Len(log'[i]) = n
    BY <1>4, <2>6, <2>7, CutLog
  <2>9. /\ hard'[i].term = hard[i].term /\ u = currentTerm[i]
        /\ currentTerm[i] = hard[i].term
    BY <2>1, SameTerm
  <2>10. Same(log'[i], M[u], n)
    BY <2>2, <2>5, <2>6, <2>9, LogKept
  <2>11. ae[i].success /\ ae[i].match = ae[i].prev + Len(pending[i])
    BY <1>1, <1>6 DEF NodeSound, StepSound
  <2> QED BY <1>2, <1>6, <2>3, <2>6, <2>8, <2>10, <2>11, AfterTruncateFine
<1>7. CASE step[i] = "AE_APPEND" /\ AeAfterAppend(i)
  <2>1. a.type = "LOG_APPEND"
    BY <1>1, <1>7, StepActions
  <2>2. a.entries \in Seq(Entry) /\ Len(a.entries) \in Nat
    BY <1>1, <2>1, ActionFields, LenNat
  <2>3. log'[i] = log[i] \o a.entries
    BY <2>1 DEF Effect
  <2>4. Appended(log[i], log'[i], a.entries)
    <3>1. SubSeq(a.entries, 1, Len(a.entries)) = a.entries
      BY <2>2
    <3>2. Appended(log[i], log[i] \o SubSeq(a.entries, 1, Len(a.entries)),
                   a.entries)
      <4>1. Len(a.entries) <= Len(a.entries)
        BY <2>2
      <4> QED BY <1>4, <2>2, <4>1, AppendedFirst
    <3> QED BY <2>3, <3>1, <3>2
  <2>5. /\ hard'[i].term = hard[i].term /\ u = currentTerm[i]
        /\ currentTerm[i] = hard[i].term
    BY <2>1, SameTerm
  <2>6. /\ u \in DOMAIN L /\ Same(log'[i], L[u], Len(log'[i]))
    BY <1>1, <1>2, <2>1, <2>4, <2>5, FollowerAppended DEF NodeSound
  <2>7. Same(log'[i], M[u], Len(log'[i]))
    BY <1>1, <1>4, <2>6, SameLater
  <2>8. ae[i].success /\ ae[i].match = ae[i].prev + Len(pending[i])
    BY <1>1, <1>7 DEF NodeSound, StepSound
  <2>9. ae[i].prev + Len(pending[i]) = Len(log'[i])
    <3>1. ae[i].prev + Len(pending[i]) = Len(log[i]) + Len(a.entries)
      BY <1>7 DEF StepFits
    <3>2. Len(log'[i]) = Len(log[i]) + Len(a.entries)
      BY <1>4, <2>2, <2>3
    <3> QED BY <3>1, <3>2
  <2> QED BY <1>2, <1>7, <2>7, <2>8, <2>9, AfterFollowFine
<1> QED BY <1>5, <1>6, <1>7

\* raft89_action_done with RAFT89_ACTION_OK or RAFT89_ACTION_LOST.
LEMMA DoneFine ==
    ASSUME NEW L, NEW A, NEW M, NEW B, NEW i \in Server, Hands(L, A, M, B, i),
           "nomem" \notin Faults, ActionDone(i)
    PROVE  Fine(M, B, i)
<1>1. /\ LocalState /\ NodesInv /\ TypeOK /\ NodeSound(L, A, i)
      /\ LocalInv(i) /\ ~faulted[i] /\ action[i] \in Action /\ Resume(i)
  <2>1. LocalState /\ NodeSound(L, A, i)
    BY HandsFacts
  <2>2. NodesInv /\ TypeOK /\ LocalInv(i)
    BY <2>1 DEF LocalState, NodesInv
  <2>3. action[i] \in Action
    BY <2>2 DEF TypeOK
  <2>4. ~faulted[i] /\ Resume(i)
    BY DEF ActionDone
  <2> QED BY <2>1, <2>2, <2>3, <2>4
<1>2. /\ Called(i) /\ Effect(i)
      /\ action[i].type \notin {"LOG_APPEND", "LOG_TRUNCATE"} => Stands(i)
  BY <1>1, DoneCalled
<1>3. Ground(M, B, i) /\ StepFits(i)
  BY <1>1, <1>2, HandsGround DEF LocalInv
<1>4. step[i] \in {"LEADER_APPEND", "LEADER_BROADCAST"} => role[i] = "LEADER"
  BY <1>1 DEF NodeSound, StepSound
<1>5. CASE step[i] = "ELECTION_BROADCAST" /\ ElectionSendNext(i)
  BY <1>3, <1>5, ElectionSendFine
<1>6. CASE step[i] = "VOTE_RESPONSE" /\ VoteResponseSend(i)
  BY <1>3, <1>6, VoteSendFine DEF StepFits
<1>7. CASE step[i] = "LEADER_BROADCAST" /\ LeaderBroadcastOn(i)
  <2>1. PICK c : c = cursor[i]
    OBVIOUS
  <2>2. c \in Nat
    BY <1>1, <2>1 DEF TypeOK
  <2> QED BY <1>3, <1>4, <1>7, <2>1, <2>2, LeadOnFine DEF LeaderBroadcastOn
<1>8. CASE step[i] = "LEADER_APPEND" /\ LeaderAfterAppend(i)
  BY <1>3, <1>4, <1>8, AfterAppendFine
<1>9. CASE \/ step[i] = "AE_HARD_STATE" /\ AeContinue(i)
           \/ step[i] = "AE_TRUNCATE" /\ AeAfterTruncate(i)
           \/ step[i] = "AE_APPEND" /\ AeAfterAppend(i)
  BY <1>1, <1>2, <1>3, <1>9, FollowDoneFine
<1>10. CASE step[i] = "APPLY" /\ ApplyAck(i)
  <2>1. action[i].type = "APPLY"
    BY <1>1, <1>3, <1>10, StepActions
  <2>2. /\ hard'[i].term = hard[i].term /\ currentTerm'[i] = currentTerm[i]
        /\ currentTerm[i] = hard[i].term
    BY <1>2, <2>1, SameTerm
  <2>3. ASSUME afterApply[i] = "AE_REPLY", ae[i].success
        PROVE  /\ currentTerm'[i] \in DOMAIN M
               /\ Same(log'[i], M[currentTerm'[i]], ae[i].match)
    <3>1. /\ currentTerm[i] \in DOMAIN L
          /\ Same(log[i], L[currentTerm[i]], ae[i].match)
      BY <1>1, <1>10, <2>3 DEF NodeSound, StepSound
    <3>2. ae[i] \in Stash
      BY <1>1 DEF TypeOK
    <3>3. ae[i].match \in Nat
      BY <3>2, StashFields, Limits DEF Index
    <3> QED BY <2>2, <3>1, <3>3, LogKept
  <2> QED BY <1>3, <1>10, <2>3, ApplyAckFine
<1>11. CASE EndOfChain(i)
  BY <1>3, <1>11, EndOfChainFine
<1> QED BY <1>1, <1>5, <1>6, <1>7, <1>8, <1>9, <1>10, <1>11 DEF Resume

---------------------------------------------------------------------------
(* What the node that moves has committed and applied.                     *)

\* Only raft89__apply_ack moves the applied position: not the broadcast of a
\* leader and the commit it ends with,
LEMMA BroadcastApplied ==
    ASSUME NEW i \in Server, NEW c, LeaderBroadcastNext(i, c)
    PROVE  appliedIndex' = appliedIndex
BY DEF LeaderBroadcastNext, LeaderMaybeCommit, AdvanceCommit, progress

\* not raft89__become_leader,
LEMMA ElectedApplied ==
    ASSUME NEW i \in Server, NEW s, BecomeLeader(i, s)
    PROVE  appliedIndex' = appliedIndex
BY BroadcastApplied DEF BecomeLeader, progress

\* not ae_finish,
LEMMA FinishApplied ==
    ASSUME NEW i \in Server, NEW s, AeFinish(i, s)
    PROVE  appliedIndex' = appliedIndex
BY DEF AeFinish, AdvanceCommit, progress

\* not ae_process,
LEMMA ProcessApplied ==
    ASSUME NEW i \in Server, NEW s, NEW a, NEW es, AeProcess(i, s, a, es)
    PROVE  appliedIndex' = appliedIndex
BY FinishApplied DEF AeProcess, AeApplyEntries, progress

\* none of raft89_recv, raft89_tick and raft89_proposev,
LEMMA CallApplied ==
    ASSUME NEW i \in Server, Call(i)
    PROVE  appliedIndex' = appliedIndex
<1>1. ASSUME NEW m, Recv(i, m)
      PROVE  appliedIndex' = appliedIndex
  <2>1. RecvRequestVote(i, m) => appliedIndex' = appliedIndex
    BY DEF RecvRequestVote, ReplyVote, VoteNewTerm, PersistVoteThenReply,
           progress
  <2>2. RecvVoteResponse(i, m) => appliedIndex' = appliedIndex
    BY ElectedApplied DEF RecvVoteResponse, StepDownNewTerm, Ignore, progress
  <2>3. RecvAppendEntries(i, m) => appliedIndex' = appliedIndex
    BY ProcessApplied DEF RecvAppendEntries, SendAeFailure, StartAeHardState,
                          StashFails, progress
  <2>4. RecvAeResponse(i, m) => appliedIndex' = appliedIndex
    BY DEF RecvAeResponse, StepDownNewTerm, HandleAeFailure, HandleAeSuccess,
           LeaderMaybeCommit, AdvanceCommit, Ignore, progress
  <2> QED BY <1>1, <2>1, <2>2, <2>3, <2>4 DEF Recv
<1>2. CASE Tick(i)
  BY <1>2, BroadcastApplied
     DEF Tick, TickLeader, TickFollower, StartElection, Ignore, progress
<1>3. ASSUME NEW cmds, Propose(i, cmds)
      PROVE  appliedIndex' = appliedIndex
  BY <1>3 DEF Propose, Proposev, progress
<1> QED BY <1>1, <1>2, <1>3 DEF Call

\* and no other continuation of raft89_action_done.
LEMMA DoneApplied ==
    ASSUME NEW i \in Server, Resume(i)
    PROVE  \/ appliedIndex' = appliedIndex
           \/ step[i] = "APPLY" /\ ApplyAck(i)
<1>1. ElectionSendNext(i) => appliedIndex' = appliedIndex
  BY ElectedApplied DEF ElectionSendNext, progress
<1>2. VoteResponseSend(i) => appliedIndex' = appliedIndex
  BY DEF VoteResponseSend, progress
<1>3. LeaderBroadcastOn(i) \/ LeaderAfterAppend(i) =>
         appliedIndex' = appliedIndex
  BY BroadcastApplied DEF LeaderBroadcastOn, LeaderAfterAppend
<1>4. AeContinue(i) => appliedIndex' = appliedIndex
  BY ProcessApplied DEF AeContinue
<1>5. AeAfterTruncate(i) \/ AeAfterAppend(i) => appliedIndex' = appliedIndex
  BY FinishApplied DEF AeAfterTruncate, AeAfterAppend, LastUnreadable, progress
<1>6. EndOfChain(i) => appliedIndex' = appliedIndex
  BY DEF EndOfChain, progress
<1> QED BY <1>1, <1>2, <1>3, <1>4, <1>5, <1>6 DEF Resume

\* The application keeps up with the applied position.
LEMMA AppliedWithin ==
    ASSUME NEW a \in Seq(Entry), NEW n \in Nat, n <= Len(a), NEW k, k = n + 1,
           NEW e
    PROVE  Len(a) <= Len(Applied(a, k, e)) /\ k <= Len(Applied(a, k, e))
<1>1. Len(a) \in Nat
  BY LenNat
<1>2. CASE k = Len(a) + 1
  <2>1. Len(Append(a, e)) = Len(a) + 1
    OBVIOUS
  <2> QED BY <1>1, <1>2, <2>1 DEF Applied
<1>3. CASE k # Len(a) + 1
  BY <1>1, <1>3 DEF Applied
<1> QED BY <1>2, <1>3

\* The node that moves keeps its positions within its log and application.
LEMMA MoverProgress ==
    ASSUME NEW L, NEW A, NEW M, NEW B, NEW i \in Server, Hands(L, A, M, B, i),
           Fine(M, B, i), (Call(i) /\ UNCHANGED msgs) \/ ActionDone(i)
    PROVE  ProgressSound(M, B, i)'
<1>1. /\ LocalState /\ LocalState' /\ TypeOK /\ LocalInv(i)
      /\ NodeSound(L, A, i)
  BY HandsFacts DEF LocalState, NodesInv
<1>2. /\ app[i] \in Seq(Entry) /\ Len(app[i]) \in Nat
      /\ hard'[i].term = currentTerm'[i]
  BY <1>1, PastTyped, PastTypedNext
<1>3. Committed(M, B, log'[i], hard'[i].term, commitIndex'[i])
  BY <1>2 DEF Fine
<1>4. appliedIndex[i] \in Nat /\ appliedIndex[i] <= Len(app[i])
  <2>1. appliedIndex[i] \in Index
    BY <1>1 DEF TypeOK
  <2> QED BY <1>1, <2>1, Limits DEF Index, NodeSound, ProgressSound
<1>5. CASE Call(i)
  <2>1. app' = app
    BY <1>5 DEF Call, Recv, Tick, Propose, durable
  <2> QED BY <1>3, <1>4, <1>5, <2>1, CallApplied DEF ProgressSound
<1>6. CASE ActionDone(i)
  <2> DEFINE a == action[i]
  <2>1. /\ Resume(i) /\ ~faulted[i]
        /\ app' = IF a.type = "APPLY"
                  THEN Set(app, i, Applied(app[i], a.index, a.entry))
                  ELSE app
    BY <1>6 DEF ActionDone, HostEffect
  <2>2. /\ a.type = "APPLY" => a.index = appliedIndex[i] + 1
        /\ step[i] = "APPLY" => a.type = "APPLY"
    BY <1>1, <2>1, StepActions DEF LocalInv, ActionFits, TypeOK
  <2>3. CASE a.type # "APPLY"
    <3>1. app' = app /\ appliedIndex' = appliedIndex
      BY <2>1, <2>2, <2>3, DoneApplied
    <3> QED BY <1>3, <1>4, <3>1 DEF ProgressSound
  <2>4. CASE a.type = "APPLY"
    <3>1. app'[i] = Applied(app[i], a.index, a.entry)
      BY <1>1, <2>1, <2>4 DEF Set, TypeOK
    <3>2. PICK k, e : k = a.index /\ e = a.entry
      OBVIOUS
    <3>3. k = appliedIndex[i] + 1 /\ app'[i] = Applied(app[i], k, e)
      BY <2>2, <2>4, <3>1, <3>2
    <3>4. /\ Len(app[i]) <= Len(app'[i]) /\ k <= Len(app'[i])
      BY <1>2, <1>4, <3>3, AppliedWithin
    <3>5. appliedIndex'[i] = appliedIndex[i] \/ appliedIndex'[i] = k
      <4>1. CASE appliedIndex' = appliedIndex
        BY <4>1
      <4>2. CASE ApplyAck(i)
        <5>1. appliedIndex'[i] = Inc(appliedIndex[i])
          BY <1>1, <4>2 DEF ApplyAck, Set, TypeOK
        <5>2. Inc(appliedIndex[i]) = appliedIndex[i] + 1
          <6>1. /\ appliedIndex[i] + 1 <= commitIndex[i]
                /\ appliedIndex[i] \in Index /\ commitIndex[i] \in Index
            BY <1>1, <2>2, <2>4 DEF LocalInv, ActionFits, TypeOK
          <6>2. appliedIndex[i] < IndexMax
            BY <6>1, Limits DEF Index
          <6> QED BY <6>1, <6>2, IncDec
        <5> QED BY <3>3, <5>1, <5>2
      <4> QED BY <2>1, <4>1, <4>2, DoneApplied
    <3>6. appliedIndex'[i] <= Len(app'[i])
      <4>1. Len(app'[i]) \in Nat
        BY <1>1, PastTypedNext
      <4> QED BY <1>2, <1>4, <3>4, <3>5, <4>1
    <3> QED BY <1>3, <3>6 DEF ProgressSound
  <2> QED BY <2>3, <2>4
<1> QED BY <1>5, <1>6

---------------------------------------------------------------------------
(* The node that moves.                                                    *)

\* A call or an acknowledgement leaves it in accordance with the past.
LEMMA MoverNext ==
    ASSUME NEW L, NEW A, NEW M, NEW B, NEW i \in Server, Hands(L, A, M, B, i),
           "nomem" \notin Faults,
           (Call(i) /\ UNCHANGED msgs) \/ ActionDone(i)
    PROVE  NodeSound(M, B, i)'
<1>1. Fine(M, B, i)
  BY CallFine, DoneFine
<1>2. CampaignLost(M, i)'
  BY CampaignLostNext
<1>3. Leads(M, B, i)'
  BY <1>1, MoverLeads DEF Fine, AckedBy, Leads
<1>4. ProgressSound(M, B, i)'
  BY <1>1, MoverProgress
<1> QED BY <1>1, <1>2, <1>3, <1>4 DEF NodeSound, Fine, Sane

\* raft89_create finds the durable part of the past.
LEMMA RestartNext ==
    ASSUME NEW L, NEW A, NEW M, NEW B, NEW i \in Server, Hands(L, A, M, B, i),
           Restart(i)
    PROVE  NodeSound(M, B, i)'
<1>1. /\ LocalState /\ LocalState' /\ TypeOK /\ LeaderLogs(M)
  BY HandsFacts DEF LocalState, NodesInv
<1>2. /\ action'[i] = NoAction /\ step'[i] = "NONE"
      /\ role'[i] = "FOLLOWER"
  BY <1>1 DEF Restart, Set, TypeOK
<1>3. PICK c \in 0..Len(app'[i]) :
        /\ c <= Len(log'[i])
        /\ commitIndex'[i] = c /\ appliedIndex'[i] = c
  BY <1>1 DEF Restart, Set, TypeOK
<1>4. /\ app'[i] \in Seq(Entry) /\ log'[i] \in Seq(Entry)
      /\ Len(app'[i]) \in Nat
  BY <1>1, PastTypedNext
<1>5. /\ Same(app'[i], log'[i], Len(app'[i]))
      /\ Committed(M, B, app'[i], hard'[i].term, Len(app'[i]))
  BY HandsPast DEF Past, AppsCommitted
<1>6. Committed(M, B, log'[i], hard'[i].term, c)
  <2>1. Same(log'[i], app'[i], c)
    <3>1. Same(log'[i], app'[i], Len(app'[i]))
      BY <1>5, SameSym
    <3>2. c \in Int /\ Len(app'[i]) \in Int /\ c <= Len(app'[i])
      BY <1>3, <1>4
    <3> QED BY <1>4, <3>1, <3>2, SameShorter
  <2>2. c \in Nat /\ c <= Len(app'[i])
    BY <1>3, <1>4
  <2> QED BY <1>1, <1>4, <1>5, <2>1, <2>2, CommittedLess
<1>7. ProgressSound(M, B, i)'
  <2>1. appliedIndex'[i] <= Len(app'[i])
    BY <1>3, <1>4
  <2> QED BY <1>3, <1>6, <2>1 DEF ProgressSound
<1>8. CampaignLost(M, i)'
  BY CampaignLostNext
<1>9. VotesSound(B, i)'
  BY <1>2, MoverVote DEF VotesSound, NoAction
<1> QED BY <1>2, <1>7, <1>8, <1>9
        DEF NodeSound, Leads, ActionSound, StepSound, NoAction

\* RAFT89_ACTION_FATAL and a stutter change nothing that the past is about.
LEMMA FatalNext ==
    ASSUME NEW L, NEW A, Sound(L, A),
           UNCHANGED <<hard, log, app, currentTerm, role, matchIndex, action,
                       step, ae, pending, commitIndex, appliedIndex,
                       afterApply, msgs>>,
           \A i \in Server : faulted[i] => faulted'[i]
    PROVE  Sound(L, A)'
<1>1. Past(L, A, hard', log', app')
  BY DEF Sound
<1>2. ASSUME NEW i \in Server, NEW j, NEW u
      PROVE  VoteSound(A, i, j, u) => VoteSound(A, i, j, u)'
  BY DEF VoteSound, Campaigns
<1>3. ASSUME NEW m, MessageSound(L, A, m)
      PROVE  MessageSound(L, A, m)'
  BY <1>3 DEF MessageSound, VoteSound, Campaigns
<1>4. ASSUME NEW i \in Server
      PROVE  NodeSound(L, A, i)'
  <2>1. NodeSound(L, A, i)
    BY DEF Sound
  <2>2. CampaignLost(L, i)'
    BY <2>1 DEF NodeSound, CampaignLost, Campaigns
  <2>3. Leads(L, A, i)' /\ ProgressSound(L, A, i)'
    BY <2>1 DEF NodeSound, Leads, ProgressSound
  <2>4. VotesSound(A, i)'
    BY <2>1 DEF NodeSound, VotesSound, VoteSound, Campaigns
  <2>5. ActionSound(L, A, i)'
    BY <1>3, <2>1 DEF NodeSound, ActionSound
  <2>6. ~faulted'[i] => StepSound(L, A, i)'
    BY <2>1 DEF NodeSound, StepSound, StashTerm
  <2> QED BY <2>2, <2>3, <2>4, <2>5, <2>6 DEF NodeSound
<1>5. \A m \in msgs' : MessageSound(L, A, m)'
  BY <1>3 DEF Sound
<1> QED BY <1>1, <1>4, <1>5 DEF Sound

---------------------------------------------------------------------------
(* The cluster.                                                            *)

\* A step hands the whole past on.
LEMMA SoundHanded ==
    ASSUME NEW L, NEW A, NEW M, NEW B, NEW i \in Server, Hands(L, A, M, B, i),
           NodeSound(M, B, i)'
    PROVE  Sound(M, B)'
<1>1. \A j \in Server : NodeSound(M, B, j)'
  BY OtherNext
<1>2. \A m \in msgs' : MessageSound(M, B, m)'
  BY MessagesNext
<1> QED BY <1>1, <1>2, HandsPast DEF Sound

\* Every step of the cluster hands the past on.
LEMMA SoundNext ==
    ASSUME LocalState, LocalState', "nomem" \notin Faults,
           NEW i \in Server,
           \/ Call(i) /\ UNCHANGED msgs
           \/ Done(i)
           \/ Fatal(i)
           \/ CrashRestart(i),
           NEW L, NEW A, NEW M, NEW B, Sound(L, A), Inherits(L, A, M, B, i)
    PROVE  Sound(M, B)'
<1>1. Hands(L, A, M, B, i)
  <2>1. Move(i)
    BY StepMoves
  <2> QED BY <2>1 DEF Hands
<1>2. CASE (Call(i) /\ UNCHANGED msgs) \/ Done(i)
  <2>1. NodeSound(M, B, i)'
    BY <1>1, <1>2, MoverNext DEF Done
  <2> QED BY <1>1, <2>1, SoundHanded
<1>3. CASE CrashRestart(i)
  <2>1. NodeSound(M, B, i)'
    BY <1>1, <1>3, RestartNext DEF CrashRestart
  <2> QED BY <1>1, <2>1, SoundHanded
<1>4. CASE Fatal(i)
  <2>1. TypeOK /\ ActionFatal(i) /\ UNCHANGED msgs
    BY <1>4 DEF Fatal, LocalState, NodesInv
  <2>2. \A j \in Server : faulted[j] => faulted'[j]
    BY <2>1 DEF ActionFatal, Set, TypeOK
  <2>3. UNCHANGED <<hard, log, role>>
    BY <2>1 DEF ActionFatal, durable, termVars, standing
  <2>4. Sound(L, A)'
    BY <2>1, <2>2, FatalNext
       DEF ActionFatal, durable, termVars, standing, progress, peerView, stash
  <2>5. M = L
    BY <2>3 DEF Inherits, NextLogs
  <2>6. NewAcks(hard, log, i) \subseteq A
    BY DEF Sound, Past, AcksKept, NewAcks
  <2>7. B = A
    BY <2>3, <2>6 DEF Inherits, NewAcks
  <2> QED BY <2>4, <2>5, <2>7
<1> QED BY <1>2, <1>3, <1>4

\* A stutter has the same past.
LEMMA SoundStutters ==
    ASSUME NEW L, NEW A, Sound(L, A), UNCHANGED vars
    PROVE  Sound(L, A)'
BY FatalNext
   DEF vars, nodeVars, durable, termVars, standing, progress, peerView,
       control, stash

\* Every step of the cluster has a past to hand on.
LEMMA SafeNext ==
    ASSUME LocalState, LocalState', SafeInv, "nomem" \notin Faults,
           [Next]_vars
    PROVE  SafeInv'
<1>1. PICK L, A : Sound(L, A)
  BY DEF SafeInv
<1>2. CASE UNCHANGED vars
  <2>1. Sound(L, A)'
    BY <1>1, <1>2, SoundStutters
  <2> QED BY <2>1 DEF SafeInv
<1>3. CASE Next
  <2>1. PICK i \in Server :
          \/ Call(i) /\ UNCHANGED msgs
          \/ Done(i)
          \/ Fatal(i)
          \/ CrashRestart(i)
    BY <1>3, NextCases
  <2>2. PICK M, B : Inherits(L, A, M, B, i)
    BY DEF Inherits
  <2>3. Sound(M, B)'
    BY <1>1, <2>1, <2>2, SoundNext
  <2> QED BY <2>3 DEF SafeInv
<1> QED BY <1>2, <1>3

\* A cluster that is started has the past of its durable state.
LEMMA SoundInit ==
    ASSUME Init, NEW L, NEW A, Past(L, A, hard, log, app)
    PROVE  Sound(L, A)
<1>2. Past(L, A, hard, log, app)
  OBVIOUS
<1>3. LocalState /\ VotesReach(hard)
  BY <1>2, LocalStateInit DEF Past
<1>4. ASSUME NEW i \in Server
      PROVE  NodeSound(L, A, i)
  <2>1. /\ action[i] = NoAction /\ step[i] = "NONE" /\ role[i] = "FOLLOWER"
        /\ commitIndex[i] = Len(app[i]) /\ appliedIndex[i] = Len(app[i])
        /\ \A j \in Server : role[j] = "FOLLOWER"
    BY DEF Init
  <2>2. /\ log[i] \in Seq(Entry) /\ app[i] \in Seq(Entry)
        /\ Len(app[i]) \in Nat
    BY <1>3, PastTyped
  <2>3. /\ Same(app[i], log[i], Len(app[i]))
        /\ Committed(L, A, app[i], hard[i].term, Len(app[i]))
    BY <1>2 DEF Past, AppsCommitted
  <2>4. Committed(L, A, log[i], hard[i].term, Len(app[i]))
    <3>1. LeaderLogs(L) /\ Len(app[i]) <= Len(app[i])
      BY <1>2, <2>2 DEF Past
    <3>2. Same(log[i], app[i], Len(app[i]))
      BY <2>3, SameSym
    <3> QED BY <2>2, <2>3, <3>1, <3>2, CommittedLess
  <2>5. ProgressSound(L, A, i)
    BY <2>1, <2>2, <2>4 DEF ProgressSound
  <2>6. \A j \in Server : \A u : ~Campaigns(j, u)
    BY <2>1 DEF Campaigns
  <2>7. VotesSound(A, i)
    BY <1>3, <2>1, <2>6 DEF VotesSound, VoteSound, VotesReach, NoAction
  <2>8. CampaignLost(L, i)
    BY <2>6 DEF CampaignLost
  <2> QED BY <2>1, <2>5, <2>7, <2>8
          DEF NodeSound, Leads, ActionSound, StepSound, NoAction
<1>5. msgs = {}
  BY DEF Init
<1> QED BY <1>2, <1>4, <1>5 DEF Sound

\* Durable states that have a past start a cluster that has one.
LEMMA SafeInit ==
    ASSUME BootHistory
    PROVE  Init => SafeInv
<1> SUFFICES ASSUME Init
             PROVE  SafeInv
  OBVIOUS
<1>1. PICK b \in Boot : hard = b.hard /\ log = b.log /\ app = b.app
  BY DEF Init
<1>2. PICK L, A : Past(L, A, hard, log, app)
  BY <1>1 DEF BootHistory
<1> QED BY <1>2, SoundInit DEF SafeInv

\* A cluster that was never started has a past: nothing.
LEMMA NeverStartedHistory ==
    Past([u \in {} |-> << >>], {}, NeverStarted.hard, NeverStarted.log,
         NeverStarted.app)
<1> DEFINE L == [u \in {} |-> << >>]
           h == NeverStarted.hard
           l == NeverStarted.log
           a == NeverStarted.app
<1>1. DOMAIN L = {}
  OBVIOUS
<1>2. \A i \in Server :
         /\ h[i] = [term |-> 0, vote |-> NoId]
         /\ l[i] = << >> /\ a[i] = << >>
  BY DEF NeverStarted
<1>3. Len(<< >>) = 0 /\ \A k : k \notin 1..0
  OBVIOUS
<1> HIDE DEF L, h, l, a
<1>4. LeaderLogs(L) /\ LeadersComplete(L, {}, h)
  BY <1>1 DEF LeaderLogs, LeadersComplete
<1>5. LogsAgree(L, h, l) /\ AcksKept(L, {}, h, l)
  BY <1>2, <1>3 DEF LogsAgree, Agrees, AcksKept
<1>6. AppsCommitted(L, {}, h, l, a)
  BY <1>2, <1>3 DEF AppsCommitted, Same, Committed
<1>7. VotesReach(h)
  BY <1>2, ServerAssumption DEF VotesReach
<1>8. Past(L, {}, h, l, a)
  BY <1>4, <1>5, <1>6, <1>7 DEF Past
<1> QED BY <1>8 DEF L, h, l, a

\* SafeInv is an invariant of the cluster.
LEMMA SafeInvariance ==
    ASSUME "nomem" \notin Faults, BootHistory
    PROVE  Spec => [](LocalState /\ SafeInv)
<1>1. Init => LocalState /\ SafeInv
  BY LocalStateInit, SafeInit
<1>2. LocalState /\ SafeInv /\ [Next]_vars => (LocalState /\ SafeInv)'
  BY LocalStateNext, SafeNext
<1> QED BY <1>1, <1>2, PTL DEF Spec

---------------------------------------------------------------------------
(* What SafeInv says of one state.                                         *)

\* The parts of the past that the properties are about.
LEMMA SoundFacts ==
    ASSUME LocalState, NEW L, NEW A, Sound(L, A)
    PROVE  /\ LeaderLogs(L) /\ AcksKept(L, A, hard, log)
           /\ LeadersComplete(L, A, hard) /\ LogsAgree(L, hard, log)
           /\ \A i \in Server :
                 /\ NodeSound(L, A, i) /\ LocalInv(i)
                 /\ Agrees(L, log[i])
                 /\ Same(app[i], log[i], Len(app[i]))
                 /\ Committed(L, A, app[i], hard[i].term, Len(app[i]))
                 /\ log[i] \in Seq(Entry) /\ Len(log[i]) \in Nat
                 /\ app[i] \in Seq(Entry) /\ Len(app[i]) \in Nat
                 /\ hard[i].term \in Nat /\ hard[i].term = currentTerm[i]
                 /\ action[i] \in Action
           /\ \A m \in msgs : m \in Message /\ MessageSound(L, A, m)
<1>1. /\ LeaderLogs(L) /\ AcksKept(L, A, hard, log)
      /\ LeadersComplete(L, A, hard) /\ LogsAgree(L, hard, log)
      /\ AppsCommitted(L, A, hard, log, app)
      /\ \A i \in Server : NodeSound(L, A, i)
      /\ \A m \in msgs : MessageSound(L, A, m)
  BY DEF Sound, Past
<1>2. /\ \A i \in Server : LocalInv(i)
      /\ \A m \in msgs : m \in Message
  BY DEF LocalState, NodesInv, TypeOK
<1>3. \A i \in Server : Agrees(L, log[i])
  BY <1>1 DEF LogsAgree
<1> QED BY <1>1, <1>2, <1>3, PastTyped DEF AppsCommitted

\* Logs that are the same up to k have the same first k entries.
LEMMA SameCut ==
    ASSUME NEW l \in Seq(Entry), NEW m \in Seq(Entry), NEW k \in Nat,
           Same(l, m, k)
    PROVE  /\ SubSeq(l, 1, k) = SubSeq(m, 1, k)
           /\ k <= Len(l) /\ k <= Len(m)
<1>1. k <= Len(l) /\ k <= Len(m) /\ \A h \in 1..k : l[h] = m[h]
  BY DEF Same
<1> QED BY <1>1

\* The first k entries of a log that is the same as another up to all of it.
LEMMA SamePrefix ==
    ASSUME NEW a \in Seq(Entry), NEW l \in Seq(Entry), Same(a, l, Len(a))
    PROVE  IsPrefix(a, l)
<1>1. Len(a) \in Nat
  BY LenNat
<1> QED BY <1>1, SameCut DEF IsPrefix

\* Two logs of the same leaders.
LEMMA LogMatchingNow ==
    ASSUME LocalState, SafeInv
    PROVE  LogMatching
<1>1. PICK L, A : Sound(L, A)
  BY DEF SafeInv
<1>2. ASSUME NEW i \in Server, NEW j \in Server,
             NEW k \in 1..MinOf(Len(log[i]), Len(log[j])),
             log[i][k].term = log[j][k].term
      PROVE  SubSeq(log[i], 1, k) = SubSeq(log[j], 1, k)
  <2>1. /\ Agrees(L, log[i]) /\ Agrees(L, log[j])
        /\ log[i] \in Seq(Entry) /\ Len(log[i]) \in Nat
        /\ log[j] \in Seq(Entry) /\ Len(log[j]) \in Nat
    BY <1>1, SoundFacts
  <2>2. k \in 1..Len(log[i]) /\ k \in 1..Len(log[j]) /\ k \in Nat
    BY <2>1 DEF MinOf
  <2>3. Same(log[i], log[j], k)
    BY <1>2, <2>1, <2>2, AgreeingLogsMatch
  <2> QED BY <2>1, <2>2, <2>3, SameCut
<1> QED BY <1>2 DEF LogMatching

\* A success response and the leader it answers.
LEMMA AckBarrierNow ==
    ASSUME LocalState, SafeInv
    PROVE  AckBarrier
<1>1. PICK L, A : Sound(L, A)
  BY DEF SafeInv
<1>2. ASSUME NEW m \in Sent("AER"), m.success, hard[m.from].term = m.term
      PROVE  /\ m.match <= Len(log[m.from])
             /\ role[m.to] = "LEADER" /\ currentTerm[m.to] = m.term
                  /\ m.match <= Len(log[m.to]) =>
                    SubSeq(log[m.from], 1, m.match) =
                    SubSeq(log[m.to], 1, m.match)
  <2>1. m \in msgs /\ m.type = "AER" /\ m \in Message /\ MessageSound(L, A, m)
    BY <1>1, <1>2, SoundFacts DEF Sent
  <2>2. m.from \in Server /\ m.to \in Server /\ m.match \in Nat
    BY <2>1, MessageFields, Limits DEF Index
  <2>3. /\ log[m.from] \in Seq(Entry) /\ log[m.to] \in Seq(Entry)
        /\ NodeSound(L, A, m.to)
    BY <1>1, <2>2, SoundFacts
  <2>4. Same(log[m.from], L[m.term], m.match)
    BY <1>2, <2>1 DEF MessageSound
  <2>5. m.match <= Len(log[m.from])
    BY <2>4 DEF Same
  <2>6. ASSUME role[m.to] = "LEADER", currentTerm[m.to] = m.term
        PROVE  SubSeq(log[m.from], 1, m.match) = SubSeq(log[m.to], 1, m.match)
    <3>1. L[m.term] = log[m.to]
      BY <2>3, <2>6 DEF NodeSound, Leads
    <3> QED BY <2>2, <2>3, <2>4, <3>1, SameCut
  <2> QED BY <2>5, <2>6
<1> QED BY <1>2 DEF AckBarrier

\* What the host is asked to append and to remove.
LEMMA StoreContractNow ==
    ASSUME LocalState, SafeInv
    PROVE  StoreContract
<1>1. PICK L, A : Sound(L, A)
  BY DEF SafeInv
<1>2. ASSUME NEW i \in Server
      PROVE  /\ action[i].type = "LOG_APPEND" =>
                  /\ action[i].first = Len(log[i]) + 1
                  /\ action[i].entries # << >>
             /\ action[i].type = "LOG_TRUNCATE" =>
                  /\ action[i].first \in 1..Len(log[i])
                  /\ action[i].first > commitIndex[i]
                  /\ action[i].first > Len(app[i])
  <2> DEFINE a == action[i]
  <2>1. /\ NodeSound(L, A, i) /\ LocalInv(i) /\ a \in Action
        /\ LeaderLogs(L) /\ AcksKept(L, A, hard, log)
        /\ LeadersComplete(L, A, hard)
        /\ Same(app[i], log[i], Len(app[i]))
        /\ Committed(L, A, app[i], hard[i].term, Len(app[i]))
        /\ log[i] \in Seq(Entry) /\ Len(log[i]) \in Nat
        /\ app[i] \in Seq(Entry) /\ Len(app[i]) \in Nat
        /\ hard[i].term \in Nat /\ hard[i].term = currentTerm[i]
    BY <1>1, SoundFacts
  <2>2. ASSUME a.type = "LOG_TRUNCATE"
        PROVE  /\ a.first \in 1..Len(log[i])
               /\ a.first > commitIndex[i]
               /\ a.first > Len(app[i])
    <3>1. /\ a.first \in Index /\ a.first > commitIndex[i]
          /\ a.first <= Len(log[i]) /\ commitIndex[i] \in Index
      BY <2>1, <2>2, ActionFields
         DEF LocalState, NodesInv, TypeOK, LocalInv, ActionFits
    <3>2. a.first \in Nat \ {0} /\ a.first \in 1..Len(log[i])
      BY <2>1, <3>1, Limits DEF Index
    <3>3. /\ hard[i].term \in DOMAIN L
          /\ log[i][a.first].term # L[hard[i].term][a.first].term
      BY <2>1, <2>2 DEF NodeSound, ActionSound
    <3>4. Committed(L, A, log[i], hard[i].term, Len(app[i]))
      <4>1. Same(log[i], app[i], Len(app[i])) /\ Len(app[i]) <= Len(app[i])
        BY <2>1, SameSym
      <4> QED BY <2>1, <4>1, CommittedLess
    <3>5. Len(app[i]) < a.first
      <4>1. PICK h, l : h = hard /\ l = log
        OBVIOUS
      <4>2. hard[i].term <= hard[i].term
        BY <2>1
      <4> QED BY <2>1, <3>2, <3>3, <3>4, <4>1, <4>2, ConflictBeyond
    <3> QED BY <2>1, <3>1, <3>2, <3>5
  <2>3. a.type = "LOG_APPEND" => a.first = Len(log[i]) + 1 /\ a.entries # << >>
    BY <2>1 DEF LocalInv, ActionFits
  <2> QED BY <2>2, <2>3
<1> QED BY <1>2 DEF StoreContract

\* What an application gets next.
LEMMA ApplyContractNow ==
    ASSUME LocalState, SafeInv
    PROVE  ApplyContract
<1>1. PICK L, A : Sound(L, A)
  BY DEF SafeInv
<1>2. ASSUME NEW i \in Server, action[i].type = "APPLY"
      PROVE  /\ action[i].index = appliedIndex[i] + 1
             /\ action[i].index <= commitIndex[i]
             /\ action[i].index <= Len(app[i]) + 1
             /\ action[i].index <= Len(app[i]) =>
                  action[i].entry = app[i][action[i].index]
  <2> DEFINE a == action[i]
  <2>1. /\ NodeSound(L, A, i) /\ LocalInv(i)
        /\ Same(app[i], log[i], Len(app[i])) /\ Len(app[i]) \in Nat
    BY <1>1, SoundFacts
  <2>2. a.index = appliedIndex[i] + 1 /\ a.index <= commitIndex[i]
    BY <1>2, <2>1 DEF LocalInv, ActionFits
  <2>3. appliedIndex[i] <= Len(app[i])
    BY <2>1 DEF NodeSound, ProgressSound
  <2>4. appliedIndex[i] \in Nat
    <3>1. appliedIndex[i] \in Index
      BY DEF LocalState, NodesInv, TypeOK
    <3> QED BY <3>1, Limits DEF Index
  <2>5. ASSUME a.index <= Len(app[i])
        PROVE  a.entry = app[i][a.index]
    <3>1. a.entry = log[i][a.index]
      BY <1>2, <2>1 DEF NodeSound, ActionSound
    <3>2. a.index \in 1..Len(app[i])
      BY <2>1, <2>2, <2>4, <2>5
    <3> QED BY <2>1, <3>1, <3>2 DEF Same
  <2>6. a.index <= Len(app[i]) + 1
    BY <2>1, <2>2, <2>3, <2>4
  <2> QED BY <2>2, <2>5, <2>6
<1> QED BY <1>2 DEF ApplyContract

\* What was applied is in the log.
LEMMA AppliedDurableNow ==
    ASSUME LocalState, SafeInv
    PROVE  AppliedDurable
<1>1. PICK L, A : Sound(L, A)
  BY DEF SafeInv
<1>2. \A i \in Server : IsPrefix(app[i], log[i])
  BY <1>1, SoundFacts, SamePrefix
<1> QED BY <1>2 DEF AppliedDurable

\* A log fresh enough for a quorum holds what is committed by counting: a
\* member of both quorums has acknowledged it.
LEMMA ChosenElectable ==
    ASSUME LocalState, NEW L, NEW A, Sound(L, A), NEW j \in Server,
           NEW Q \in Quorums,
           \A v \in Q : LogIsFresh(LastTermOf(log[j]), Len(log[j]),
                                   LastTermOf(log[v]), Len(log[v])),
           NEW t \in DOMAIN L, NEW k \in 1..Len(L[t]), Chosen(A, t, k)
    PROVE  Same(log[j], L[t], k)
<1>1. /\ LeaderLogs(L) /\ AcksKept(L, A, hard, log)
      /\ LeadersComplete(L, A, hard) /\ LogsAgree(L, hard, log)
      /\ Agrees(L, log[j]) /\ log[j] \in Seq(Entry) /\ Len(log[j]) \in Nat
  BY SoundFacts
<1>2. PICK R \in Quorums : \A v \in R : <<v, t, k>> \in A
  BY DEF Chosen
<1>3. PICK v \in Server : v \in Q /\ v \in R
  BY QuorumsShare
<1>4. /\ t \in Term /\ k \in Index /\ Holds(L[t], t, k)
  BY <1>1, ChosenHeld
<1>5. LastTermOf(log[j]) \in Nat
  <2>1. CASE log[j] = << >>
    BY <2>1 DEF LastTermOf
  <2>2. CASE log[j] # << >>
    <3>1. Len(log[j]) \in 1..Len(log[j])
      BY <1>1, <2>2, EmptySeq
    <3> QED BY <1>1, <3>1, EndIsLast DEF Holds
  <2> QED BY <2>1, <2>2
<1>6. ~Lost(hard, A, t, k)
  BY ChosenNotLost
<1>7. LogIsFresh(LastTermOf(log[j]), Len(log[j]), t, k)
  <2>1. log \in Logs
    BY PastTyped
  <2> QED BY <1>1, <1>2, <1>3, <1>4, <1>5, <1>6, <2>1, VoteFresh
<1>8. Holds(log[j], t, k)
  <2>1. L[t][k].term = t
    BY <1>4 DEF Holds
  <2> QED BY <1>1, <1>6, <1>7, <2>1, FreshHolds
<1> QED BY <1>1, <1>8 DEF Holds, Agrees

\* What was applied anywhere is in the log of any electable node.
LEMMA ElectableCompleteNow ==
    ASSUME LocalState, SafeInv
    PROVE  ElectableComplete
<1>1. PICK L, A : Sound(L, A)
  BY DEF SafeInv
<1>2. ASSUME NEW j \in Server,
             NEW Q \in SUBSET Server, IsQuorum(Cardinality(Q)),
             \A v \in Q : LogIsFresh(LastTermOf(log[j]), Len(log[j]),
                                     LastTermOf(log[v]), Len(log[v])),
             NEW i \in Server
      PROVE  IsPrefix(app[i], log[j])
  <2>1. Q \in Quorums
    BY <1>2 DEF Quorums
  <2> DEFINE c == Len(app[i])
  <2>2. /\ app[i] \in Seq(Entry) /\ c \in Nat /\ LeaderLogs(L)
        /\ log[j] \in Seq(Entry)
        /\ Committed(L, A, app[i], hard[i].term, c)
    BY <1>1, SoundFacts
  <2>3. Same(app[i], log[j], c)
    <3>1. CASE c = 0
      BY <2>2, <3>1, SameNone
    <3>2. CASE c # 0
      <4>1. PICK t \in DOMAIN L : \E k \in 1..Len(L[t]) :
               c <= k /\ Chosen(A, t, k) /\ Same(app[i], L[t], c)
        BY <2>2, <3>2 DEF Committed
      <4>2. PICK k \in 1..Len(L[t]) :
               c <= k /\ Chosen(A, t, k) /\ Same(app[i], L[t], c)
        BY <4>1
      <4>3. Same(log[j], L[t], k)
        BY <1>1, <1>2, <2>1, <4>2, ChosenElectable
      <4>4. L[t] \in Seq(Entry) /\ Len(L[t]) \in Nat
        BY <2>2, LeaderLog
      <4>5. Same(log[j], L[t], c)
        BY <2>2, <4>2, <4>3, <4>4, SameShorter
      <4>6. Same(L[t], log[j], c)
        BY <4>5, SameSym
      <4> QED BY <4>2, <4>6, SameTrans
    <3> QED BY <3>1, <3>2
  <2> QED BY <2>2, <2>3, SamePrefix
<1> QED BY <1>2 DEF ElectableComplete

\* Applications with a past never contradict each other.
LEMMA AppsAgree ==
    ASSUME NEW L, NEW A, NEW h \in HardStates, NEW l, NEW a \in Logs,
           Past(L, A, h, l, a), NEW i \in Server, NEW j \in Server,
           Len(a[i]) <= Len(a[j])
    PROVE  Same(a[i], a[j], Len(a[i]))
<1>1. /\ LeaderLogs(L) /\ AcksKept(L, A, h, l) /\ LeadersComplete(L, A, h)
      /\ \A k \in Server : Committed(L, A, a[k], h[k].term, Len(a[k]))
  BY DEF Past, AppsCommitted
<1>2. \A k \in Server :
         a[k] \in Seq(Entry) /\ Len(a[k]) \in Nat /\ h[k].term \in Nat
  BY HardTerms, LenNat DEF Logs
<1> QED BY <1>1, <1>2, CommittedAgree

---------------------------------------------------------------------------
(* The atomic broadcast.                                                   *)

\* Applications of any two nodes are prefixes of one another.
LEMMA BroadcastAgrees ==
    ASSUME LocalState, SafeInv
    PROVE  Broadcast!Agree(app)
<1>1. ASSUME NEW i \in Server, NEW j \in Server, Len(app[i]) <= Len(app[j])
      PROVE  IsPrefix(app[i], app[j])
  <2>1. /\ app[i] \in Seq(Entry) /\ app[j] \in Seq(Entry)
        /\ hard \in HardStates /\ app \in Logs
    BY PastTyped
  <2>2. \E L, A : Past(L, A, hard, log, app)
    BY DEF SafeInv, Sound
  <2> QED BY <1>1, <2>1, <2>2, AppsAgree, SamePrefix
<1>2. \A i \in Server : Len(app[i]) \in Nat
  BY PastTyped
<1>3. \A i, j \in Server :
         Len(app[i]) <= Len(app[j]) \/ Len(app[j]) <= Len(app[i])
  BY <1>2
<1> QED BY <1>1, <1>3 DEF Broadcast!Agree, Broadcast!IsPrefix, IsPrefix

\* A step delivers at most one entry, which extends what one application has.
LEMMA DeliversOne ==
    ASSUME LocalState, LocalState', "nomem" \notin Faults, [Next]_vars
    PROVE  \/ app' = app
           \/ \E i \in Server, e \in Entry :
                 app' = [app EXCEPT ![i] = Append(@, e)]
<1>1. CASE UNCHANGED vars
  BY <1>1 DEF vars, nodeVars, durable
<1>2. ASSUME NEW i \in Server,
             \/ Call(i) /\ UNCHANGED msgs
             \/ Done(i)
             \/ Fatal(i)
             \/ CrashRestart(i)
      PROVE  \/ app' = app
             \/ \E e \in Entry : app' = [app EXCEPT ![i] = Append(@, e)]
  <2>1. /\ action[i] \in Action
        /\ app \in [Server -> Seq(Entry)] /\ app' \in [Server -> Seq(Entry)]
    BY PastTyped DEF LocalState, NodesInv, TypeOK
  <2>2. Effected(i) /\ Others(i)
    BY <1>2, StepMoves DEF Move
  <2>3. \A j \in Server \ {i} : app'[j] = app[j]
    BY <2>2 DEF Others
  <2>4. CASE app'[i] = app[i]
    BY <2>1, <2>3, <2>4
  <2>5. CASE /\ action[i].type = "APPLY"
             /\ app'[i] = Applied(app[i], action[i].index, action[i].entry)
             /\ app'[i] # app[i]
    <3>1. action[i].entry \in Entry
      BY <2>1, <2>5, ActionFields
    <3>2. app'[i] = Append(app[i], action[i].entry)
      BY <2>5 DEF Applied
    <3>3. app' = [app EXCEPT ![i] = Append(@, action[i].entry)]
      BY <2>1, <2>3, <3>2
    <3> QED BY <3>1, <3>3
  <2> QED BY <2>2, <2>4, <2>5 DEF Effected
<1> QED BY <1>1, <1>2, NextCases

\* The entry that an application gets is the one that others have there.
LEMMA BroadcastNext ==
    ASSUME LocalState, LocalState', SafeInv', "nomem" \notin Faults,
           [Next]_vars
    PROVE  [Broadcast!ABNext]_app
<1>1. ASSUME NEW i \in Server, NEW e \in Entry,
             app' = [app EXCEPT ![i] = Append(@, e)]
      PROVE  Broadcast!Deliver(i, e)
  <2>1. /\ app \in [Server -> Seq(Entry)]
        /\ app[i] \in Seq(Entry) /\ Len(app[i]) \in Nat
    BY PastTyped DEF LocalState, NodesInv, TypeOK
  <2>2. app'[i] = Append(app[i], e)
    BY <1>1, <2>1
  <2>3. /\ Len(app'[i]) = Len(app[i]) + 1
        /\ app'[i][Len(app[i]) + 1] = e
    BY <2>1, <2>2
  <2>4. ASSUME NEW j \in Server \ {i}, Len(app[j]) > Len(app[i])
        PROVE  app[j][Len(app[i]) + 1] = e
    <3>1. app'[j] = app[j] /\ Len(app[j]) \in Nat
      BY <1>1, <2>1, PastTyped
    <3>2. Len(app'[i]) <= Len(app'[j])
      BY <2>1, <2>3, <2>4, <3>1
    <3>3. Same(app'[i], app'[j], Len(app'[i]))
      <4>1. \E L, A : Past(L, A, hard', log', app')
        BY DEF SafeInv, Sound
      <4>2. hard' \in HardStates /\ app' \in Logs
        BY PastTypedNext
      <4> QED BY <3>2, <4>1, <4>2, AppsAgree
    <3>4. Len(app[i]) + 1 \in 1..Len(app'[i])
      BY <2>1, <2>3
    <3> QED BY <2>3, <3>1, <3>3, <3>4 DEF Same
  <2> QED BY <1>1, <2>4 DEF Broadcast!Deliver
<1> QED BY <1>1, DeliversOne DEF Broadcast!ABNext

---------------------------------------------------------------------------
(* Theorems.                                                               *)

\* I05, for every membership, every limit and every fault except a failing
\* malloc: logs that agree on a term agree up to it (ae_prefix_matches,
\* ae_scan, raft89_proposev).
THEOREM LogMatchingHolds ==
    ASSUME "nomem" \notin Faults, BootHistory
    PROVE  Spec => []LogMatching
<1>1. LocalState /\ SafeInv => LogMatching
  BY LogMatchingNow
<1> QED BY <1>1, SafeInvariance, PTL

\* I15: a success response is backed by durable entries of the leader it
\* answers (ae_finish, raft89__apply_ack).
THEOREM AckBarrierHolds ==
    ASSUME "nomem" \notin Faults, BootHistory
    PROVE  Spec => []AckBarrier
<1>1. LocalState /\ SafeInv => AckBarrier
  BY AckBarrierNow
<1> QED BY <1>1, SafeInvariance, PTL

\* The store is asked to append at its end and to remove nothing that is
\* committed or applied (ae_apply_entries, raft89__ae_after_truncate,
\* raft89_proposev).
THEOREM StoreContractHolds ==
    ASSUME "nomem" \notin Faults, BootHistory
    PROVE  Spec => []StoreContract
<1>1. LocalState /\ SafeInv => StoreContract
  BY StoreContractNow
<1> QED BY <1>1, SafeInvariance, PTL

\* I09 and I16: an application gets committed entries in order, and in a
\* replay what it has already (raft89__apply_next, raft89__recover_applied).
THEOREM ApplyContractHolds ==
    ASSUME "nomem" \notin Faults, BootHistory
    PROVE  Spec => []ApplyContract
<1>1. LocalState /\ SafeInv => ApplyContract
  BY ApplyContractNow
<1> QED BY <1>1, SafeInvariance, PTL

\* What an application has received stays in the durable log of its node,
\* over every truncation and every crash (raft89__ae_after_truncate,
\* raft89__recover_applied).
THEOREM AppliedDurableHolds ==
    ASSUME "nomem" \notin Faults, BootHistory
    PROVE  Spec => []AppliedDurable
<1>1. LocalState /\ SafeInv => AppliedDurable
  BY AppliedDurableNow
<1> QED BY <1>1, SafeInvariance, PTL

\* I07: whoever a quorum would vote for holds all that was ever applied
\* (raft89__log_is_fresh, raft89__leader_maybe_commit).
THEOREM ElectableCompleteHolds ==
    ASSUME "nomem" \notin Faults, BootHistory
    PROVE  Spec => []ElectableComplete
<1>1. LocalState /\ SafeInv => ElectableComplete
  BY ElectableCompleteNow
<1> QED BY <1>1, SafeInvariance, PTL

\* The cluster implements atomic broadcast: it starts with applications that
\* agree, and every step delivers one entry, the one others have there, or
\* nothing (emit_next_apply, raft89__apply_ack, raft89__recover_applied).
THEOREM ImplementsBroadcastHolds ==
    ASSUME "nomem" \notin Faults, BootHistory
    PROVE  Spec => ImplementsBroadcast
<1>1. LocalState /\ SafeInv => Broadcast!ABInit
  BY BroadcastAgrees DEF Broadcast!ABInit, LocalState, NodesInv, TypeOK
<1>2. /\ LocalState /\ SafeInv
      /\ (LocalState /\ SafeInv)'
      /\ [Next]_vars
      => [Broadcast!ABNext]_app
  BY BroadcastNext
<1> QED BY <1>1, <1>2, SafeInvariance, PTL
        DEF Spec, ImplementsBroadcast, Broadcast!ABSpec

\* The past that a cluster carries along is the past of its state: the leaders'
\* logs and the acknowledgements that every step records (NextLogs, NewAcks)
\* are all that a quorum's vote and the commit rule have to respect
\* (raft89__leader_commit_candidate, raft89__log_is_fresh, ae_scan).
THEOREM HistorySoundHolds ==
    ASSUME "nomem" \notin Faults, KnownHistory
    PROVE  HistorySpec => []HistorySound
<1> DEFINE Inv == LocalState /\ HistorySound
<1>1. HistoryInit => Inv
  <2> SUFFICES ASSUME HistoryInit
               PROVE  Inv
    OBVIOUS
  <2>1. Init /\ leaderLogs = BootLogs(log) /\ acks = BootAcks(log)
    BY DEF HistoryInit
  <2>2. PICK b \in Boot : hard = b.hard /\ log = b.log /\ app = b.app
    BY <2>1 DEF Init
  <2>3. Past(leaderLogs, acks, hard, log, app)
    BY <2>1, <2>2 DEF KnownHistory
  <2>4. LocalState
    BY <2>1, <2>3, LocalStateInit DEF Past
  <2> QED BY <2>1, <2>3, <2>4, SoundInit DEF HistorySound
<1>2. Inv /\ [HistoryNext]_<<vars, leaderLogs, acks>> => Inv'
  <2> SUFFICES ASSUME Inv, [HistoryNext]_<<vars, leaderLogs, acks>>
               PROVE  Inv'
    OBVIOUS
  <2>1. LocalState /\ Sound(leaderLogs, acks)
    BY DEF HistorySound
  <2>2. HistoryNext => Next
    BY DEF HistoryNext, Next
  <2>3. LocalState'
    BY <2>1, <2>2, LocalStateNext
  <2>4. CASE HistoryNext
    <3>1. PICK i \in Server :
            /\ \/ Call(i) /\ UNCHANGED msgs
               \/ Done(i)
               \/ Fatal(i)
               \/ CrashRestart(i)
            /\ leaderLogs' = NextLogs(leaderLogs, i)
            /\ acks' = acks \union NewAcks(hard', log', i)
      BY <2>4 DEF HistoryNext, Receive, Timeout, ClientRequest, Call
    <3>2. \A M, B : Inherits(leaderLogs, acks, M, B, i) => Sound(M, B)'
      BY <2>1, <2>3, <3>1, SoundNext
    <3>3. HistorySound'
      BY <3>1, <3>2 DEF Inherits, HistorySound
    <3> QED BY <2>3, <3>3
  <2>5. CASE UNCHANGED <<vars, leaderLogs, acks>>
    <3>1. Sound(leaderLogs, acks)'
      BY <2>1, <2>5, SoundStutters
    <3> QED BY <2>3, <3>1 DEF HistorySound
  <2> QED BY <2>4, <2>5
<1> QED BY <1>1, <1>2, PTL DEF HistorySpec
=============================================================================
