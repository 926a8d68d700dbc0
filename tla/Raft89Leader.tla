--------------------------- MODULE Raft89Leader ---------------------------
(***************************************************************************)
(* raft89_leader.c: replication, majority commit, proposals.               *)
(***************************************************************************)
EXTENDS Raft89Core

(* The entries next..next+n-1 go into one AppendEntries: n is the largest  *)
(* count within both configured limits (plan_batch, shrink_to_fit).        *)
BatchOf(i, next, n) == SubSeq(log'[i], next, next + n - 1)

Available(i, next) ==
    IF next > lastIndex'[i] THEN 0
    ELSE MinOf(Inc(lastIndex'[i] - next), MaxAppendEntries)

IsBatch(i, next, n) ==
    LET Fits(k) == Bytes(BatchOf(i, next, k)) <= MaxAppendBytes
    IN  /\ n <= Available(i, next)
        /\ Fits(n)
        /\ \A k \in n+1..Available(i, next) : ~Fits(k)

\* The previous entry and all available ones are read from the store.
LeaderSendTo(i, j, s) ==
    LET next == nextIndex'[i][j]
        prev == Dec(next)
        reads == {prev} \union next..next + Available(i, next) - 1
    IN  \/ /\ \A k \in reads \ {0} : Readable(i, k)
           /\ \E n \in 0..MaxAppendEntries :
                /\ IsBatch(i, next, n)
                /\ \/ Emit(i, Send(AppendEntries(i, j, currentTerm'[i], prev,
                                      TermAt(i, prev), commitIndex[i],
                                      BatchOf(i, next, n))), s)
                   \/ /\ "nomem" \in Faults
                      /\ n > 0
                      /\ Return(i, s)
        \/ /\ \E k \in reads : ReadFails(i, k)
           /\ Fault(i, s)

---------------------------------------------------------------------------
(* Commit: the highest index a majority holds, if it is of this term.      *)

Replicated(i, k) ==
    Cardinality({j \in Server \ {i} : matchIndex'[i][j] >= k}) + 1

MajorityIndex(i, k) ==
    /\ \/ k = commitIndex[i]
       \/ k > commitIndex[i] /\ IsQuorum(Replicated(i, k))
    /\ \A h \in commitIndex[i]+1..lastIndex'[i] :
          h > k => ~IsQuorum(Replicated(i, h))

\* Mutant: entries of earlier terms are committed by counting.
OfAnyTerm(i, k) == TRUE

OfCurrentTerm(i, k) == TermAt(i, k) = currentTerm'[i]

LeaderMaybeCommit(i, s) ==
    \E k \in {commitIndex[i]} \union (commitIndex[i]+1)..lastIndex'[i] :
        /\ MajorityIndex(i, k)
        /\ \/ /\ k > commitIndex[i] =>
                    Readable(i, k) /\ ~OfCurrentTerm(i, k)
              /\ Return(i, s)
              /\ UNCHANGED progress
           \/ /\ k > commitIndex[i]
              /\ Readable(i, k)
              /\ OfCurrentTerm(i, k)
              /\ AdvanceCommit(i, k, "NONE", s)
           \/ /\ k > commitIndex[i]
              /\ ReadFails(i, k)
              /\ Fault(i, s)
              /\ UNCHANGED progress

\* Mutant: the cursor does not move.
LeaderBroadcastStuck(i, c) ==
    /\ c < Len(Peers[i])
    /\ cursor' = Set(cursor, i, c)
    /\ LeaderSendTo(i, Peers[i][c + 1], "LEADER_BROADCAST")
    /\ UNCHANGED progress

\* c is peer_cursor on entry.
LeaderBroadcastNext(i, c) ==
    \/ /\ c < Len(Peers[i])
       /\ cursor' = Set(cursor, i, c + 1)
       /\ LeaderSendTo(i, Peers[i][c + 1], "LEADER_BROADCAST")
       /\ UNCHANGED progress
    \/ /\ c >= Len(Peers[i])
       /\ cursor' = Set(cursor, i, c)
       /\ LeaderMaybeCommit(i, "NONE")

LeaderAfterAppend(i) ==
    /\ lastIndex' = Set(lastIndex, i, lastIndex[i] + Len(pending[i]))
    /\ lastTerm' = Set(lastTerm, i, Last(pending[i]).term)
    /\ pending' = Set(pending, i, << >>)
    /\ UNCHANGED <<standing, peerView, pendingMsg, ae>>
    /\ LeaderBroadcastNext(i, 0)

---------------------------------------------------------------------------
(* AppendEntries responses.                                                *)

\* Where to continue after a rejection: past the last own entry of the
\* conflicting term below nextIndex, else at the hinted index. Past the last
\* index there is only zero, which counts as no such entry.
ConflictNext(i, m, next) ==
    LET at == {k \in 1..Dec(nextIndex[i][m.from]) :
                  TermAt(i, k) = m.conflictTerm}
    IN  IF m.conflictTerm # 0 /\ at # {} /\ IndexMax \notin at
        THEN next - 1 \in at /\ \A k \in at : k < next
        ELSE next = m.conflictIndex

ClampNext(i, next) ==
    IF next < 1 THEN 1 ELSE MinOf(next, Inc(lastIndex[i]))

HandleAeFailure(i, m) ==
    /\ UNCHANGED <<standing, lastLog, progress, matchIndex, cursor,
                   pendingMsg, stash>>
    /\ \/ \E next \in Index :
             /\ ConflictNext(i, m, next)
             /\ nextIndex' = [nextIndex EXCEPT ![i][m.from] = ClampNext(i, next)]
             /\ LeaderSendTo(i, m.from, step[i])
       \/ /\ m.conflictTerm # 0
          /\ ReadFails(i, Dec(nextIndex[i][m.from]))
          /\ Fault(i, step[i])
          /\ UNCHANGED nextIndex

\* Mutant: an old success counts as news.
AnyMatch(i, m) == m.match <= lastIndex[i]

NewMatch(i, m) ==
    matchIndex[i][m.from] < m.match /\ m.match <= lastIndex[i]

HandleAeSuccess(i, m) ==
    /\ matchIndex' = [matchIndex EXCEPT ![i][m.from] = m.match]
    /\ nextIndex' = IF m.match < IndexMax
                    THEN [nextIndex EXCEPT ![i][m.from] = Inc(m.match)]
                    ELSE nextIndex
    /\ UNCHANGED <<standing, lastLog, cursor, pendingMsg, stash>>
    /\ LeaderMaybeCommit(i, step[i])

RecvAeResponse(i, m) ==
    LET current == m.term = currentTerm[i] /\ role[i] = "LEADER"
    IN  \/ NewerTerm(i, m) /\ StepDownNewTerm(i, m.term)
        \/ current /\ ~m.success /\ HandleAeFailure(i, m)
        \/ current /\ m.success /\ NewMatch(i, m) /\ HandleAeSuccess(i, m)
        \/ /\ ~NewerTerm(i, m)
           /\ current => m.success /\ ~NewMatch(i, m)
           /\ Ignore(i)

---------------------------------------------------------------------------
(* raft89_proposev and raft89_propose (a list of one).  Lists over the     *)
(* configured limits are refused without any change.                       *)

\* Mutant: a proposal goes over the last entry.
OverLast(i) == lastIndex[i]

FirstNew(i) == Inc(lastIndex[i])

\* Mutant: the index limit is not checked.
AlwaysRoom(i, n) == TRUE

RoomFor(i, n) == lastIndex[i] <= IndexMax - n

Proposev(i, cmds) ==
    LET es == [k \in DOMAIN cmds |->
                 [term |-> currentTerm[i], cmd |-> cmds[k]]]
    IN  /\ role[i] = "LEADER"
        /\ Len(cmds) <= MaxAppendEntries
        /\ Bytes(es) <= MaxAppendBytes
        /\ UNCHANGED <<standing, lastLog, progress, peerView, cursor,
                       pendingMsg, ae>>
        /\ \/ /\ RoomFor(i, Len(cmds))
              /\ pending' = Set(pending, i, es)
              /\ Emit(i, LogAppend(FirstNew(i), es), "LEADER_APPEND")
           \/ /\ ~RoomFor(i, Len(cmds))
              /\ Fault(i, step[i])
              /\ UNCHANGED pending
           \/ /\ "nomem" \in Faults
              /\ RoomFor(i, Len(cmds))
              /\ pending' \in {pending, Set(pending, i, << >>)}
              /\ Return(i, step[i])
===========================================================================
