------------------------- MODULE Raft89Replication -------------------------
(***************************************************************************)
(* raft89_replication.c: AppendEntries on the follower.  The request is    *)
(* stashed in ae and pending, and worked off across the hard-state,        *)
(* truncate, append and apply actions it needs; the reply comes last.      *)
(***************************************************************************)
EXTENDS Raft89Core

StashOf(m) ==
    [NoStash EXCEPT !.prev = m.prev, !.prevTerm = m.prevTerm,
                    !.commit = m.commit, !.leader = m.from, !.match = m.prev]

\* Refusal of a stale leader; step is left alone.
SendAeFailure(i, j) ==
    /\ Emit(i, Send(AppendResponse(i, j, currentTerm[i], FALSE, 0, 0,
                       Inc(lastIndex[i]))), step[i])
    /\ UNCHANGED <<standing, lastLog, progress, peerView, cursor, pendingMsg,
                   stash>>

AeSendReply(i) ==
    Emit(i, Send(AppendResponse(i, ae'[i].leader, currentTerm'[i],
                    ae'[i].success, ae'[i].match, ae'[i].conflictTerm,
                    ae'[i].conflictIndex)), "NONE")

\* Mutant: the leader's commit index is taken as it is.
CommitUnclamped(i) == ae'[i].commit

FollowerCommit(i) ==
    MinOf(MinOf(ae'[i].commit, lastIndex'[i]), ae'[i].match)

\* Nothing more to persist: advance the commit index, apply, reply.
AeFinish(i, s) ==
    LET new == FollowerCommit(i)
    IN  /\ pending' = Set(pending, i, << >>)
        /\ \/ /\ new > commitIndex[i]
              /\ AdvanceCommit(i, new, "AE_REPLY", s)
           \/ /\ new <= commitIndex[i]
              /\ AeSendReply(i)
              /\ UNCHANGED progress

\* Mutant: the term of the last entry is not refreshed.
AeUpdateIndex(i, k) ==
    /\ lastIndex' = Set(lastIndex, i, k)
    /\ UNCHANGED lastTerm

\* Refresh the cached end of the log from the store.
AeUpdateLast(i, k) ==
    /\ lastIndex' = Set(lastIndex, i, k)
    /\ lastTerm' = Set(lastTerm, i, TermAt(i, k))

LastUnreadable(i, k, s) ==
    /\ ReadFails(i, k)
    /\ Fault(i, s)
    /\ UNCHANGED <<lastLog, progress, pending>>

---------------------------------------------------------------------------
(* Consistency check and conflict repair.                                  *)

\* Mutant: only the length of the prefix is checked.
PrefixLongEnough(i, a) == a.prev <= lastIndex[i]

PrefixMatches(i, a) ==
    a.prev # 0 => /\ a.prev <= lastIndex[i]
                  /\ Readable(i, a.prev)
                  /\ TermAt(i, a.prev) = a.prevTerm

\* Hints that let the leader skip the whole conflicting term.
ConflictHints(i, a, term, index) ==
    IF a.prev > lastIndex[i]
    THEN term = 0 /\ index = Inc(lastIndex[i])
    ELSE /\ term = TermAt(i, a.prev)
         /\ index \in 1..a.prev
         /\ \A k \in index..a.prev : TermAt(i, k) = term
         /\ index > 1 => TermAt(i, index - 1) # term

ReplyPrefixFailure(i, a) ==
    /\ \E term \in Term, index \in Index :
          /\ ConflictHints(i, a, term, index)
          /\ ae' = Set(ae, i, [a EXCEPT !.success = FALSE, !.match = 0,
                                        !.conflictTerm = term,
                                        !.conflictIndex = index])
    /\ AeSendReply(i)

\* The k-th entry sent is not in the log: missing, or of another term.
Differs(i, a, es, k) ==
    a.prev + k <= lastIndex[i] => TermAt(i, a.prev + k) # es[k].term

\* What the scan finds: k is the first difference, or one past the end.
FirstDifference(i, a, es, k) ==
    /\ \A h \in 1..k-1 : ~Differs(i, a, es, h)
    /\ k <= Len(es) => Differs(i, a, es, k)

\* A conflict at or below the commit index is a protocol error: the call
\* returns with the request still stashed.
AeApplyEntries(i, s, a, es) ==
    \E k \in 1..Len(es)+1 :
      /\ FirstDifference(i, a, es, k)
      /\ \/ /\ k > Len(es)
            /\ ae' = Set(ae, i, a)
            /\ AeFinish(i, s)
         \/ /\ k <= Len(es)
            /\ pending' = Set(pending, i, es)
            /\ UNCHANGED progress
            /\ \/ /\ a.prev + k > lastIndex[i]
                  /\ ae' = Set(ae, i, [a EXCEPT !.truncate = 0, !.offset = k - 1])
                  /\ Emit(i, LogAppend(a.prev + k, SubSeq(es, k, Len(es))),
                          "AE_APPEND")
               \/ /\ a.prev + k <= lastIndex[i]
                  /\ ae' = Set(ae, i, [a EXCEPT !.truncate = a.prev + k,
                                                !.offset = k - 1])
                  /\ IF a.prev + k <= commitIndex[i]
                     THEN Return(i, s)
                     ELSE Emit(i, LogTruncate(a.prev + k), "AE_TRUNCATE")

\* Mutant: the follower vouches for its whole log.
MatchWholeLog(i, a, es) ==
    IF a.prev + Len(es) < lastIndex[i] THEN lastIndex[i] ELSE a.prev + Len(es)

MatchOf(i, a, es) == a.prev + Len(es)

\* a and es are the stashed request and its entries.
AeProcess(i, s, a, es) ==
    /\ role' = Set(role, i, "FOLLOWER")
    /\ leaderId' = Set(leaderId, i, a.leader)
    /\ UNCHANGED <<votes, lastLog, peerView, cursor, pendingMsg>>
    /\ \/ /\ ~PrefixMatches(i, a)
          /\ a.prev <= lastIndex[i] => Readable(i, a.prev)
          /\ pending' = Set(pending, i, es)
          /\ UNCHANGED progress
          /\ ReplyPrefixFailure(i, a)
       \/ /\ PrefixMatches(i, a)
          /\ AeApplyEntries(i, s, [a EXCEPT !.success = TRUE,
                                            !.match = MatchOf(i, a, es)], es)
       \/ /\ "store" \in Faults
          /\ a.prev \in 1..lastIndex[i] \/ (es # << >> /\ a.prev < lastIndex[i])
          /\ ae' = Set(ae, i, a)
          /\ pending' = Set(pending, i, es)
          /\ Fault(i, s)
          /\ UNCHANGED progress

---------------------------------------------------------------------------
(* Continuations.                                                          *)

AeContinue(i) == AeProcess(i, "AE_HARD_STATE", ae[i], pending[i])

AeAfterTruncate(i) ==
    LET k == Dec(ae[i].truncate)
        first == ae[i].prev + ae[i].offset + 1
    IN  /\ UNCHANGED <<standing, peerView, cursor, pendingMsg, ae>>
        /\ \/ /\ k = 0 \/ Readable(i, k)
              /\ AeUpdateLast(i, k)
              /\ Emit(i, LogAppend(first, SubSeq(pending[i], ae[i].offset + 1,
                                                 Len(pending[i]))), "AE_APPEND")
              /\ UNCHANGED <<progress, pending>>
           \/ LastUnreadable(i, k, "AE_TRUNCATE")

AeAfterAppend(i) ==
    LET k == ae[i].prev + Len(pending[i])
    IN  /\ UNCHANGED <<standing, peerView, cursor, pendingMsg, ae>>
        /\ \/ /\ k = 0 \/ Readable(i, k)
              /\ AeUpdateLast(i, k)
              /\ AeFinish(i, "AE_APPEND")
           \/ LastUnreadable(i, k, "AE_APPEND")

---------------------------------------------------------------------------
(* AppendEntries requests.  A request of the current term at a leader is a *)
(* protocol error and changes nothing.                                     *)

StartAeHardState(i, m) ==
    /\ role' = Set(role, i, "FOLLOWER")
    /\ leaderId' = Set(leaderId, i, NoId)
    /\ ae' = Set(ae, i, StashOf(m))
    /\ pending' = Set(pending, i, m.entries)
    /\ Emit(i, HardState(m.term, NoId), "AE_HARD_STATE")
    /\ UNCHANGED <<votes, lastLog, progress, peerView, cursor, pendingMsg>>

\* The copy of the entries cannot be allocated: the request is dropped after
\* the old stash was overwritten.
StashFails(i, m) ==
    /\ "nomem" \in Faults
    /\ m.entries # << >>
    /\ ae' = Set(ae, i, StashOf(m))
    /\ pending' = Set(pending, i, << >>)
    /\ UNCHANGED <<standing, lastLog, progress, peerView, control, cursor,
                   pendingMsg>>

RecvAppendEntries(i, m) ==
    \/ /\ m.term < currentTerm[i]
       /\ SendAeFailure(i, m.from)
    \/ /\ m.term > currentTerm[i]
       /\ StartAeHardState(i, m)
    \/ /\ m.term = currentTerm[i]
       /\ role[i] # "LEADER"
       /\ AeProcess(i, step[i], StashOf(m), m.entries)
    \/ /\ m.term >= currentTerm[i]
       /\ m.term = currentTerm[i] => role[i] # "LEADER"
       /\ StashFails(i, m)
===========================================================================
