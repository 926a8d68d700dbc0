---------------------------- MODULE Raft89Data ----------------------------
(***************************************************************************)
(* Data of libraft89: members, terms, indices, log entries, the four       *)
(* message types and the five host actions (include/raft89.h), and the     *)
(* pure helpers of raft89_u64.c, raft89_log.c and raft89_election.c.       *)
(*                                                                         *)
(* Terms and indices are 64-bit in the code; TermMax and IndexMax stand    *)
(* for RAFT89__U64_MAX so that arithmetic at the edge is kept.             *)
(***************************************************************************)
EXTENDS Integers, Sequences, FiniteSets, Functions, SequencesExt

CONSTANTS
    Server,            \* the configured members
    NoId,              \* RAFT89_ID_NONE
    Peers,             \* Peers[i]: the peers array of i, in config order
    Command,           \* payloads the clients propose
    CmdSize,           \* CmdSize[c]: payload size in bytes, zero allowed
    TermMax,           \* RAFT89__U64_MAX, as a term
    IndexMax,          \* RAFT89__U64_MAX, as an index
    MaxAppendEntries,  \* config.max_append_entries
    MaxAppendBytes,    \* config.max_append_bytes
    Faults             \* which environment failures may happen

ASSUME ServerAssumption ==
    /\ IsFiniteSet(Server)
    /\ Server # {}
    /\ NoId \notin Server

ASSUME PeersAssumption ==
    /\ Peers \in [Server -> Seq(Server)]
    /\ \A i \in Server : Range(Peers[i]) = Server \ {i}

ASSUME LimitAssumption ==
    /\ TermMax \in Nat \ {0}
    /\ IndexMax \in Nat \ {0}
    /\ MaxAppendEntries \in Nat \ {0}
    /\ MaxAppendBytes \in Nat \ {0}
    /\ CmdSize \in [Command -> Nat]

\* "nomem": malloc returns NULL; "store": a store read callback fails;
\* "fatal": the host acknowledges an action with RAFT89_ACTION_FATAL.
ASSUME FaultsAssumption == Faults \subseteq {"nomem", "store", "fatal"}

Term == 0..TermMax
Index == 0..IndexMax
Id == Server \union {NoId}

\* A log entry; its index is its position in the log.
Entry == [term : Term, cmd : Command]

---------------------------------------------------------------------------
(* raft89_u64.c: increments and decrements wrap.                           *)

Inc(x) == IF x = IndexMax THEN 0 ELSE x + 1
Dec(x) == IF x = 0 THEN IndexMax ELSE x - 1

MinOf(a, b) == IF a < b THEN a ELSE b

(* raft89_election.c *)

\* Mutant: half of the members is enough.
IsHalf(n) == n >= Cardinality(Server) \div 2

IsQuorum(n) == n >= (Cardinality(Server) \div 2) + 1

\* Mutant: any log is good enough.
LogAnyFresh(candTerm, candIndex, ourTerm, ourIndex) == TRUE

LogIsFresh(candTerm, candIndex, ourTerm, ourIndex) ==
    \/ candTerm > ourTerm
    \/ candTerm = ourTerm /\ candIndex >= ourIndex

(* Payload bytes of a sequence of entries.                                 *)
Bytes(es) == FoldLeft(LAMBDA sum, e : sum + CmdSize[e.cmd], 0, es)

---------------------------------------------------------------------------
(* Messages.                                                               *)

RequestVote(from, to, term, lastIndex, lastTerm) ==
    [type |-> "RV", from |-> from, to |-> to, term |-> term,
     lastIndex |-> lastIndex, lastTerm |-> lastTerm]

VoteResponse(from, to, term, granted) ==
    [type |-> "RVR", from |-> from, to |-> to, term |-> term,
     granted |-> granted]

AppendEntries(from, to, term, prev, prevTerm, commit, entries) ==
    [type |-> "AE", from |-> from, to |-> to, term |-> term,
     prev |-> prev, prevTerm |-> prevTerm, commit |-> commit,
     entries |-> entries]

AppendResponse(from, to, term, success, match, conflictTerm, conflictIndex) ==
    [type |-> "AER", from |-> from, to |-> to, term |-> term,
     success |-> success, match |-> match, conflictTerm |-> conflictTerm,
     conflictIndex |-> conflictIndex]

RequestVoteMsg ==
    [type : {"RV"}, from : Server, to : Server, term : Term,
     lastIndex : Index, lastTerm : Term]

VoteResponseMsg ==
    [type : {"RVR"}, from : Server, to : Server, term : Term,
     granted : BOOLEAN]

AppendEntriesMsg ==
    [type : {"AE"}, from : Server, to : Server, term : Term,
     prev : Index, prevTerm : Term, commit : Index, entries : Seq(Entry)]

AppendResponseMsg ==
    [type : {"AER"}, from : Server, to : Server, term : Term,
     success : BOOLEAN, match : Index, conflictTerm : Term,
     conflictIndex : Index]

\* The zeroed pending_msg of a fresh node.
NoMsg == [type |-> "NONE"]

Message ==
    RequestVoteMsg \union VoteResponseMsg \union
    AppendEntriesMsg \union AppendResponseMsg

(* raft89_message.c: what raft89_recv accepts.  Entry indices are implied  *)
(* by position, so of the shape checks only the nonzero term is left.      *)
EnvelopeValid(i, m) ==
    /\ m.to = i
    /\ m.from \in Server \ {i}
    /\ m.type = "RV" => (m.lastIndex = 0 <=> m.lastTerm = 0)
    /\ m.type = "AE" =>
         /\ Len(m.entries) <= MaxAppendEntries
         /\ m.entries # << >> =>
              /\ m.prev <= IndexMax - Len(m.entries)
              /\ Bytes(m.entries) <= MaxAppendBytes
              /\ \A k \in DOMAIN m.entries : m.entries[k].term # 0
    /\ m.type = "AER" =>
         IF m.success
         THEN m.conflictTerm = 0 /\ m.conflictIndex = 0
         ELSE m.match = 0 /\ m.conflictIndex # 0

---------------------------------------------------------------------------
(* Host actions: at most one is outstanding per node.                      *)

NoAction == [type |-> "NONE"]
Send(m) == [type |-> "SEND", msg |-> m]
HardState(t, v) == [type |-> "HARD_STATE", term |-> t, vote |-> v]
LogAppend(first, es) == [type |-> "LOG_APPEND", first |-> first, entries |-> es]
LogTruncate(first) == [type |-> "LOG_TRUNCATE", first |-> first]
Apply(index, e) == [type |-> "APPLY", index |-> index, entry |-> e]

Action ==
    {NoAction} \union
    [type : {"SEND"}, msg : Message] \union
    [type : {"HARD_STATE"}, term : Term, vote : Id] \union
    [type : {"LOG_APPEND"}, first : Index, entries : Seq(Entry)] \union
    [type : {"LOG_TRUNCATE"}, first : Index] \union
    [type : {"APPLY"}, index : Index, entry : Entry]

\* enum raft89_step: what to do once the outstanding action is acknowledged.
Step == {"NONE", "ELECTION_BROADCAST", "VOTE_RESPONSE", "STEP_DOWN",
         "AE_HARD_STATE", "AE_TRUNCATE", "AE_APPEND", "AE_REPLY", "APPLY",
         "LEADER_APPEND", "LEADER_BROADCAST"}

Role == {"FOLLOWER", "CANDIDATE", "LEADER"}

\* The ae_* fields of struct raft89: the request being processed and its reply.
Stash ==
    [prev : Index, prevTerm : Term, commit : Index, leader : Id,
     match : Index, truncate : Index, conflictTerm : Term,
     conflictIndex : Index, offset : Nat, success : BOOLEAN]

NoStash ==
    [prev |-> 0, prevTerm |-> 0, commit |-> 0, leader |-> NoId,
     match |-> 0, truncate |-> 0, conflictTerm |-> 0,
     conflictIndex |-> 0, offset |-> 0, success |-> FALSE]
===========================================================================
