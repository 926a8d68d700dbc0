---------------------------- MODULE DurableLog ----------------------------
(***************************************************************************)
(* What a ledger promises to its application: a log that a failure cuts at *)
(* or above its stable end, and that a truncation or a pruning in progress *)
(* changes entirely or not at all.                                         *)
(***************************************************************************)
EXTENDS Naturals, Sequences

CONSTANTS
    Value,   \* records
    Gone     \* what is left of a pruned record

VARIABLES
    cur,   \* the log: its records, first and stable index and revision
    next,  \* what the structural operation in progress makes of it
    up     \* whether the ledger is open and accepts operations

dvars == <<cur, next, up>>

LogEnd(s) == Len(s.log) + 1

DurableInit ==
    /\ cur.log \in Seq(Value \union {Gone})
    /\ cur.first \in 1..LogEnd(cur) /\ cur.stable = LogEnd(cur)
    /\ next = {}
    /\ up = FALSE

\* The logs that a failure can leave of s.
Cuts(s) == {[s EXCEPT !.log = SubSeq(@, 1, k - 1), !.stable = k] :
               k \in s.stable..LogEnd(s)}

Open ==
    /\ ~up /\ up'
    /\ cur' \in UNION {Cuts(s) : s \in {cur} \union next}
    /\ next' = {}

AppendRecords ==
    /\ up
    /\ \E n \in 1..Len(cur'.log) :
          LET k == Len(cur'.log) - n
          IN cur = [cur' EXCEPT !.log = SubSeq(@, 1, k)]
    /\ UNCHANGED <<next, up>>

Sync ==
    /\ up
    /\ cur' = [cur EXCEPT !.stable = LogEnd(cur)]
    /\ UNCHANGED <<next, up>>

\* Dropping a stable suffix starts a new revision.
Truncated(from) ==
    [log |-> SubSeq(cur.log, 1, from - 1), first |-> cur.first,
     stable |-> from, rev |-> cur.rev + 1]

Pruned(to) ==
    [cur EXCEPT !.first = to,
                !.log = [i \in DOMAIN @ |-> IF i < to THEN Gone ELSE @[i]]]

BeginTruncate ==
    /\ up /\ next = {} /\ cur.stable = LogEnd(cur)
    /\ \E from \in cur.first..cur.stable - 1 : next' = {Truncated(from)}
    /\ UNCHANGED <<cur, up>>

BeginPrune ==
    /\ up /\ next = {}
    /\ \E to \in cur.first + 1..cur.stable : next' = {Pruned(to)}
    /\ UNCHANGED <<cur, up>>

Commit ==
    /\ up /\ cur' \in next /\ next' = {}
    /\ UNCHANGED up

Abort ==
    /\ up /\ next # {} /\ next' = {}
    /\ UNCHANGED <<cur, up>>

\* The ledger is closed, or fails.
Down ==
    /\ up /\ ~up'
    /\ UNCHANGED <<cur, next>>

DurableNext ==
    \/ Open \/ AppendRecords \/ Sync
    \/ BeginTruncate \/ BeginPrune \/ Commit \/ Abort \/ Down

DurableSpec == DurableInit /\ [][DurableNext]_dvars
===========================================================================
