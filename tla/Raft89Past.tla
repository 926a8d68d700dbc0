----------------------------- MODULE Raft89Past ----------------------------
(***************************************************************************)
(* A cluster that carries its past (Raft89History) along, as the safety    *)
(* proof hands it from step to step: no CHOOSE, no existential quantifier, *)
(* so that TLC can check the inductive invariant in every reachable state. *)
(***************************************************************************)
EXTENDS Raft89History

VARIABLES leaderLogs, \* L of Raft89History
          acks        \* A of Raft89History

HistoryInit ==
    /\ Init
    /\ leaderLogs = BootLogs(log)
    /\ acks = BootAcks(log)

HistoryNext ==
    \E i \in Server :
        /\ \/ Receive(i)
           \/ Timeout(i)
           \/ ClientRequest(i)
           \/ Done(i)
           \/ Fatal(i)
           \/ CrashRestart(i)
        /\ leaderLogs' = NextLogs(leaderLogs, i)
        /\ acks' = acks \union NewAcks(hard', log', i)

HistorySpec == HistoryInit /\ [][HistoryNext]_<<vars, leaderLogs, acks>>

\* The invariant the safety theorems of libraft89 rest on: the durable state,
\* what each node is about to do and every message ever sent are in accordance
\* with the logs of the leaders and with what was acknowledged
\* (raft89__leader_commit_candidate, raft89__log_is_fresh, ae_scan).
HistorySound == Sound(leaderLogs, acks)
============================================================================
