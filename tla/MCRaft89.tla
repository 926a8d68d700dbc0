----------------------------- MODULE MCRaft89 -----------------------------
(***************************************************************************)
(* Instances of the cluster for TLC.                                       *)
(***************************************************************************)
EXTENDS Raft89History

CONSTANTS n1, n2, n3, n4, x, y

\* Every node lists the members in the same order.
PeersInOrder ==
    [i \in Server |-> SelectSeq(<<n1, n2, n3, n4>>,
                               LAMBDA j : j \in Server \ {i})]

\* One-byte payloads, or x empty.
OneByte == [c \in Command |-> 1]
EmptyX == [c \in Command |-> IF c = x THEN 0 ELSE 1]

\* All pairs of nodes; n3 between n1 and n2, which cannot hear each other; n1
\* between n2 and n3; n3 cut off.
Mesh == {{i, j} : i, j \in Server}
Star == {{n1, n3}, {n2, n3}}
Hub == {{n1, n2}, {n1, n3}}
Pair == {{n1, n2}}

\* A cluster that starts for the first time.
FirstBoot ==
    {[hard |-> [i \in Server |-> [term |-> 0, vote |-> NoId]],
      log |-> [i \in Server |-> << >>],
      app |-> [i \in Server |-> << >>]]}

\* All nodes have crashed after n1 led term 1 and n2 led term 2, each having
\* appended to its own log only (test/sim/test_figure8_sim.c), and n2 stood in
\* vain in term 3.
Figure8Boot ==
    {[hard |-> (n1 :> [term |-> 2, vote |-> NoId]) @@
               (n2 :> [term |-> 3, vote |-> n2]) @@
               (n3 :> [term |-> 2, vote |-> n2]),
      log |-> (n1 :> <<[term |-> 1, cmd |-> x]>>) @@
              (n2 :> <<[term |-> 2, cmd |-> y]>>) @@
              (n3 :> << >>),
      app |-> [i \in Server |-> << >>]]}

\* All nodes have crashed after n1 committed the commands of first in term 1,
\* n2 led term 2 and n1 led term 3; a and b are what n1 and n2 appended to
\* their own logs.
CrashedBoot(cmds, a, b) ==
    LET first == [k \in DOMAIN cmds |-> [term |-> 1, cmd |-> cmds[k]]]
    IN [hard |-> (n1 :> [term |-> 3, vote |-> n1]) @@
                 (n2 :> [term |-> 2, vote |-> n2]) @@
                 (n3 :> [term |-> 3, vote |-> n1]),
        log |-> (n1 :> first \o a) @@ (n2 :> first \o b) @@ (n3 :> first),
        app |-> (n1 :> first) @@ (n2 :> << >>) @@ (n3 :> << >>)]

\* Both appended, and n3 is behind.
DivergedBoot ==
    {CrashedBoot(<<x>>, <<[term |-> 3, cmd |-> x], [term |-> 3, cmd |-> y]>>,
                 <<[term |-> 2, cmd |-> y], [term |-> 2, cmd |-> x]>>)}

\* Only n2 appended: its log is longer than that of any possible leader.
OverhangBoot == {CrashedBoot(<<x, y, x>>, << >>, <<[term |-> 2, cmd |-> y]>>)}

RepairBoot == DivergedBoot \union OverhangBoot

\* All nodes have crashed after n2 led term 1 and n1, with the vote of n3, led
\* term 2, each having appended to its own log only.
RivalBoot ==
    {[hard |-> (n1 :> [term |-> 2, vote |-> n1]) @@
               (n2 :> [term |-> 1, vote |-> n2]) @@
               (n3 :> [term |-> 2, vote |-> n1]),
      log |-> (n1 :> <<[term |-> 2, cmd |-> x]>>) @@
              (n2 :> <<[term |-> 1, cmd |-> y]>>) @@
              (n3 :> << >>),
      app |-> [i \in Server |-> << >>]]}

\* The hypotheses of the safety theorems.
ASSUME MCBootHistory == KnownHistory

OnlyX == {<<x>>}
SingleCommands == {<<c>> : c \in Command}
Pairs == SingleCommands \union {<<c, d>> : c, d \in Command}
===========================================================================
