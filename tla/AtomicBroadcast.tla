-------------------------- MODULE AtomicBroadcast --------------------------
(***************************************************************************)
(* What a replicated log promises to the applications of its members: all  *)
(* of them receive the same sequence of entries, each at its own pace, and *)
(* what was delivered is never taken back.                                 *)
(***************************************************************************)
EXTENDS Sequences, SequencesExt, Integers

CONSTANTS Member, Item

VARIABLE delivered   \* delivered[i]: what the application of i has received

Agree(d) == \A i, j \in Member : IsPrefix(d[i], d[j]) \/ IsPrefix(d[j], d[i])

ABInit == delivered \in [Member -> Seq(Item)] /\ Agree(delivered)

\* One member receives one more entry: the one some other member already has
\* at that place, if any.
Deliver(i, e) ==
    /\ delivered' = [delivered EXCEPT ![i] = Append(@, e)]
    /\ \A j \in Member \ {i} :
          Len(delivered[j]) > Len(delivered[i]) =>
              delivered[j][Len(delivered[i]) + 1] = e

ABNext == \E i \in Member, e \in Item : Deliver(i, e)

ABSpec == ABInit /\ [][ABNext]_delivered
===========================================================================
