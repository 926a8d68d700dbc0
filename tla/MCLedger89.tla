---------------------------- MODULE MCLedger89 ----------------------------
(***************************************************************************)
(* Instances of the ledger for TLC.                                        *)
(***************************************************************************)
EXTENDS Ledger89, Sequences

CONSTANTS a, b

OneOrTwo == {<<a>>, <<b, a>>}

\* A directory without a ledger.
NoLedger ==
    [file |-> [f \in {} |-> << >>], names |-> EmptyTable,
     log |-> [log |-> << >>, first |-> 1, stable |-> 1, rev |-> 0]]

\* A ledger that has been closed after append(a), sync, rotate,
\* appendv(b, a) and sync.
TwoParts ==
    LET both(c) == [live |-> c, hard |-> c]
        p1 == <<Header(1, 0, 1), Marker(1, 0, 1), Batch(1, <<a>>), Marker(1, 0, 2)>>
        p2 == <<Header(2, 0, 2), Marker(2, 0, 2), Batch(2, <<b, a>>), Marker(2, 0, 4)>>
        m1 == Manifest(1, 0, 1, << >>, Desc(1, 1, 1))
        m2 == Manifest(2, 0, 1, <<Desc(1, 1, 2)>>, Desc(2, 2, 2))
    IN [file |-> [f \in {Part(1), Part(2), Man(1), Man(2), Cur(2)} |->
                    both(CASE f = Part(1) -> Append(p1, Footer(1, 1, 2, Tail(p1)))
                           [] f = Part(2) -> p2
                           [] f = Man(1) -> <<m1>>
                           [] f = Man(2) -> <<m2>>
                           [] f = Cur(2) -> <<Current(2)>>)],
        names |-> [part |-> {1, 2}, man |-> {1, 2}, cur |-> 2, tmp |-> 0],
        log |-> [log |-> <<a, b, a>>, first |-> 1, stable |-> 4, rev |-> 0]]

EmptyOrTwoParts == {NoLedger, TwoParts}
===========================================================================
