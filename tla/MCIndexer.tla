------------------------------ MODULE MCIndexer ------------------------------
(* Two pools, one of them on two chains and written in two ways; two       *)
(* events share a timestamp and two a block, one comes late.               *)
EXTENDS IndexerFeed

E(k, p, c, b, t, l, v) == [key |-> k, pool |-> p, chain |-> c, block |-> b,
                           time |-> t, liquidity |-> l, volume |-> v, fees |-> 1]

MCFeed == {E(1, "P", "arc", 1, 2, 5, 3), E(2, "p", "arc", 3, 4, -7, 2),
           E(3, "P", "arc", 4, 4, 4, 1), E(4, "q", "arc", 3, 4, 2, 2),
           E(5, "p", "base", 3, 6, 1, 1)}
MCSpoilt == {E(2, "p", "arc", 3, 4, -7, -2)}
MCObserved == 0..9
MCNormPool == [p \in {"P", "p", "q"} |-> IF p = "P" THEN "p" ELSE p]
=============================================================================
