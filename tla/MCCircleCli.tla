----------------------------- MODULE MCCircleCli -----------------------------
(* CircleCli on a wallet that a few calls share.                           *)
EXTENDS CircleCli, TLC

Interchangeable == Permutations(Calls)
=============================================================================
