---------------------------- MODULE MCFloatClient ----------------------------
(* FloatClient with interchangeable callers.                               *)
EXTENDS FloatClient

CallerSymmetry == Permutations(Callers)
=============================================================================
