------------------------------- MODULE MCBrain -------------------------------
(* Brain with few events and small caps.                                   *)
EXTENDS Brain, TLC
=============================================================================
