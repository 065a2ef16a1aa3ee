------------------------------- MODULE MCGcra -------------------------------
(* Instances of Gcra for TLC.                                              *)
EXTENDS Gcra, TLC

CONSTANTS a, b, c

MCCost == (a :> 2) @@ (b :> 1) @@ (c :> 2)
=============================================================================
