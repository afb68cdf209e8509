------------------------------ MODULE MCPQueue ------------------------------
(***************************************************************************)
(* Instances of PQueue for TLC: the array starts with room for one bucket  *)
(* instead of 16, so that it grows twice, and has room left for `fit`.     *)
(***************************************************************************)
EXTENDS PQueue, TLC

CONSTANTS p1, p2, x1, x2, x3, x4

\* Two items of one priority between a higher and a lower one.
Prios == x1 :> 0 @@ x2 :> 5 @@ x3 :> 0 @@ x4 :> -3
=============================================================================
