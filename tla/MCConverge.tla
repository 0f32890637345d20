----------------------------- MODULE MCConverge -----------------------------
(***************************************************************************)
(* Small instances of Converge for TLC.  A unit of time is 20 seconds, so  *)
(* a period is three units.                                                *)
(***************************************************************************)
EXTENDS Converge, TLC

CONSTANTS a, b, c, n1, n2

\* The nodes were started at different times.
Spread == a :> 0 @@ b :> 1 @@ c :> 2

Pair == a :> 0 @@ b :> 1

=============================================================================
