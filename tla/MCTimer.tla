------------------------------ MODULE MCTimer ------------------------------
(***************************************************************************)
(* Four timers, one of them periodic, in a heap whose array has 5 slots.   *)
(***************************************************************************)
EXTENDS Timer, TLC

CONSTANTS a, b, c, p

Lengths == (a :> 1) @@ (b :> 2) @@ (c :> 3) @@ (p :> 2)
=============================================================================
