----------------------------- MODULE MCWebFiles -----------------------------
(* Small instances of WebFiles for TLC. *)
EXTENDS WebFiles, TLC

CONSTANTS c1, c2, c3, p1, p2

MCPageLen == p1 :> 1 @@ p2 :> 2
Symmetry == Permutations({c1, c2, c3})
=============================================================================
