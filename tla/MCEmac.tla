------------------------------ MODULE MCEmac --------------------------------
(* Rings of three slots: two usable, both wrap within the bounded frames.  *)
EXTENDS Emac
=============================================================================
