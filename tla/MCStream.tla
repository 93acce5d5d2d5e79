------------------------------ MODULE MCStream ------------------------------
(* TLC instances of GameStream. *)
EXTENDS GameStream
=============================================================================
