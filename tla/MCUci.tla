------------------------------- MODULE MCUci -------------------------------
(* TLC instance of Uci. *)
EXTENDS Uci
=============================================================================
