------------------------------- MODULE MCBot -------------------------------
(* The TLC instance of Bot; MCBot.cfg gives its constants. *)
EXTENDS Bot
=============================================================================
