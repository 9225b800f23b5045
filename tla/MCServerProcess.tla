-------------------------- MODULE MCServerProcess --------------------------
(* Two signals, one connection, and a clock of a few ticks per timeout;     *)
(* three reads make up a username.                                          *)
EXTENDS ServerProcess

MCSignals == {"SIGINT", "SIGTERM"}
=============================================================================
