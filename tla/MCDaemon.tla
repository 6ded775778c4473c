------------------------------ MODULE MCDaemon ------------------------------
(***************************************************************************)
(* Daemon for TLC: how an instance may be started.                         *)
(***************************************************************************)
EXTENDS Daemon

MCCommands ==
    {[fg |-> TRUE,  pidfile |-> FALSE, root |-> FALSE, abs |-> TRUE],
     [fg |-> FALSE, pidfile |-> FALSE, root |-> TRUE,  abs |-> TRUE],
     [fg |-> FALSE, pidfile |-> TRUE,  root |-> FALSE, abs |-> TRUE],
     [fg |-> FALSE, pidfile |-> TRUE,  root |-> TRUE,  abs |-> TRUE],
     [fg |-> FALSE, pidfile |-> TRUE,  root |-> TRUE,  abs |-> FALSE]}
=============================================================================
