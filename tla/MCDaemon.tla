------------------------------ MODULE MCDaemon ------------------------------
(* Three neighbours of another bridge, and STP turned on and off. *)
EXTENDS Daemon

=============================================================================
