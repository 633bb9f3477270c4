-------------------------- MODULE MCNamedPipeClient --------------------------
(* The client on small instances, for TLC. *)
EXTENDS NamedPipeClient
=============================================================================
