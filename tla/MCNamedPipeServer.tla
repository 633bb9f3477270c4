-------------------------- MODULE MCNamedPipeServer --------------------------
(* The server on small instances, for TLC. *)
EXTENDS NamedPipeServer

=============================================================================
