--------------------------- MODULE MCMessageReader ---------------------------
(* The message reader on small instances, for TLC. *)
EXTENDS MessageReader
=============================================================================
