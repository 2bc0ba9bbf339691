--------------------------- MODULE MCCommandRuntime ---------------------------
(* Small instances of CommandRuntime for TLC. *)
EXTENDS CommandRuntime
=============================================================================
