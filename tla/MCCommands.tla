----------------------------- MODULE MCCommands -----------------------------
(* Commands, and the task that polls the Handler, with a set of calls for TLC. *)
EXTENDS HandlerTask, TLC
=============================================================================
