----------------------------- MODULE MCCommands -----------------------------
(* Small instances of Commands for TLC. *)
EXTENDS Commands

\* The commands whose handlers answer each request once.
InStepNames == AllNames \ {"protect"}

=============================================================================
