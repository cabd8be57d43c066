--------------------------- MODULE MCBreakpoints ---------------------------
(* Small instances of Breakpoints for TLC. *)
EXTENDS Breakpoints, TLC

Symmetry == Permutations(Pids) \cup Permutations(Addrs) \cup Permutations(Threads)

=============================================================================
