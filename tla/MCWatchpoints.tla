--------------------------- MODULE MCWatchpoints ---------------------------
(* Small instances of Watchpoints for TLC. *)
EXTENDS Watchpoints, TLC

\* Registers of a tool that sets both indices itself.
MCGiven == {[dr |-> [i \in Indices |-> a], dr7 |-> {1, 3, 17, 20}] : a \in Addrs}

Symmetry == Permutations(ThreadIds) \cup Permutations(Addrs)

=============================================================================
