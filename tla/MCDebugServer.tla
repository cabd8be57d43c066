--------------------------- MODULE MCDebugServer ---------------------------
(* Small instances of DebugRaces for TLC. *)
EXTENDS DebugRaces, TLC

\* Connections that send no debug command are interchangeable.
Symmetry == Permutations(Conns \ Debuggers)

\* Bounds of the search: beyond them SlotsLostByAccept, or every property
\* that asks for Calm, has nothing left to say.
Unstolen == ~stolen
Quiet == Calm

=============================================================================
