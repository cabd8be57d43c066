------------------------------- MODULE MCBoot -------------------------------
(* Small instances of BootRaces for TLC. *)
EXTENDS BootRaces

\* A console of each kernel the tables have, the last version of a kernel where
\* there are several, and one the code does not know.
Complete == {505, 672, 700, 702, 755, 803, 852, 900, 904, 960, 1001, 1071, 1100, 1102}

\* Bound of the search: once a thread was moved no property of the run but
\* ServerHasItsKernel has anything left to say, and once kdebugger was called none
\* but that and WriteProtected.
Undisturbed == ~moved /\ ~called

=============================================================================
