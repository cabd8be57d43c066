------------------------------- MODULE MCLoader -------------------------------
(* Small instances of Loader for TLC. *)
EXTENDS Loader

Part(at, file, mem, alloc) == [at |-> at, file |-> file, mem |-> mem, alloc |-> alloc]

\* rpcstub fits in one page.
MCStub == [parts |-> {Part(0, 3, 3, TRUE)}, rels |-> {}]

\* Segments with a bss behind the last, with relocations in both; the last
\* pointer ends where the memory does.
MCSegments == [parts |-> {Part(0, 3, 3, TRUE), Part(4, 2, 5, TRUE)}, rels |-> {1, 7}]

\* Sections that fill their pages, one of them not copied.
MCSections == [parts |-> {Part(0, 2, 2, FALSE), Part(0, 4, 4, TRUE)}, rels |-> {2}]

MCElfs == {MCSegments, MCSections}

=============================================================================
