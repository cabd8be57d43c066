------------------------------- MODULE Loader -------------------------------
(***************************************************************************)
(* Starting code in a process: sys_proc_install_handle (the RPC stub) and   *)
(* sys_proc_elf_handle (an ELF image) of kdebugger.  Both put code into the *)
(* process and call proc_create_thread, which puts a small loader beside    *)
(* it, lets a thread run the loader, waits for its ldrdone byte and frees   *)
(* it.  A request is served by a handler thread of the server; its loader   *)
(* runs at the same time.  Sizes and addresses count from the code's start. *)
(***************************************************************************)
EXTENDS Naturals, FiniteSetsExt

CONSTANTS
  Jobs,       \* requests, each served by a thread of the server
  Elfs,       \* images tools send
  Stub,       \* the image of the RPC stub
  Page,       \* PAGE_SIZE
  Pointer     \* the bytes of a relocated pointer

\* A part is a segment, or a section when there are no segments: where it goes,
\* its bytes in the file and in memory, and whether it is copied (SHF_ALLOC).
\* rels are the offsets of its relocations, whose pointers lie in the parts: the
\* code takes them as they come.
WellFormed(e) ==
  /\ IsFiniteSet(e.parts)
  /\ \A s \in e.parts : s.at \in Nat /\ s.mem \in Nat /\ s.file \in 0..s.mem
  /\ \A a \in e.rels :
       a \in Nat /\ \E s \in e.parts : s.at <= a /\ a + Pointer <= s.at + s.mem

ASSUME LoaderAssumption ==
  /\ Page \in Nat \ {0} /\ Pointer \in Nat \ {0}
  /\ \A e \in Elfs \cup {Stub} : WellFormed(e)

Regions == {"code", "loader", "stack"}

VARIABLES
  running,    \* the process exists
  known,      \* the tables have its libkernel for this firmware
  opened,     \* its executable has been made writable
  mapped,     \* <<j, r>>: the region r of j is in its memory map
  work,       \* work[j], the image
  size,       \* size[j], of the memory allocated for it
  written,    \* written[j], the bytes proc_map_elf and proc_relocate_elf wrote
  kpc, r,     \* the thread that serves j, and its variable r
  lpc,        \* the loader thread of j
  ldrdone,    \* ldrdone[j]
  started,    \* started[j], what scePthreadCreate did
  answer      \* answer[j]

server == <<kpc, r, answer>>
loader == <<lpc, ldrdone, started>>
image == <<work, size, written, opened>>
vars == <<running, known, mapped, image, server, loader>>

Init ==
  /\ running = TRUE /\ known \in BOOLEAN /\ opened = FALSE
  /\ mapped = {}
  /\ work = [j \in Jobs |-> Stub]
  /\ size = [j \in Jobs |-> 0]
  /\ written = [j \in Jobs |-> {}]
  /\ kpc = [j \in Jobs |-> "idle"]
  /\ r = [j \in Jobs |-> 0]
  /\ lpc = [j \in Jobs |-> "none"]
  /\ ldrdone = [j \in Jobs |-> FALSE]
  /\ started = [j \in Jobs |-> "no"]
  /\ answer = [j \in Jobs |-> "none"]

-----------------------------------------------------------------------------
(* The image                                                                *)

\* Variation: the size in the file is counted.
MappedSizeOfFile(e) == Max({s.at + s.file : s \in e.parts} \cup {0})

\* elf_mapped_size
MappedSize(e) == Max({s.at + s.mem : s \in e.parts} \cup {0})

\* Variation: the rest is added and not what the page lacks.
PaddedByRest(n) == n + (n % Page)

\* msize += PAGE_SIZE - msize % PAGE_SIZE: a page more when it is full.
Padded(n) == n + (Page - (n % Page))

\* proc_map_elf and proc_relocate_elf
Copied(e) ==
  UNION {s.at .. s.at + s.file - 1 : s \in {x \in e.parts : x.alloc}}
Relocated(e) == UNION {a .. a + Pointer - 1 : a \in e.rels}

-----------------------------------------------------------------------------
(* sys_proc_install_handle and sys_proc_elf_handle                           *)

At(j, l) == kpc[j] = l
Goto(j, l) == kpc' = [kpc EXCEPT ![j] = l] /\ UNCHANGED <<r, answer>>

Return(j, v) ==
  /\ kpc' = [kpc EXCEPT ![j] = "returned"]
  /\ r' = [r EXCEPT ![j] = v]
  /\ answer' = [answer EXCEPT ![j] = IF v = 0 THEN "success" ELSE "error"]

\* r = v; goto error
Abandon(j, v) ==
  /\ kpc' = [kpc EXCEPT ![j] = "free"]
  /\ r' = [r EXCEPT ![j] = v]
  /\ UNCHANGED answer

\* CMD_PROC_INSTALL, or CMD_PROC_ELF with the image e.
Request(j, e) ==
  /\ At(j, "idle")
  /\ work' = [work EXCEPT ![j] = e]
  /\ Goto(j, "code")
  /\ UNCHANGED <<running, known, mapped, size, written, opened, loader>>

\* proc_allocate
Allocate(j, reg, next) ==
  mapped' = mapped \cup {<<j, reg>>} /\ Goto(j, next)

\* proc_deallocate
Deallocate(j, reg) == mapped' = mapped \ {<<j, reg>>}

\* It fails when the process is unknown, the image has no ElfMagic, or the
\* address space is full.
AllocateCode(j) ==
  /\ At(j, "code")
  /\ \/ /\ Allocate(j, "code", "write")
        /\ size' = [size EXCEPT ![j] = Padded(MappedSize(work[j]))]
     \/ /\ Return(j, 1)
        /\ UNCHANGED <<mapped, size>>
  /\ UNCHANGED <<running, known, work, written, opened, loader>>

\* Writing the stub can fail; the writes of an ELF image are not looked at.
WriteCode(j) ==
  /\ At(j, "write")
  /\ \/ /\ running
        /\ written' = [written EXCEPT ![j] = Copied(work[j]) \cup Relocated(work[j])]
        /\ Goto(j, IF work[j] = Stub THEN "loader" ELSE "protect")
     \/ /\ ~running
        /\ IF work[j] = Stub THEN Return(j, 1) ELSE Goto(j, "protect")
        /\ UNCHANGED written
  /\ UNCHANGED <<running, known, mapped, work, size, opened, loader>>

\* proc_mprotect of the entry named "executable"
Unprotect(j) ==
  /\ At(j, "protect")
  /\ opened' = (opened \/ running)
  /\ Goto(j, "loader")
  /\ UNCHANGED <<running, known, mapped, work, size, written, loader>>

-----------------------------------------------------------------------------
(* proc_create_thread                                                       *)

AllocateLoader(j) ==
  /\ At(j, "loader")
  /\ \/ Allocate(j, "loader", "stack")
     \/ Abandon(j, 1) /\ UNCHANGED mapped
  /\ UNCHANGED <<running, known, image, loader>>

AllocateStack(j) ==
  /\ At(j, "stack")
  /\ \/ Allocate(j, "stack", "rpcldr")
     \/ Abandon(j, 1) /\ UNCHANGED mapped
  /\ UNCHANGED <<running, known, image, loader>>

\* proc_write_mem of rpcldr, and later of the five fields of its header.
Write(j, from, next) ==
  /\ At(j, from)
  /\ \/ running /\ Goto(j, next)
     \/ ~running /\ Abandon(j, 1)
  /\ UNCHANGED <<running, known, mapped, image, loader>>

\* Without the address of scePthreadAttrInit it gives up, and r is 0.
FindLibkernel(j) ==
  /\ At(j, "find")
  /\ \/ known /\ Goto(j, "fields")
     \/ ~known /\ Abandon(j, 0)
  /\ UNCHANGED <<running, known, mapped, image, loader>>

\* Variation: the loop is left although create_thread has failed.
SpawnAnyway(j) ==
  /\ At(j, "spawn")
  /\ \/ /\ running /\ Goto(j, "poll")
        /\ lpc' = [lpc EXCEPT ![j] = "setup"]
     \/ Abandon(j, 0) /\ UNCHANGED lpc
  /\ UNCHANGED <<running, known, mapped, image, ldrdone, started>>

\* create_thread
Spawn(j) ==
  /\ At(j, "spawn")
  /\ \/ /\ running /\ Goto(j, "poll")
        /\ lpc' = [lpc EXCEPT ![j] = "setup"]
     \/ Abandon(j, 1) /\ UNCHANGED lpc
  /\ UNCHANGED <<running, known, mapped, image, ldrdone, started>>

\* Variation: the loop does not look at the byte it reads.
PollOnce(j) ==
  /\ At(j, "poll")
  /\ \/ running /\ Abandon(j, 0)
     \/ ~running /\ Abandon(j, 1)
  /\ UNCHANGED <<running, known, mapped, image, loader>>

\* Variation: the loop does not look at the result of its read.
PollForEver(j) ==
  /\ At(j, "poll") /\ running /\ ldrdone[j] /\ Abandon(j, 0)
  /\ UNCHANGED <<running, known, mapped, image, loader>>

\* The read that ends the loop.
Poll(j) ==
  /\ At(j, "poll")
  /\ \/ running /\ ldrdone[j] /\ Abandon(j, 0)
     \/ ~running /\ Abandon(j, 1)
  /\ UNCHANGED <<running, known, mapped, image, loader>>

FreeLoader(j) ==
  /\ At(j, "free")
  /\ Deallocate(j, "loader")
  /\ Goto(j, "freeStack")
  /\ UNCHANGED <<running, known, image, loader>>

\* Variation: the stack stays when something has failed.
FreeStackOnSuccess(j) ==
  /\ At(j, "freeStack")
  /\ mapped' = IF r[j] = 0 THEN mapped \ {<<j, "stack">>} ELSE mapped
  /\ Return(j, r[j])
  /\ UNCHANGED <<running, known, image, loader>>

FreeStack(j) ==
  /\ At(j, "freeStack")
  /\ Deallocate(j, "stack")
  /\ Return(j, r[j])
  /\ UNCHANGED <<running, known, image, loader>>

Serve(j) ==
  \/ AllocateCode(j) \/ WriteCode(j) \/ Unprotect(j)
  \/ AllocateLoader(j) \/ AllocateStack(j)
  \/ Write(j, "rpcldr", "find") \/ FindLibkernel(j) \/ Write(j, "fields", "spawn")
  \/ Spawn(j) \/ Poll(j) \/ FreeLoader(j) \/ FreeStack(j)

-----------------------------------------------------------------------------
(* The loader thread, rpcldr                                                *)

InPlace(j) == {<<j, "loader">>, <<j, "stack">>} \subseteq mapped

LoaderAt(j, l) == running /\ lpc[j] = l /\ InPlace(j)
LoaderGoto(j, l) == lpc' = [lpc EXCEPT ![j] = l]

\* _thr_initial, scePthreadAttrInit, scePthreadAttrSetstacksize
Setup(j) ==
  /\ LoaderAt(j, "setup") /\ LoaderGoto(j, "create")
  /\ UNCHANGED <<running, known, mapped, image, server, ldrdone, started>>

\* scePthreadCreate, whose result is not looked at
Create(j) ==
  /\ LoaderAt(j, "create") /\ LoaderGoto(j, "report")
  /\ \E s \in {"yes", "refused"} : started' = [started EXCEPT ![j] = s]
  /\ UNCHANGED <<running, known, mapped, image, server, ldrdone>>

\* mov ldrdone, 1
Report(j) ==
  /\ LoaderAt(j, "report") /\ LoaderGoto(j, "leave")
  /\ ldrdone' = [ldrdone EXCEPT ![j] = TRUE]
  /\ UNCHANGED <<running, known, mapped, image, server, started>>

\* The call of thr_exit, from the loader's code and on its stack.
Leave(j) ==
  /\ LoaderAt(j, "leave") /\ LoaderGoto(j, "exited")
  /\ UNCHANGED <<running, known, mapped, image, server, ldrdone, started>>

\* A page fault in the loader ends the process.
Fault(j) ==
  /\ running /\ lpc[j] \notin {"none", "exited"} /\ ~InPlace(j)
  /\ running' = FALSE
  /\ UNCHANGED <<known, mapped, image, server, loader>>

End ==
  /\ running /\ running' = FALSE
  /\ UNCHANGED <<known, mapped, image, server, loader>>

Load(j) == Setup(j) \/ Create(j) \/ Report(j) \/ Leave(j) \/ Fault(j)

Next ==
  \/ \E j \in Jobs, e \in Elfs \cup {Stub} : Request(j, e)
  \/ \E j \in Jobs : Serve(j) \/ Load(j)
  \/ End

SafeSpec == Init /\ [][Next]_vars

\* The threads of the server and of the process are scheduled.
Spec == SafeSpec /\ \A j \in Jobs : WF_vars(Serve(j)) /\ WF_vars(Load(j))

-----------------------------------------------------------------------------
\* Every field keeps its range, and the memory of an image is whole pages.
TypeOK ==
  /\ running \in BOOLEAN /\ known \in BOOLEAN /\ opened \in BOOLEAN
  /\ mapped \subseteq Jobs \X Regions
  /\ work \in [Jobs -> Elfs \cup {Stub}]
  /\ \A j \in Jobs :
       size[j] \in Nat /\ size[j] % Page = 0 /\ written[j] \subseteq Nat
  /\ kpc \in [Jobs -> {"idle", "code", "write", "protect", "loader", "stack", "rpcldr",
                       "find", "fields", "spawn", "poll", "free", "freeStack", "returned"}]
  /\ r \in [Jobs -> 0..1]
  /\ lpc \in [Jobs -> {"none", "setup", "create", "report", "leave", "exited"}]
  /\ ldrdone \in [Jobs -> BOOLEAN]
  /\ started \in [Jobs -> {"no", "yes", "refused"}]
  /\ answer \in [Jobs -> {"none", "success", "error"}]

\* proc_map_elf and proc_relocate_elf stay inside what proc_load_elf has
\* allocated, and sys_proc_install_handle inside the memory for its stub.
WritesInside == \A j \in Jobs : \A a \in written[j] : a < size[j]

\* A request is answered with success only after its loader has called
\* scePthreadCreate, except where the tables do not know the libkernel.
SuccessMeansLoaderRan ==
  \A j \in Jobs : answer[j] = "success" /\ known => started[j] # "no"

\* Whatever fails, loader and stack are gone when proc_create_thread returns.
TemporariesFreed ==
  \A j \in Jobs : kpc[j] = "returned" =>
    mapped \cap {<<j, "loader">>, <<j, "stack">>} = {}

\* No thread is robbed of its code: a loader that has not yet reported keeps
\* loader and stack, and a started thread keeps its image.
CodeStays ==
  \A j \in Jobs :
    /\ running /\ lpc[j] \in {"setup", "create", "report"} => InPlace(j)
    /\ started[j] = "yes" => <<j, "code">> \in mapped

\* Every request is answered, whatever fails and even if the process ends.
EveryRequestReturns ==
  \A j \in Jobs : kpc[j] # "idle" ~> kpc[j] = "returned"

=============================================================================
