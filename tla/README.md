# A verification project for ps4debug

ps4debug is a debugger for the PlayStation 4. A tool on a PC connects over TCP
to a server that runs in a process of the console; the server executes the
tool's commands with `ptrace` and with six system calls that a kernel part
(kdebugger) adds. This directory holds TLA+ modules translated from that code,
the TLC configurations that check them on small instances, and theorems that
TLAPS proves for every value of the constants.

## Inventory

| component | state | operations | talks to |
|---|---|---|---|
| client slots and handler threads (`debugger/source/server.c`) | `servclients[8]`: id, fd, client address, debugging, dbgctx; one thread per connection | `start_server` (accept loop), `alloc_client`, `handle_client`, `free_client` | tools by TCP; the handlers call everything below |
| debugger session (`ddebug.c`, `server.c`, `console.c`) | `g_debugging`, `curdbgcli`, `curdbgctx`, no lock; the ptrace state of the process | `debug_attach_handle`, `connect_debugger`, `debug_detach_handle`, `debug_cleanup`, `check_debug_interrupt`, `console_reboot_handle` | handler threads share the globals; interrupts go to the tool on a second socket |
| software breakpoints (`ddebug.c`, `server.c`) | `dbgctx.breakpoints[30]`, the code bytes of the process | `debug_breakpt_handle`, `check_debug_interrupt`, `debug_stopgo_handle`, `debug_cleanup` | threads of the process run beside the handler |
| watchpoints (`ddebug.c`) | `dbgctx.watchdata` (DR0-3, DR7), debug registers of each thread | `debug_watchpt_handle`, `debug_cleanup` | ptrace |
| command protocol (`server.c`, `net.c`, `proc.c`, `ddebug.c`, `kern.c`, `console.c`) | the two byte streams of a connection | `cmd_handler` and some forty handlers, `net_send_data`, `net_recv_data` | the tool, kdebugger |
| process scan (`proc.c`, `compare.c`) | page buffer, growing list of addresses | `proc_scan_handle`, `CompareProcScanValues` and twelve comparisons | kdebugger for memory and maps |
| RPC stub (`kdebugger/source/hooks.c`, `include/rpcasm.h`) | registers, go, done and rax in the memory of the process | `sys_proc_install_handle`, `sys_proc_call_handle`, the stub's thread | handlers of all clients share a stub |
| kernel system calls (`kdebugger/source/hooks.c`) | the process list and memory maps of the kernel | `sys_proc_list`, `sys_proc_rw`, `sys_proc_cmd`, `sys_kern_base`, `sys_kern_rw`, `sys_console_cmd` | the server |
| process loader (`kdebugger/source/proc.c`, `elf.c`) | memory map of the target, rpcldr header | `proc_allocate`, `proc_create_thread`, `proc_load_elf` | the target process |
| installer (`installer/source`, `kdebugger/source/main.c`, `hooks.c`) | kernel code bytes, CR0.WP of each CPU, the system call table, the memory of SceShellCore at `PAYLOAD_BASE` | `runinstaller`, `patch_kernel`, `load_kdebugger`, `install_hooks`, `load_debugger` | starts the server; may be sent again while it serves |
| firmware tables (`ps4-ksdk`, the `patch_*` functions, both copies of `proc_create_thread`) | `cachedFirmware`, function pointers | `kget_firmware_from_base`, `init_ksdk`, the switches on the version | everything in the kernel |
| payload SDK (`ps4-payload-sdk`) | resolved function pointers | `initKernel`, `initLibc`, `initNetwork`, ... | the debugger's start-up |
| broadcast responder, drafts under `Experimental` and `TODO_COMING` | none that the rest depends on | echo of a magic word; unfinished code | - |

What is hard: handler threads run with no lock between them, and three globals name
the one session there is; a slot is given back before it is torn down; a tool may
vanish at every point, also in the middle of a transfer; a stop of the debugged
process is handled some time after it happened; half of an attach may succeed;
threads of the process come and go between the calls that list and change them; its
memory map changes between the calls that read it; write protection belongs to a CPU
and not to a thread; a payload may be sent again while the first one serves.
`PROJECT.json` lists each such hazard with its line and with the properties that
watch it, or why none does yet.

What makes each component correct:

- slots: a slot and its socket belong to one handler from accept to `free_client`;
- session: at most one session, whose three globals, slot, channel and traced
  process agree; it ends when its client leaves; nobody follows a null global;
- breakpoints: the process has its own code but for the planted bytes, and all
  of it once nobody debugs it;
- protocol: each answer belongs to the request it follows, nothing is written
  that was not received, every request is answered, every leaver's handler ends;
- watchpoints: the context is what was asked, every thread agrees with it after
  CMD_SUCCESS, and no watchpoint is left after a session;
- scan: reported addresses are those whose memory satisfies the comparison, and
  nothing is accessed outside list, page buffer and map;
- installer: every write finds write protection off and protection comes back;
  the tables used are those of the console's version; once the debugger serves,
  its memory, its system calls and the patches are complete;
- RPC: a caller gets the result of its own call;
- loader: nothing is written outside what was allocated, nothing temporary is
  left behind, no thread loses its code, success means the code was started.

## Modules

**DebugServer** models slots, threads and session together. One connection is
its socket and its thread; `pc[c]` names the statement that thread executes
next. An action is one access to a shared variable, or one ptrace or socket
call, with the local code around it: `FreeId`, `FreeClose`, `FreeTest` and
`FreeWipe` are the four statements of `free_client`; `CheckAttach` to
`AttachBind` follow an attach through `handle_client`, `debug_attach_handle`
and `connect_debugger`; `ClearDebugging` to `Release` are `debug_cleanup`, whose
three callers differ in `after[c]`. `Crash` stands for a null pointer. The
session fields of a slot are `debugging`, `ctxPid` and `chan`; `target` is what
ptrace makes of each process. Commands that touch none of this are
`DebugCommand` (they read `curdbgctx->pid`) and `RecvInvalid` (they end in the
error path); others change nothing and have no action.

**DebugRaces** extends it with two history variables that guard nothing: every
behaviour of DebugServer is one of DebugRaces. The server has no lock, so its
threads do meet in ways that break it; the module names those meetings, and its
properties say what holds until the first of them. `stolen` remembers that a
connection was given the slot of a running `free_client` (`SlotTaken`), `disturbed`
that one of four others happened: an attach that passes a test of `g_debugging`
while another thread works on the session, or with globals that are not its own
(`Overtaken`), a debug command of a client without a session or a reboot that cleans
up after somebody else (`Uninvited`), the report of a SIGKILL (`Signalled`), a
freed payload overwritten between `PT_ATTACH` and the last reading of its pid
(`Overwritten`). Attaches that are refused while somebody attaches, debugs or is
cleaned up after are no meetings, nor is anything a client does by leaving, or a
failing call.

**DebuggerPromise** is the abstract debugger: one session that begins, opens,
closes and is released, and processes leaked by failed attaches. A reboot abandons
the session and ends where the server does or goes on.
`DebugRaces!OneSessionAtATime` maps the threads to it: the owner is the client
that attaches, is active or is being cleaned up after.

**Breakpoints** models the table and the code bytes with one handler and many
threads of the process. The original byte at address a of process p is the pair
<<p, a>>, so that a byte in the wrong place is recognised. The wait of
`check_debug_interrupt` for its single step may be answered by another thread
(`StepInterrupted`).

**Commands** models one connection as scripts. A handler is the set of its
possible scripts: what it sends (`Ok`, `Err`, `Data`, `End`), receives (`Take`),
writes out (`Apply`) and returns (`Keep`, `Drop`), one script for each way its
allocations and system calls turn out. The tool, external, knows the script of
success (`Wants`) and accepts an error in place of a status. Bytes are counted;
their values are left out. A reset is reported once by the socket; after that,
as after an orderly close, reads return 0, and `net_recv_data` reads on.

**RpcCall** models one stub in a process and the handler threads that call
through it. Shared state is `struct rpcstub_header`: `regs`, `go`, `done`, `rax`.
`pc[t]` is where a caller stands in `sys_proc_call_handle` (one action per copy
to or from the process, the registers word by word), `spc` where the stub thread
stands in its loop, instruction by instruction where the header is touched. A
call stands for its registers and for its result, so that a register or a result
of another call is recognised. `Fail` is any copy after the process has ended;
`proc_call_handle` answers it with zero.

**RemoteCall** is the abstract call: asked, entered, returned, answered, or
failed at any point; one function at a time. `RpcCall!CallsAreAtomic` maps to it.

**Loader** models requests to put code into a process, `CMD_PROC_INSTALL` with the
stub and `CMD_PROC_ELF` with an image. `kpc[j]` is the statement of the handler in
`sys_proc_*_handle` or `proc_create_thread`, `lpc[j]` the loader thread `rpcldr`,
`mapped` the three regions each request allocates. An image is the set of its
segments (or sections) and of the offsets of its relocations, at each of which
`Pointer` bytes are written; `size` and `written` hold what `elf_mapped_size`
computes and what `proc_map_elf` and `proc_relocate_elf` write. The firmware tables
shrink to `known`: whether they give the addresses in the process's libkernel.

**Watchpoints** models `debug_watchpt_handle` call by call (`Count`, `List`,
`Record`, `SetThread` for each thread) against a process that creates and ends
threads in between (`Spawn`, `Exit`). `watchdata` is the context of the client,
`regs[t]` what thread t has; dr7 is the set of its bits that are 1, so that
`DBREG_DR7_MASK` and `DBREG_DR7_SET` are set operations on places. `Watched`
decodes an index the way the processor does. `asked` remembers what the tool's
requests have come to, `late` which threads are newer than the count.

**ProcScan** models `proc_scan_handle`: the two calls that read the map, the
allocations, then one action for each turn of the inner loop (`ScanValue`: read
at a page boundary, compare, grow the list, append). The process, a sequence of
sections with their bytes, is cut or extended while the map is read
(`ChangeMap`). A value whose length does not divide the page is compared past the end
of the page buffer: what lies there is not the scan's, and the comparison may come out
either way (`Outcomes`). The comparisons of `compare.c` work on little-endian numbers of
Byte-valued bytes, with their width and C's promotions.

**Firmware** holds the tables: where each version's kernel has the word it is
recognised by, the symbols `init_ksdk` picks, where `patch_kernel` patches, and
the rows of the loaders, one per kind of libkernel and version, in the copies of
kdebugger and of the installer, which `CopiesAgree` states to be equal.

**Boot** composes them: threads that run `runinstaller` step by step (`Start` to
`Finish`), with `payload_entry` and `install_hooks` of kdebugger in the middle, the
debugger's `_main` (`Startup`, one `Resolve` per call) and, once it serves, handler
threads in `sys_kern_rw` (`KernWrite`, `KernCopy`, `KernProtect`) and `sys_proc_cmd`
(`Load`). `wp[c]` is CR0.WP of a CPU, `cpu[t]` the CPU that thread t is on between
its `cpu_disable_wp` and its `cpu_enable_wp`, which the scheduler may change at any
point (`Move`), `text` the patches in place, `sysent` the hooked entries, `payload`
the memory of SceShellCore. A step with the table of another version, a write to
protected memory, a jump into memory without execute permission and a call of
something not resolved end in `down`.

**BootRaces** extends it with three history variables that guard nothing: a thread was
`moved` to another CPU while it had write protection off, two such threads `shared` a
CPU, or kdebugger was `called` while a payload was hooking its calls
(`install_syscall` clears an entry before it fills it). The kernel part neither pins
nor locks anything, so each of the three happens; the properties say that nothing
else brings a console down, or leaves protection off.

`MC*` modules give TLC its symmetry sets and derived constants; `*Proofs`
modules hold the theorems.

## Assumptions

Constants, and conditions on them, stand for what the tools and the environment do:

- `Faults` names what the environment may do wrong in a run. Left out
  everywhere: `PT_DETACH` failing, a descriptor number used again while its old
  owner still closes it, the end of the debugged process by itself.
- `Tidy`: the tool uses one index for one address, disables it before it is
  moved, and makes a new connection for each attach.
- `TakeTurns` (RpcCall): one call through a stub at a time. Nothing in the code
  enforces it; without it two callers mix their registers and take each other's
  result (`AnswersOwn` is false with `TakeTurns = FALSE`).
- `Debugger` (RpcCall): the caller whose connection also debugs the process, or
  `Nobody`. If it is a caller, its handler waits in the call for a stub that only
  the same handler could resume, and `EveryCallReturns` is false.
- `Tidy` (Watchpoints): each session has a new connection. A second attach on one
  connection starts with the watchpoints of the last one in its context.
- `WellFormed` (ProcScan): a value has at least one byte, and the bytes a comparison
  reads were sent. `proc_scan_handle` checks neither; with a length of 0 the loop
  does not end. Entries of the map that the second call did not fill hold what
  `pfmalloc` found and are taken for unreadable.
- `Kernel(v)` (Boot): a console has its functions where the table of its own version
  says. `SdkOf` maps several versions to one table, as the code does. `Overlapping`
  names the versions on which payloads may be sent before another has returned.
- `WellFormed` (Loader): an image has finitely many parts, a part's size in the file
  is at most its size in memory, and the pointers that are relocated lie inside a
  part. The code checks neither of the last two; it trusts the linker that made the
  image.

The server and the kernel part get no such help. Which thread runs next, who
attaches when, which CPU a thread is on and when a payload is sent are free in
DebugServer and Boot, and the histories of DebugRaces and BootRaces stand in the
properties, not in the guards. Three CONSTRAINTs bound TLC's search, not the theorems,
at states after which the properties have nothing left to say: `Unstolen` in Race,
`Quiet` (no meeting yet) in Meetings, and `Undisturbed` (neither `moved` nor `called`)
in Install, where it also cuts what `ServerHasItsKernel` and, after a call,
`WriteProtected` still say; these two are proved without it.

That the meetings are needed, each of them, was tried by taking them out of
`Disturbance` one at a time. Without `Uninvited` or `Signalled` `CrashHasCause` is
violated (a detach or a command without a session; `FinalKill`); without the parts of
`Overtaken` `InconsistencyHasCause` is; without the reboot of `Uninvited` or without
`Overwritten` `OneSessionAtATime` is. In BootRaces `CrashHasCause` is violated without
any one of `moved`, `shared` and `called`, `WriteProtected` without `moved`.

## Runs

| run | instance | result |
|---|---|---|
| Race | 3 connections, 2 slots, 1 debugger, all faults | `TypeOK`, `SlotsLostByAccept` hold |
| Meetings | 2 debugger connections, 2 slots, all faults | `CrashHasCause`, `InconsistencyHasCause`, `AttachAnswersOwner`, `OneSessionAtATime`, `LeaverEndsSession`, `LeaverIsFreed` hold |
| FailedConnect | as Meetings, only the connect fails | `AlreadyDebugTruthful` is violated: `g_debugging` stays set after a failed connect |
| TidyTool | 3 indices, 3 addresses, 2 processes, 2 threads | `TypeOK`, `CodeIntact`, `AllDisabled` hold |
| Dialogue | all commands but protect, up to 3 bytes in chunks of 2, failing allocations and kernel calls | `TypeOK`, `InSync`, `NoStandoff`, `ConfusedIsDropped`, `InventedAfterReset`, `EveryRequestAnswered`, `LeaverIsDropped` hold |
| Turns | 2 callers that take turns, 3 calls, 2 registers, 2 stops of the process | `TypeOK`, `AnswersOwn`, `CallsAreAtomic`, `EveryCallReturns` hold |
| Load | 2 requests among the stub, an image of segments with a bss, an image of sections that fill their page, pointers of 2 bytes; every step may fail | `TypeOK`, `WritesInside`, `SuccessMeansLoaderRan`, `TemporariesFreed`, `CodeStays`, `EveryRequestReturns` hold |
| Install | a payload sent twice to consoles of 14 versions, at once on 9.00; one handler thread, 2 CPUs; every fallible step may fail | `TypeOK`, `CrashHasCause`, `WriteProtected`, `ServerHasItsKernel`, `InstalledServes` hold |
| Scan | 12 comparisons, 7 types, 4 sections that come and go, pages of 4 bytes, lists that grow by 2, byte arrays of 2, 3 and 5; failing maps, allocations, reads | `TypeOK`, `FirstPagesExact`, `InsideItsBuffers`, `EveryScanEnds` hold |
| ScanFirstPage | as Scan, no faults, lengths that divide the page | `EveryPageExact` is violated: every page of a section is compared in the bytes of the first |
| Watch | 2 indices, 2 addresses, 3 threads that come and go | `TypeOK`, `ContextIsAsked`, `ThreadsWatchWhatWasAsked` hold |
| WatchLeft | as Watch, 2 lengths | `NoTrapLeft` is violated: a detach leaves the debug registers of the threads |

The bounds are small and enough for the cases that matter: with three connections
and two slots a slot is reused while another is busy and the table fills up; two
debugger clients meet in every pair of program points (a second process or a third
connection in Meetings takes TLC more than five minutes; the theorems have neither
bound); two indices can share an address and a third is free; two threads let one
hit a breakpoint while the other is stepped over one; three bytes in chunks of two
give transfers of one and of two chunks, the last full and not full. In Turns a stub
serves three calls one after another, so that flags and results of an earlier call
meet a later one, two registers let a call be half written, and two stops fall at
any two points. A page of 4 bytes and parts that end inside, at and beyond a page
reach both cases of the rounding, and a pointer ends where its image does. In Scan a
section of two pages is followed by an unreadable one and two of one page, so that
the buffer holds bytes of another section; every comparison meets values on both
sides of it, with a carry in the widest type; four hits make a list of two grow
twice; lengths of 3 and 5 let a value straddle a page's end. In Watch a watchpoint
moves between two addresses, three threads let one end, one come and one stay within
a request, and two indices are neighbours in dr7. Install takes one version of each
kernel and an unknown one; two payloads meet at every pair of points on one version,
since nothing about their meeting depends on the version. Connections are used once,
so each run is finite. Deadlock is not checked: tools may stop asking, and a server
that crashed or was rebooted stops.

Fairness: weak fairness of the accept thread and of each handler thread, since the
kernel schedules them and no action of theirs waits for another thread; none of a
tool in DebugServer. In Commands the tool too is fair, in reading answers and
sending what it owes, but never has to ask or to hang up. In RpcCall and Loader the
handlers and the threads of the process are weakly fair, which makes called
functions return, and RpcCall's debugger resumes what it stopped; the stops are
finite (`MaxStops`). In Loader nobody stops the process: with a stop that lasts, the
loop on `ldrdone` would not end. In ProcScan the handler is fair. In Boot payloads
that were sent are fair, as are the debugger's start-up and a handler thread inside
`sys_kern_rw`; no payload has to be sent and no command to be asked.

## What the code gets wrong

Three runs expect a violation and show it; each is a finding in `PROJECT.json`:
`FailedConnect` (`ddebug.c:502`), `ScanFirstPage` (`proc.c:520`), `WatchLeft`
(`ddebug.c:544`). Further gaps met while modelling have no run of their own:

- the SIGKILL branch of `check_debug_interrupt` reads `curdbgctx->pid` after
  `debug_cleanup` has set `curdbgctx` to NULL (`server.c:87`; `FinalKill` models it);
- without `Tidy`, two indices on one address or a second attach leave an int3 or a
  foreign byte in a process (`AllDisabled` is false with `Tidy = FALSE`);
- a breakpoint disabled while its stop waits to be reported is taken for a hardware
  one, and the thread goes on behind the int3 (`server.c:130`);
- a reset between the status and the data of a write has the handler write a buffer
  it never received (`proc.c:112`); `InventedAfterReset` says it takes a reset;
- the loader's code and stack are freed when it has set `ldrdone`, a few
  instructions before it exits (`kdebugger/source/proc.c:709`);
- `patch_kernel` has no case for 7.50, 7.51 and 7.55 although detection and tables
  know them (and `Patch755` is there): the memory kdebugger runs in stays without
  execute permission. 7.01 and 7.02 are detected as 7.00, whose word is at the same
  place and is tried first, and get its rows of the loaders, which differ from their own. `Served`
  leaves these five versions out of `CrashHasCause` and `InstalledServes`;
- on 7.00 the patch of `vm_map_protect` is at 0x264C08 and the table has the
  function at 0x36AE90; `ServerHasItsKernel` excepts it.

## Proofs

`DebugServerProofs` assumes nothing about tools, scheduling or faults. `TypeCorrect`
proves `TypeOK`, and `SlotsStayOwned` proves `SlotsLostByAccept`, for any number of
slots, connections and processes: `SlotOwned` holds until a connection is accepted
inside a `free_client`, whatever else meets. `SlotOwned` says that slots of
handlers differ, that slot and socket belong together, and that a slot whose
handler has not begun to free is in use, which is what `FirstFree` relies on. It
is inductive once `SlotInv` adds that a connection whose descriptor the accept
loop has just stored is the one its slot holds. The step of `Accept` is the only one
that needs the history: either a handler is freeing the slot, and the step sets
`stolen`, or none is.

Its second half is on the session. `ServerSurvives`, `SessionStaysConsistent` and
`SuccessGoesToOwner` prove `CrashHasCause`, `InconsistencyHasCause` and
`AttachAnswersOwner`, and `SessionsImplementPromise` proves `OneSessionAtATime`, for
any number of slots, connections and processes, every fault included: until the
first meeting the server survives, its state agrees and it implements
DebuggerPromise. The invariant (`SessionInv`, kept while `Calm`) says that at most one
thread is inside the debugger and no slot but its own is marked, that the globals
are set wherever `g_debugging` is, and, statement by statement of an attach and of
a `debug_cleanup`, what the thread relies on: which globals are its own already,
that the process it is about is traced, that the mark is gone before the globals
are (`AttachStage`, `CommandStage`, `Holding`, `Closing`). A failed connect leaves
`g_debugging` set with nobody marked, which is why the mark and the flag are
separate parts. That one thread is inside is not given: an attach comes in only past
both tests of `g_debugging`, and where it passes them beside another one the step is
`Overtaken`; everywhere else the tests turn it away, which is what the invariant shows.
A step of the thread inside disturbs nobody else (`InsideStep`), a
step outside disturbs only its thread (`ThreadStep`). For the refinement, a step is
hidden when every connection shows the same before and after it (`HiddenStep`);
`AttachTrace`, a failing `AttachContinue` or `AttachConnect`, `AttachBind`,
`ClearDebugging`, `Release` and the reboot are seen, each one step of the promise.

`BreakpointsProofs`: from `Tidy`, for any number of indices, addresses, processes
and threads, `CodeStaysIntact`, and `CleanupRestores` prove `CodeIntact` and
`AllDisabled`. The inductive invariant adds that what the table would write back is
the byte the process came with (`SavedStaysOriginal`), that an address has one
entry, that an enabled entry has an address, that the breakpoint being stepped over
is planted, and that a pending stop is at an address that held an int3.

`RpcCallProofs`: `TypeCorrect` needs no assumption on the tools; from `TakeTurns`,
for any number of callers, calls and registers, `AnswersAreOwn` and
`CallsImplementPromise` prove `AnswersOwn` and the refinement of RemoteCall. The
invariant (`TurnInv`) names the stage of header and stub for each point of the one
caller in the system call: nothing pending while it copies, the request pending,
finished or unreported while it polls, its result in rax afterwards; and that
nothing is pending when nobody calls. The refinement adds `MadeInv`: what header
and stub hold comes from calls that were made, and rax is not yet that of a call
which has not returned. `LoopWaitsForCall` is a by-product: a caller that has left
its loop finds its own result.

`LoaderProofs`: `NothingTemporaryStays` and `ThreadsKeepTheirCode` prove
`TemporariesFreed` and `CodeStays` for any number of requests at once and for
every image. The invariant is one per request (`JobInv`): while the loader has not
reported, its handler is in the poll loop or the process is gone (`Paired`), and
what is mapped follows from the statement the handler is at (`Memory`); a step of
one request leaves the invariant of the others alone (`OthersKeep`).
`SuccessIsEarned` proves `SuccessMeansLoaderRan`: a loader that has come to its
report has made the thread, and on a known libkernel so has that of a handler about
to return 0 (`Earned`). `WritesStayInside` proves `WritesInside` for images of any
number of parts and any size: `elf_mapped_size` is at least the end of every part
(`SizeCovers`, from `Greatest`: a finite set of numbers has a greatest one), the
rounding only adds to it, and nothing is written before memory of that size is there
(`SpaceInv`). `LoaderTypes` proves `TypeOK`, which includes that the size asked for is
whole pages.

`CommandsProofs`: for any commands, lengths and faults, `CommandsTypes` and
`NothingInvented` prove `TypeOK` and `InventedAfterReset`: an unfilled buffer is
used as a payload or applied only after a reset, when the tool is gone. Without
CMD_PROC_PROTECT, whose handler sends CMD_SUCCESS and then CMD_DATA_NULL,
`ToolInSync` (an idle tool has had every answer, and no handler has one left to send),
`NobodyStandsOff` (a tool that waits for an answer and a handler that waits for bytes
never face each other with nothing on its way) and `ConfusedEnds` (where a tool met an
answer it did not expect, the handler is about to drop it) prove `InSync`,
`NoStandoff` and `ConfusedIsDropped`. The
argument of the three (`ScriptsMeetTool`) is that the answers on their way and the
letters left of the running script are one stream, and that this stream meets,
letter by letter and with the bytes on their way to the server between, what the
tool has still to receive and to send (`Dialogue`). Each handler's scripts are
shown to be one side of a form of the protocol: success and its answers, a failure
before success, a failure after the tool has sent its data, or the second failure
of a scan, after which only the drop follows (`ConfusedIsDropped`). The chunk loops
of CMD_PROC_READ, CMD_PROC_WRITE and the kernel's are arithmetic on the pieces: as
many are received as were asked for, and no more. An `apply` finds nothing
on its way to the tool (`Settled`), because the bytes it writes were sent after
the last answer was read. What ends a connection is in `Ends` and `Running`: where
a reset makes up bytes the tool is gone, hence junk is met only then.

`BootProofs`, for any number of payloads, handler threads and CPUs, any scheduling and
every fault: `ProtectionComesBack` proves `WriteProtected`, that until a thread is
moved protection is off only where a section without it is running, and
`EveryWriteGoesThrough` proves `WritesGoThrough`, that each patch, hook and kernel
write finds it off until a thread is moved or two share a CPU. The invariant says that
a thread in a section is on a CPU and that, until one is moved, protection is off
nowhere else; and that until two have shared one, it is off where such a thread is.

`BootTypes`, `ServingMeansInstalled` and `ConsolesGoDownOfThree` prove `TypeOK`,
`ServerHasItsKernel` and `CrashHasCause`, the first two with threads moved, sharing and
calling at will. They are
proved about the tables of Firmware as they are in the code: that `Detect` finds each
of its versions, that versions served by one kernel have equal rows, and that each
of the 13 places patched on a version lies in the function it is meant for, eight
bytes at least from the next (`PatchIs`, `Rising`). The invariant of the installer
(`Core`) says what each statement of `runinstaller` leaves behind it: the version and
the row that were found, the patches, the entries that are hooked, the payload's
memory, and how far the debugger's start has got. A console that is served is up
because whatever is jumped into or called by then is executable, resolved and of
this version (`Prepared`), and because every write finds protection off, until one of
the three happens. 7.00 is
excepted where `ServerHasItsKernel` excepts it: its rows in installer and ksdk differ.

`ProcScanProofs`: for requests of any positive length, any process, page, list size and
faults, `TypesHold` and `BuffersHold` prove `TypeOK` and `InsideItsBuffers`: the list is
never written past its room nor the map read past its entries, and a length that divides
the page keeps every comparison inside the page buffer. For the last, the invariant
adds that the offset is a multiple of the value's size, and (`Whole`) that such a value
then ends inside its page; for the others, that a section has a first page to read, and
that the list has room for
one more entry whenever the loop begins a turn (`ListFits`). `FirstPagesAreExact` proves
`FirstPagesExact` for any number of sections and whatever a comparison does: the
invariant (`EInv`) says of the first page of each section, up to where the scan has
come (`Seen`), that the list has exactly the addresses whose values compare as asked
(`Exact`), that everything listed lies before the scan (`Behind`), and that within a
first page the buffer holds that page (`Buffered`). Beyond it nothing of the kind
holds: ScanFirstPage refutes it.

`WatchpointsProofs`: from `Tidy`, for any number of threads, addresses, lengths and
kinds and up to four indices, `ContextHolds` and `SuccessHolds` prove
`ContextIsAsked` and `ThreadsWatchWhatWasAsked`; `TypesHold` needs no assumption.
The lemmas on dr7 show that setting one index leaves the field of every other
alone and reads back as what was set. The invariant follows the loop: threads
before `k` that are alive and not late have the context's registers.

The proofs take from the constants only the named assumptions of the modules.
Liveness (`LeaverIsFreed`, `LeaverEndsSession`, `EveryRequestAnswered`,
`LeaverIsDropped`, `EveryCallReturns`, `EveryRequestReturns`, `EveryScanEnds`,
`InstalledServes`) is out of the prover's reach and checked by TLC only. Every
invariant and every refinement that a passing run checks is proved for all values of
the constants, under the assumptions named above: `CodeStaysIntact` and its
neighbours for a tidy tool, the calls for callers that take turns, `ToolInSync`,
`NobodyStandsOff` and `ConfusedEnds` without CMD_PROC_PROTECT. The session and the
boot are proved from no assumption; their meetings are part of the statements. The
comparisons of `Compare` are left unexpanded in the proofs; what they compute is
checked by TLC.

## Plan

1. Done: DebugServer with DebugRaces and DebuggerPromise, Breakpoints, Commands, RpcCall with
   RemoteCall, Loader, Watchpoints, ProcScan, Firmware and Boot with BootRaces, and eight proof
   modules.
2. Done: a proof of every invariant and refinement that a passing run checks.
3. Kernel system calls: alloc, free and protect on a memory map, with their
   rounding, and what is answered when they fail.

## Not modelled

The memory maps of the kernel: the search of `proc_allocate` for a free range,
whose hole is asked for `size` and filled with `size` rounded up
(`kdebugger/source/proc.c:137`), and the vm map call. The stub's own search for
`sceKernelUsleep`, headers in pieces, writes that would block, memory leaks,
descriptor reuse, the values of answers. Floating point and 64 bit values in a
scan: TLC's integers have 32 bits, and the types differ only in width. The bytes
a patch writes, and the 51 symbols of a kernel that nothing but a call uses: a
wrong one shows only on a console. The broadcast thread shares no state with the
rest; console output has no state; the drafts under `Experimental` and
`TODO_COMING` are compiled by no build. Of the payload SDK only the functions
the debugger's start calls are modelled; the rest wraps system calls one to one.
