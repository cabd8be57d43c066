-------------------------------- MODULE Boot --------------------------------
(***************************************************************************)
(* Bringing the debugger up: the payload sent to a console (an installer)   *)
(* finds the kernel's version, patches the kernel, loads kdebugger into it, *)
(* which hooks six system calls, and starts the debugger in SceShellCore;   *)
(* the debugger resolves its libraries and serves.  A payload may be sent   *)
(* again, before or after the first one is done.  Once the debugger serves, *)
(* its handler threads write kernel memory and load code into processes.    *)
(***************************************************************************)
EXTENDS Firmware, FiniteSets

CONSTANTS
  Consoles,      \* versions of the consoles looked at
  Overlapping,   \* those where payloads are sent before another has returned
  Installers,    \* payloads sent
  Writers,       \* handler threads that serve a CMD_KERN_WRITE
  Cpus, NoCpu,
  Faults         \* what may fail: "alloc", "find", "map", "write", "thread"

ASSUME BootAssumption ==
  /\ Overlapping \subseteq Consoles /\ Consoles \subseteq Nat \ {0}
  /\ Cpus # {} /\ NoCpu \notin Cpus
  /\ Faults \subseteq {"alloc", "find", "map", "write", "thread"}
  /\ Installers \cap (Writers \cup {"original", "clear"}) = {}

Threads == Installers \cup Writers
Syscalls == 107..112
JailbreakCall == 112
WriteCall == 111

\* Kinds of processes, by the libkernel they have.
TableOf == [game |-> Sprx, web |-> Web, system |-> Sys]

\* What kget_firmware_from_base finds on each console.
Found == [v \in Consoles |-> Detect(v)]

\* The functions of the kernel of a console are where the table of its own
\* version has them.
Kernel(v) == SdkOf(v)

VARIABLES
  fw,         \* version of the console
  pc,         \* pc[t]
  n,          \* n[i], the system call install_hooks is at
  cached,     \* cached[i], cachedFirmware of a payload
  kcached,    \* kcached[i], cachedFirmware of its kdebugger
  kmem,       \* kmem[i], the kernel memory of its kdebugger
  cpu,        \* cpu[t], where t runs from its cpu_disable_wp to its cpu_enable_wp
  wp,         \* wp[c], CR0.WP of the CPU
  text,       \* the patches in the kernel
  sysent,     \* sysent[k]: "original", "clear" or the payload that hooked it
  payload,    \* memory of SceShellCore at PAYLOAD_BASE
  shell,      \* progress of the debugger: 0 before its thread is created
  resolved,   \* libraries the debugger has resolved
  loaded,     \* kinds of processes the server has loaded code into
  ret,        \* ret[i], what runinstaller returned
  down        \* "no", or what has crashed: "kernel", "process"

machine == <<cpu, wp, text, sysent>>
debugger == <<payload, shell, resolved, loaded>>
own == <<n, cached, kcached, kmem, ret>>
vars == <<fw, pc, own, machine, debugger, down>>

Init ==
  /\ fw \in Consoles
  /\ pc = [t \in Threads |-> "idle"]
  /\ n = [i \in Installers |-> 107]
  /\ cached = [i \in Installers |-> 0]
  /\ kcached = [i \in Installers |-> 0]
  /\ kmem = [i \in Installers |-> "none"]
  /\ cpu = [t \in Threads |-> NoCpu]
  /\ wp = [c \in Cpus |-> TRUE]
  /\ text = NoPatch
  /\ sysent = [k \in Syscalls |-> "original"]
  /\ payload = "none" /\ shell = 0 /\ resolved = {} /\ loaded = {}
  /\ ret = [i \in Installers |-> 2]
  /\ down = "no"

-----------------------------------------------------------------------------
(* Threads of the kernel                                                    *)

\* Between cpu_disable_wp and cpu_enable_wp.
Unprotecting(t) == pc[t] \in {"patch", "protect", "trap", "clear", "set", "hooked",
                              "copy", "copied"}

At(t, l) == down = "no" /\ pc[t] = l
Goto(t, l) == pc' = [pc EXCEPT ![t] = l]

\* cpu_disable_wp, on the CPU the thread happens to be on.
DisableWp(t) ==
  \E c \in Cpus :
    /\ cpu' = [cpu EXCEPT ![t] = c]
    /\ wp' = [wp EXCEPT ![c] = FALSE]

\* cpu_enable_wp, on the CPU it is on by then.
EnableWp(t) ==
  /\ wp' = [wp EXCEPT ![cpu[t]] = TRUE]
  /\ cpu' = [cpu EXCEPT ![t] = NoCpu]

\* Interrupts stay on: the scheduler may run t elsewhere from now on.
Move(t) ==
  /\ down = "no" /\ Unprotecting(t)
  /\ \E c \in Cpus \ {cpu[t]} : cpu' = [cpu EXCEPT ![t] = c]
  /\ UNCHANGED <<fw, pc, own, wp, text, sysent, debugger, down>>

\* A fault in the kernel.
Panic == down' = "kernel" /\ UNCHANGED <<pc, own, machine, debugger>>

\* A write to read-only kernel memory: what it changes, or a fault.
IfWritable(t, Change) ==
  IF wp[cpu[t]] THEN Panic ELSE Change /\ UNCHANGED down

Unless(fault, Change, Fail) == Change \/ (fault \in Faults /\ Fail)

Return(i, v) == Goto(i, "returned") /\ ret' = [ret EXCEPT ![i] = v]

-----------------------------------------------------------------------------
(* runinstaller                                                             *)

\* syscall(11, runinstaller), init_ksdk; without a table every pointer is NULL
\* and *disable_console_output = 0 faults.
Start(i) ==
  /\ At(i, "idle")
  /\ fw \in Overlapping \/ \A j \in Installers : pc[j] \in {"idle", "returned"}
  /\ IF SdkOf(Found[fw]) = NoSdk
       THEN Panic
       ELSE /\ cached' = [cached EXCEPT ![i] = Found[fw]]
            /\ Goto(i, "unprotect")
            /\ UNCHANGED <<n, kcached, kmem, ret, machine, debugger, down>>
  /\ UNCHANGED fw

\* patch_kernel
Unprotect(i) ==
  /\ At(i, "unprotect")
  /\ DisableWp(i) /\ Goto(i, "patch")
  /\ UNCHANGED <<fw, own, text, sysent, debugger, down>>

\* The patches, if there is a case for the version.
Patch(i) ==
  /\ At(i, "patch")
  /\ IF PatchOf(cached[i]) = NoPatch
       THEN Goto(i, "protect") /\ UNCHANGED <<text, down>>
       ELSE IfWritable(i, /\ text' = PatchOf(cached[i])
                          /\ Goto(i, "protect"))
  /\ UNCHANGED <<fw, own, cpu, wp, sysent, debugger>>

\* Variation: write protection is left off.
ProtectNot(i) ==
  /\ At(i, "protect")
  /\ cpu' = [cpu EXCEPT ![i] = NoCpu] /\ Goto(i, "alloc")
  /\ UNCHANGED <<fw, own, wp, text, sysent, debugger, down>>

Protect(i) ==
  /\ At(i, "protect")
  /\ EnableWp(i) /\ Goto(i, "alloc")
  /\ UNCHANGED <<fw, own, text, sysent, debugger, down>>

-----------------------------------------------------------------------------
(* load_kdebugger                                                           *)

\* A patch takes effect when it is inside the function it is meant for.
MaxLength == \h200
Inside(a, f) == a \in f .. f + MaxLength
Takes(patches, f) == patches # {} /\ \A a \in patches : Inside(a, f)

\* rwx_alloc: the patches of kmem_alloc make its memory executable.
Alloc(i) ==
  /\ At(i, "alloc")
  /\ Unless("alloc",
       /\ kmem' = [kmem EXCEPT ![i] =
            IF Takes(text.kmem_alloc, Kernel(fw).kmem_alloc) THEN "rwx" ELSE "rw"]
       /\ Goto(i, "load") /\ UNCHANGED ret,
       Return(i, 1) /\ UNCHANGED kmem)
  /\ UNCHANGED <<fw, n, cached, kcached, machine, debugger, down>>

\* load_elf, of an image that is part of the payload.
LoadElf(i) ==
  /\ At(i, "load") /\ Goto(i, "enter")
  /\ UNCHANGED <<fw, own, machine, debugger, down>>

\* payload_entry: init_ksdk of kdebugger.
Enter(i) ==
  /\ At(i, "enter")
  /\ IF kmem[i] = "rwx" /\ SdkOf(Found[fw]) # NoSdk
       THEN /\ kcached' = [kcached EXCEPT ![i] = Found[fw]]
            /\ Goto(i, "hooks")
            /\ UNCHANGED <<n, cached, kmem, ret, machine, debugger, down>>
       ELSE Panic
  /\ UNCHANGED fw

\* install_hooks
UnprotectHooks(i) ==
  /\ At(i, "hooks")
  /\ DisableWp(i) /\ Goto(i, "trap")
  /\ UNCHANGED <<fw, own, text, sysent, debugger, down>>

\* The jump to hook_trap_fatal, at TrapHook.
HookTrap(i) ==
  /\ At(i, "trap")
  /\ IfWritable(i, Goto(i, "clear"))
  /\ UNCHANGED <<fw, own, machine, debugger>>

\* install_syscall clears the entry and fills it.
ClearEntry(i) ==
  /\ At(i, "clear")
  /\ sysent' = [sysent EXCEPT ![n[i]] = "clear"]
  /\ Goto(i, "set")
  /\ UNCHANGED <<fw, own, cpu, wp, text, debugger, down>>

\* Variation: one entry too many.
SetEntryPast(i) ==
  /\ At(i, "set")
  /\ sysent' = [sysent EXCEPT ![n[i]] = i]
  /\ IF n[i] = 113
       THEN Goto(i, "hooked") /\ UNCHANGED n
       ELSE Goto(i, "clear") /\ n' = [n EXCEPT ![i] = @ + 1]
  /\ UNCHANGED <<fw, cached, kcached, kmem, ret, cpu, wp, text, debugger, down>>

SetEntry(i) ==
  /\ At(i, "set")
  /\ sysent' = [sysent EXCEPT ![n[i]] = i]
  /\ IF n[i] = 112
       THEN Goto(i, "hooked") /\ UNCHANGED n
       ELSE Goto(i, "clear") /\ n' = [n EXCEPT ![i] = @ + 1]
  /\ UNCHANGED <<fw, cached, kcached, kmem, ret, cpu, wp, text, debugger, down>>

ProtectHooks(i) ==
  /\ At(i, "hooked")
  /\ EnableWp(i) /\ Goto(i, "find")
  /\ UNCHANGED <<fw, own, text, sysent, debugger, down>>

-----------------------------------------------------------------------------
(* load_debugger                                                            *)

Find(i) ==
  /\ At(i, "find")
  /\ Unless("find", Goto(i, "map") /\ UNCHANGED ret, Return(i, 1))
  /\ UNCHANGED <<fw, n, cached, kcached, kmem, machine, debugger, down>>

\* Variation: what is there is mapped over.
MapOver(i) ==
  /\ At(i, "map")
  /\ \/ payload' = "mapped" /\ Goto(i, "write") /\ UNCHANGED ret
     \/ "map" \in Faults /\ Return(i, 1) /\ UNCHANGED payload
  /\ UNCHANGED <<fw, n, cached, kcached, kmem, machine, shell, resolved, loaded, down>>

\* vm_map_insert refuses a range that is taken.
Map(i) ==
  /\ At(i, "map")
  /\ \/ payload = "none" /\ payload' = "mapped" /\ Goto(i, "write") /\ UNCHANGED ret
     \/ (payload # "none" \/ "map" \in Faults) /\ Return(i, 1) /\ UNCHANGED payload
  /\ UNCHANGED <<fw, n, cached, kcached, kmem, machine, shell, resolved, loaded, down>>

\* A failure leaves the range mapped.
Write(i) ==
  /\ At(i, "write")
  /\ Unless("write",
       payload' = "written" /\ Goto(i, "create") /\ UNCHANGED ret,
       Return(i, 1) /\ UNCHANGED payload)
  /\ UNCHANGED <<fw, n, cached, kcached, kmem, machine, shell, resolved, loaded, down>>

\* What becomes of a thread created by the functions of a row.
Launch(row, rightRow, Ok) ==
  IF row = NoRow THEN UNCHANGED <<shell, loaded, down>>
  ELSE IF row = rightRow THEN Ok /\ UNCHANGED down
  ELSE down' = "process" /\ UNCHANGED <<shell, loaded>>

\* proc_create_thread of the installer; its thread runs before it returns.
Create(i) ==
  /\ At(i, "create")
  /\ Unless("thread",
       /\ Launch(RowOf(InstallerSys, cached[i]), RowOf(InstallerSys, fw),
                 shell' = 1 /\ UNCHANGED loaded)
       /\ Goto(i, "poll") /\ UNCHANGED ret,
       Return(i, 1) /\ UNCHANGED <<shell, loaded, down>>)
  /\ UNCHANGED <<fw, n, cached, kcached, kmem, machine, payload, resolved>>

\* The loader is done, or was never started.
Finish(i) ==
  /\ At(i, "poll") /\ Return(i, 0)
  /\ UNCHANGED <<fw, n, cached, kcached, kmem, machine, debugger, down>>

-----------------------------------------------------------------------------
(* The debugger: _main                                                      *)

\* A call of _main: the libraries whose functions it uses, the one it resolves
\* ("kernel" when it resolves none) and its system call of kdebugger (0 for none).
Step(needs, gives, call) == [needs |-> needs, gives |-> gives, call |-> call]

InitKernel == Step({}, "kernel", 0)
InitLibc == Step({"kernel"}, "libc", 0)
InitPthread == Step({"kernel"}, "pthread", 0)
InitNetwork == Step({"kernel"}, "net", 0)
InitSysUtil == Step({"kernel"}, "sysutil", 0)
Notify == Step({"kernel", "sysutil"}, "kernel", 0)
Jailbreak == Step({}, "kernel", JailbreakCall)
StartServer == Step({"kernel", "libc", "pthread", "net"}, "kernel", 0)

\* Variation: the server starts before the network library is resolved.
StartupLateNetwork == <<InitKernel, InitLibc, InitPthread, InitSysUtil, Notify,
                        Jailbreak, StartServer, InitNetwork>>

\* The calls of _main, in order.
Startup == <<InitKernel, InitLibc, InitPthread, InitNetwork, InitSysUtil, Notify,
             Jailbreak, StartServer>>

Serving == shell > Len(Startup)

Hooking(i) == pc[i] \in {"clear", "set"}

\* The next call of _main.  A function that is not resolved is a call to 0, in
\* SceShellCore; an entry that is clear is one in the kernel.
Resolve ==
  /\ down = "no" /\ shell \in 1..Len(Startup)
  /\ LET s == Startup[shell] IN
     IF ~(s.needs \subseteq resolved) THEN down' = "process" /\ UNCHANGED <<shell, resolved>>
     ELSE IF s.call # 0 /\ sysent[s.call] = "clear"
          THEN down' = "kernel" /\ UNCHANGED <<shell, resolved>>
     ELSE /\ shell' = shell + 1
          /\ resolved' = resolved \cup {s.gives}
          /\ UNCHANGED down
  /\ UNCHANGED <<fw, pc, own, machine, payload, loaded>>

\* sys_proc_cmd of a handler thread: kdebugger's proc_create_thread in a process
\* with a libkernel of this kind.
Load(k) ==
  /\ Serving /\ down = "no"
  /\ \E i \in Installers : sysent[109] = i /\
       Launch(RowOf(TableOf[k], kcached[i]), RowOf(TableOf[k], fw),
              loaded' = loaded \cup {k} /\ UNCHANGED shell)
  /\ UNCHANGED <<fw, pc, own, machine, payload, resolved>>

\* sys_kern_rw with write set
KernWrite(w) ==
  /\ At(w, "idle") /\ Serving
  /\ IF sysent[WriteCall] = "clear" THEN Panic
     ELSE /\ DisableWp(w) /\ Goto(w, "copy")
          /\ UNCHANGED <<own, text, sysent, debugger, down>>
  /\ UNCHANGED fw

KernCopy(w) ==
  /\ At(w, "copy")
  /\ IfWritable(w, Goto(w, "copied"))
  /\ UNCHANGED <<fw, own, machine, debugger>>

KernProtect(w) ==
  /\ At(w, "copied")
  /\ EnableWp(w) /\ Goto(w, "done")
  /\ UNCHANGED <<fw, own, text, sysent, debugger, down>>

-----------------------------------------------------------------------------
Install(i) ==
  \/ Start(i) \/ Unprotect(i) \/ Patch(i) \/ Protect(i)
  \/ Alloc(i) \/ LoadElf(i) \/ Enter(i)
  \/ UnprotectHooks(i) \/ HookTrap(i) \/ ClearEntry(i) \/ SetEntry(i) \/ ProtectHooks(i)
  \/ Find(i) \/ Map(i) \/ Write(i) \/ Create(i) \/ Finish(i)

KernRw(w) == KernWrite(w) \/ KernCopy(w) \/ KernProtect(w)

Next ==
  \/ \E i \in Installers : Install(i)
  \/ \E w \in Writers : KernRw(w)
  \/ \E t \in Threads : Move(t)
  \/ \E k \in DOMAIN TableOf : Load(k)
  \/ Resolve

\* The kernel runs its threads, and SceShellCore the debugger's.
Fairness ==
  /\ \A i \in Installers : WF_vars(Install(i))
  /\ \A w \in Writers : WF_vars(KernCopy(w) \/ KernProtect(w))
  /\ WF_vars(Resolve)

SafeSpec == Init /\ [][Next]_vars

-----------------------------------------------------------------------------
(* Properties                                                               *)

Patches == {PatchOf(v) : v \in Supported \cup {0}}

TypeOK ==
  /\ fw \in Consoles
  /\ pc \in [Threads -> {"idle", "unprotect", "patch", "protect", "alloc", "load", "enter",
       "hooks", "trap", "clear", "set", "hooked", "find", "map", "write", "create",
       "poll", "returned", "copy", "copied", "done"}]
  /\ n \in [Installers -> Syscalls]
  /\ cached \in [Installers -> Supported \cup {0}]
  /\ kcached \in [Installers -> Supported \cup {0}]
  /\ kmem \in [Installers -> {"none", "rw", "rwx"}]
  /\ cpu \in [Threads -> Cpus \cup {NoCpu}]
  /\ wp \in [Cpus -> BOOLEAN]
  /\ text \in Patches
  /\ sysent \in [Syscalls -> {"original", "clear"} \cup Installers]
  /\ payload \in {"none", "mapped", "written"}
  /\ shell \in 0 .. Len(Startup) + 1
  /\ resolved \subseteq {"kernel", "libc", "pthread", "net", "sysutil"}
  /\ loaded \subseteq DOMAIN TableOf
  /\ ret \in [Installers -> 0..2]
  /\ down \in {"no", "kernel", "process"}

\* Versions the payload has tables for, but not the ones it needs: 7.01 and 7.02
\* are taken for 7.00, whose functions are elsewhere in a process, and
\* patch_kernel has no case for 7.50, 7.51 and 7.55.
Neglected == {701, 702, 750, 751, 755}
Served == Supported \ Neglected

\* Once the debugger serves, its memory is what the installer wrote, there is a
\* kdebugger for this kernel behind each of its system calls, and the patches are
\* in the functions they are meant for, apart from each other and from the hook.
\* (The two tables of 7.00 have vm_map_protect at different addresses.)
ServerHasItsKernel ==
  Serving /\ down = "no" =>
    /\ payload = "written"
    /\ \A k \in Syscalls :
         \/ \E i \in Installers : Hooking(i) /\ n[i] = k
         \/ \E i \in Installers : sysent[k] = i /\ SdkOf(kcached[i]) = Kernel(fw)
    /\ Takes({text.memcpy}, Kernel(fw).memcpy)
    /\ Takes(text.kmem_alloc, Kernel(fw).kmem_alloc)
    /\ fw # 700 => Takes({text.vm_map_protect}, Kernel(fw).vm_map_protect)
    /\ LET written == text.others \cup text.kmem_alloc \cup
                      {text.memcpy, text.vm_map_protect, TrapHook}
       IN  /\ Cardinality(written) = 13
           /\ \A a, b \in written : a < b => a + 8 <= b

=============================================================================
