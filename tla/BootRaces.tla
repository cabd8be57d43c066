------------------------------ MODULE BootRaces ------------------------------
(***************************************************************************)
(* What can bring down a console the payload has everything for.  The       *)
(* kernel part neither pins its threads nor locks anything: CR0.WP is a     *)
(* register of one CPU, and an entry of the system call table is cleared    *)
(* before it is filled.  Three history variables remember whether the       *)
(* scheduler or another thread has got in between; they guard nothing,      *)
(* every behaviour of Boot is a behaviour here.                             *)
(***************************************************************************)
EXTENDS Boot

VARIABLES
  moved,    \* a thread was moved to another CPU before its cpu_enable_wp
  shared,   \* two threads were before their cpu_enable_wp on one CPU
  called    \* kdebugger was called while a payload was hooking its calls

history == <<moved, shared, called>>

-----------------------------------------------------------------------------
Moving == \E t \in Threads : Unprotecting(t)' /\ cpu[t] \in Cpus /\ cpu'[t] # cpu[t]

Sharing ==
  \E t, u \in Threads :
    t # u /\ Unprotecting(t) /\ Unprotecting(u) /\ cpu[t] = cpu[u]

\* The steps of the debugger that are system calls of kdebugger.
Calling ==
  \/ \E k \in DOMAIN TableOf : Load(k)
  \/ \E w \in Writers : KernWrite(w)
  \/ Resolve /\ Startup[shell].call # 0

HInit == Init /\ moved = FALSE /\ shared = FALSE /\ called = FALSE

Recorded ==
  /\ moved' = (moved \/ Moving)
  /\ shared' = (shared \/ Sharing')
  /\ called' = (called \/ (Calling /\ \E i \in Installers : Hooking(i)))

HNext == Next /\ Recorded

hvars == <<vars, history>>

HSafeSpec == HInit /\ [][HNext]_hvars

HSpec == HSafeSpec /\ Fairness

-----------------------------------------------------------------------------
(* Properties                                                               *)

\* Write protection is lost only through the scheduler: until a thread is moved,
\* a CPU has it off only while a thread there is between its cpu_disable_wp and its
\* cpu_enable_wp.  Threads that share a CPU, payloads that fail half way or are sent
\* again, and a panic elsewhere do not lose it (patch_kernel, install_hooks,
\* sys_kern_rw).
WriteProtected ==
  moved \/ \A c \in Cpus : wp[c] \/ \E t \in Threads : cpu[t] = c /\ Unprotecting(t)

\* Every patch, hook and CMD_KERN_WRITE finds write protection off, until a thread
\* was moved or met a second one on its CPU, which turns it on again too early.
WritesGoThrough ==
  moved \/ shared \/ \A t \in Threads : pc[t] \in {"patch", "trap", "copy"} => ~wp[cpu[t]]

\* A console that is served goes down, kernel or process, only after a thread was
\* moved, or two shared a CPU, or kdebugger was called while it was being hooked:
\* whatever fails, and however payloads, handler threads and the debugger's start
\* interleave otherwise, every write finds protection off, every function is called
\* at the address it has in this version, and the memory jumped into is executable.
CrashHasCause ==
  down = "no" \/ fw \notin Served \/ moved \/ shared \/ called

\* A payload that has started on a console that is served returns, and when it
\* returns 0 the debugger comes to serve, unless the console goes down of one of the
\* three.
InstalledServes ==
  \A i \in Installers :
    pc[i] = "unprotect" /\ fw \in Served
      ~> \/ ret[i] = 1
         \/ ret[i] = 0 /\ Serving
         \/ down # "no" /\ (moved \/ shared \/ called)

=============================================================================
