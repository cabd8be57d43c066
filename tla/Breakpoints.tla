---------------------------- MODULE Breakpoints ----------------------------
(***************************************************************************)
(* Software breakpoints: the table of struct debug_context, the int3 bytes *)
(* that debug_breakpt_handle plants in the code of the debugged process,   *)
(* check_debug_interrupt stepping a thread over one, and debug_cleanup     *)
(* taking them out.  One client is served; its handler thread executes its *)
(* commands and polls for stops, so only the threads of the process run    *)
(* beside it.  The byte of process p at address a is <<p, a>>, whatever it *)
(* is, as long as nobody has overwritten it.                               *)
(***************************************************************************)
EXTENDS Naturals

CONSTANTS
  MaxBreakpoints,   \* MAX_BREAKPOINTS
  Pids, Addrs,      \* processes, and addresses of instructions in them
  Threads,          \* threads of the process being debugged
  Int3, Zero,       \* the byte 0xCC, and the byte of a cleared context
  NoPid, NoAddr, NoThread,
  Tidy              \* assumption on the tool, see Enable and Attach

Indices == 1..MaxBreakpoints
Code(p, a) == <<p, a>>
Bytes == (Pids \X Addrs) \cup {Int3, Zero}

ASSUME BreakpointsAssumption ==
  /\ MaxBreakpoints \in Nat \ {0}
  /\ {Int3, Zero} \cap (Pids \X Addrs) = {} /\ Int3 # Zero
  /\ NoPid \notin Pids /\ NoAddr \notin Addrs /\ NoThread \notin Threads
  /\ Tidy \in BOOLEAN

VARIABLES
  mem,        \* mem[p][a], the code of the processes
  bp,         \* dbgctx.breakpoints
  pid,        \* dbgctx.pid
  attached,   \* a session exists
  run,        \* the process is "running" or "stopped"
  trap,       \* trap[t] = a: t has executed the int3 at a, its rip is a + 1
  pending,    \* the thread whose stop wait4 has yet to report
  hpc,        \* the handler: "loop", "stepping" (in the wait) or "rearm"
  cur         \* the thread being stepped, and its breakpoint

process == <<run, trap, pending>>
vars == <<mem, bp, pid, attached, run, trap, pending, hpc, cur>>

Unset == [enabled |-> FALSE, address |-> NoAddr, original |-> Zero]
Idle == [thread |-> NoThread, index |-> 1]
NoTraps == [t \in Threads |-> NoAddr]

Init ==
  /\ mem = [p \in Pids |-> [a \in Addrs |-> Code(p, a)]]
  /\ bp = [i \in Indices |-> Unset]
  /\ pid = NoPid
  /\ attached = FALSE
  /\ run = "running"
  /\ trap = NoTraps
  /\ pending = NoThread
  /\ hpc = "loop"
  /\ cur = Idle

\* sys_proc_rw of one byte; writing at an unmapped address does nothing.
Poke(p, a, b) == [mem EXCEPT ![p] = [x \in Addrs |-> IF x = a THEN b ELSE @[x]]]

CommandRead == attached /\ hpc = "loop"

-----------------------------------------------------------------------------
\* Variation: the context never learns its pid.
AttachForgetsPid(p) ==
  /\ ~attached /\ hpc = "loop"
  /\ attached' = TRUE
  /\ bp' = [i \in Indices |-> Unset]
  /\ run' = "running" /\ trap' = NoTraps /\ pending' = NoThread
  /\ UNCHANGED <<mem, pid, hpc, cur>>

\* debug_attach_handle.  A client that attaches a second time keeps its old
\* table, a new connection starts from a zeroed one; a tidy tool reconnects.
Attach(p) ==
  /\ ~attached /\ hpc = "loop"
  /\ pid' = p
  /\ attached' = TRUE
  /\ \/ bp' = [i \in Indices |-> Unset]
     \/ ~Tidy /\ UNCHANGED bp
  /\ run' = "running" /\ trap' = NoTraps /\ pending' = NoThread
  /\ UNCHANGED <<mem, hpc, cur>>

\* A tidy tool disables an index before it uses it for another address, and
\* uses one index for one address.
TidyEnable(i, a) ==
  Tidy => ~bp[i].enabled /\ \A j \in Indices : bp[j].address # a

\* debug_breakpt_handle, enabled = 1.
Enable(i, a) ==
  /\ CommandRead /\ TidyEnable(i, a)
  /\ bp' = [bp EXCEPT ![i] =
              [enabled |-> TRUE, address |-> a, original |-> mem[pid][a]]]
  /\ mem' = Poke(pid, a, Int3)
  /\ UNCHANGED <<pid, attached, process, hpc, cur>>

\* Variation: the address is cleared before the original byte goes back.
DisableClearsFirst(i) ==
  /\ CommandRead
  /\ bp' = [bp EXCEPT ![i].enabled = FALSE, ![i].address = NoAddr]
  /\ UNCHANGED <<mem, pid, attached, process, hpc, cur>>

\* debug_breakpt_handle, enabled = 0.
Disable(i) ==
  /\ CommandRead
  /\ mem' = Poke(pid, bp[i].address, bp[i].original)
  /\ bp' = [bp EXCEPT ![i].enabled = FALSE, ![i].address = NoAddr]
  /\ UNCHANGED <<pid, attached, process, hpc, cur>>

\* debug_stopgo_handle, stop = 1: whatever stop was pending is replaced.
Stop ==
  /\ CommandRead
  /\ run' = "stopped" /\ pending' = NoThread
  /\ UNCHANGED <<mem, bp, pid, attached, trap, hpc, cur>>

\* PT_CONTINUE.  A thread whose rip is still behind an int3 goes on from
\* there, in the middle of the instruction the int3 replaced.
Resume ==
  run' = "running" /\ trap' = NoTraps /\ pending' = NoThread

\* debug_stopgo_handle, stop = 0.
Go ==
  /\ CommandRead /\ run = "stopped"
  /\ Resume
  /\ UNCHANGED <<mem, bp, pid, attached, hpc, cur>>

-----------------------------------------------------------------------------
\* A thread of the process executes an int3: the whole process stops.
Trap(t) ==
  \E a \in Addrs :
    /\ mem[pid][a] = Int3
    /\ trap' = [trap EXCEPT ![t] = a]
    /\ run' = "stopped"
    /\ pending' = t

Hit(t) ==
  /\ attached /\ hpc = "loop" /\ run = "running"
  /\ Trap(t)
  /\ UNCHANGED <<mem, bp, pid, attached, hpc, cur>>

\* The first table entry for the address before the reported rip.
IsMatch(i, a) ==
  /\ bp[i].address = a
  /\ \A j \in Indices : j < i => bp[j].address # a

\* check_debug_interrupt on a stop that matches the table: original byte
\* back, rip one back, PT_STEP, and into the loop around wait4.
StepOver ==
  /\ CommandRead /\ pending # NoThread
  /\ \E i \in Indices :
       /\ IsMatch(i, trap[pending])
       /\ mem' = Poke(pid, bp[i].address, bp[i].original)
       /\ cur' = [thread |-> pending, index |-> i]
  /\ trap' = [trap EXCEPT ![pending] = NoAddr]
  /\ run' = "running"
  /\ pending' = NoThread
  /\ hpc' = "stepping"
  /\ UNCHANGED <<bp, pid, attached>>

\* check_debug_interrupt on any other stop: reported as it is.
ReportHardware ==
  /\ CommandRead /\ pending # NoThread
  /\ \A i \in Indices : bp[i].address # trap[pending]
  /\ pending' = NoThread
  /\ UNCHANGED <<mem, bp, pid, attached, run, trap, hpc, cur>>

\* The step is over.
StepDone ==
  /\ hpc = "stepping" /\ run = "running"
  /\ run' = "stopped"
  /\ hpc' = "rearm"
  /\ UNCHANGED <<mem, bp, pid, attached, trap, pending, cur>>

\* Another thread stops first, and the wait takes its stop for the step's.
StepInterrupted(t) ==
  /\ hpc = "stepping" /\ run = "running" /\ t # cur.thread
  /\ Trap(t)
  /\ hpc' = "rearm"
  /\ UNCHANGED <<mem, bp, pid, attached, cur>>

\* Variation: the int3 is not written back after the step.
RearmForgets ==
  /\ hpc = "rearm"
  /\ pending' = NoThread
  /\ hpc' = "loop"
  /\ cur' = Idle
  /\ UNCHANGED <<mem, bp, pid, attached, run, trap>>

\* The int3 again, then the packet to the tool.
Rearm ==
  /\ hpc = "rearm"
  /\ mem' = Poke(pid, bp[cur.index].address, Int3)
  /\ pending' = NoThread
  /\ hpc' = "loop"
  /\ cur' = Idle
  /\ UNCHANGED <<bp, pid, attached, run, trap>>

-----------------------------------------------------------------------------
Planted(a) == \E i \in Indices : bp[i].address = a

\* The entry whose byte debug_cleanup writes last at a: indices go upwards.
IsLast(i, a) ==
  /\ bp[i].address = a
  /\ \A j \in Indices : j > i => bp[j].address # a

\* debug_cleanup, on detach or when the client is gone.  The table and the
\* pid stay as they are.
Cleanup ==
  /\ CommandRead
  /\ \E last \in [Addrs -> Indices] :
       /\ \A a \in Addrs : Planted(a) => IsLast(last[a], a)
       /\ mem' = [mem EXCEPT ![pid] = [a \in Addrs |->
                    IF Planted(a) THEN bp[last[a]].original ELSE @[a]]]
  /\ attached' = FALSE
  /\ Resume
  /\ UNCHANGED <<bp, pid, hpc, cur>>

Next ==
  \/ \E p \in Pids : Attach(p)
  \/ \E i \in Indices, a \in Addrs : Enable(i, a)
  \/ \E i \in Indices : Disable(i)
  \/ Stop \/ Go
  \/ \E t \in Threads : Hit(t) \/ StepInterrupted(t)
  \/ StepOver \/ ReportHardware \/ StepDone \/ Rearm
  \/ Cleanup

Spec == Init /\ [][Next]_vars

-----------------------------------------------------------------------------
\* Every field keeps its range.
TypeOK ==
  /\ mem \in [Pids -> [Addrs -> Bytes]]
  /\ bp \in [Indices -> [enabled : BOOLEAN, address : Addrs \cup {NoAddr},
                         original : Bytes]]
  /\ pid \in Pids \cup {NoPid}
  /\ attached \in BOOLEAN /\ (attached => pid \in Pids)
  /\ run \in {"running", "stopped"}
  /\ trap \in [Threads -> Addrs \cup {NoAddr}]
  /\ pending \in Threads \cup {NoThread}
  /\ hpc \in {"loop", "stepping", "rearm"} /\ (hpc # "loop" => attached)
  /\ cur \in [thread : Threads \cup {NoThread}, index : Indices]

\* The breakpoint being stepped over is the only one taken out.
Stepping(a) == hpc # "loop" /\ bp[cur.index].address = a

\* The code of the debugged process is its own except for one int3 at each
\* address in the table, and none where a thread is being stepped over it
\* (debug_breakpt_handle, check_debug_interrupt).
CodeIntact ==
  attached => \A a \in Addrs :
    mem[pid][a] = IF Planted(a) /\ ~Stepping(a) THEN Int3 ELSE Code(pid, a)

\* A process nobody debugs has all its code back: debug_cleanup disables all
\* breakpoints.
AllDisabled ==
  \A p \in Pids : ~(attached /\ p = pid) => \A a \in Addrs : mem[p][a] = Code(p, a)

=============================================================================
