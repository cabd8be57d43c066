------------------------------ MODULE RpcCall ------------------------------
(***************************************************************************)
(* Calling a function of a process: sys_proc_call_handle of kdebugger on    *)
(* one side, the thread that proc_install_handle has started in the process *)
(* on the other, and between them the struct rpcstub_header both write      *)
(* without a lock.  A caller is a handler thread of the server; a call      *)
(* stands for the registers it is made with and for the value its function  *)
(* returns.  The process may end at any time, and copies from and to its    *)
(* memory fail from then on; while its debugger has it stopped the stub     *)
(* thread stands still and copies work.                                     *)
(***************************************************************************)
EXTENDS Naturals

CONSTANTS
  Callers,      \* handler threads that call through one stub
  Calls,        \* calls they make, each one once
  Words,        \* registers in the header, rpc_rip first
  Nobody,       \* in place of a call: none
  Mixed,        \* the value of a function entered with registers of two calls
  Zero,         \* the rax answered when the system call fails
  TakeTurns,    \* assumption on the tools: one call at a time
  Debugger,     \* the caller whose connection also debugs the process
  MaxStops      \* bound: stops of the process

ASSUME RpcCallAssumption ==
  /\ Words \in Nat \ {0}
  /\ {Nobody, Mixed, Zero} \cap Calls = {}
  /\ Nobody # Mixed /\ Nobody # Zero /\ Mixed # Zero
  /\ TakeTurns \in BOOLEAN /\ MaxStops \in Nat

VARIABLES
  running,      \* the process exists
  stopped,      \* its threads are stopped
  stops,        \* how often they have been
  regs,         \* the call that wrote each register of the header
  go, done,     \* rpc_go and rpc_done
  rax,          \* rpc_rax
  spc,          \* the stub thread
  loaded,       \* its processor registers
  pc,           \* pc[t], the caller t
  cur,          \* cur[t], the call it makes
  copied,       \* copied[t], the registers of it that are in the header
  answer        \* answer[c], what CMD_PROC_CALL answered

header == <<regs, go, done, rax>>
stub == <<spc, loaded>>
caller == <<pc, cur, copied, answer>>
process == <<running, stopped, stops>>
vars == <<process, header, stub, caller>>

Registers == 1..Words
NoRegisters == [w \in Registers |-> Nobody]

\* sys_proc_install_handle has written rpcstub and its thread has started.
Init ==
  /\ running = TRUE /\ stopped = FALSE /\ stops = 0
  /\ regs = NoRegisters /\ go = FALSE /\ done = FALSE /\ rax = Nobody
  /\ spc = "check" /\ loaded = NoRegisters
  /\ pc = [t \in Callers |-> "idle"]
  /\ cur = [t \in Callers |-> Nobody]
  /\ copied = [t \in Callers |-> 0]
  /\ answer = [c \in Calls |-> Nobody]

-----------------------------------------------------------------------------
(* sys_proc_call_handle                                                     *)

Goto(t, to) == pc' = [pc EXCEPT ![t] = to]

Active(c) == \E t \in Callers : cur[t] = c

Made(c) == answer[c] # Nobody \/ Active(c)

\* proc_call_handle enters the system call with the arguments of the packet.
Call(t, c) ==
  /\ pc[t] = "idle" /\ ~Made(c)
  /\ TakeTurns => \A u \in Callers : pc[u] = "idle"
  /\ Goto(t, "copy")
  /\ cur' = [cur EXCEPT ![t] = c]
  /\ copied' = [copied EXCEPT ![t] = 0]
  /\ UNCHANGED <<process, header, stub, answer>>

\* Variation: the copy ends after the member behind the registers.
CopyTooFar(t) ==
  /\ pc[t] = "copy" /\ running
  /\ regs' = [regs EXCEPT ![copied[t] + 1] = cur[t]]
  /\ copied' = [copied EXCEPT ![t] = @ + 1]
  /\ Goto(t, IF copied[t] = Words THEN "go" ELSE "copy")
  /\ UNCHANGED <<process, go, done, rax, stub, cur, answer>>

\* proc_write_mem of the registers, which is no atomic step for the stub.
Copy(t) ==
  /\ pc[t] = "copy" /\ running
  /\ regs' = [regs EXCEPT ![copied[t] + 1] = cur[t]]
  /\ copied' = [copied EXCEPT ![t] = @ + 1]
  /\ Goto(t, IF copied[t] + 1 = Words THEN "go" ELSE "copy")
  /\ UNCHANGED <<process, go, done, rax, stub, cur, answer>>

Trigger(t) ==
  /\ pc[t] = "go" /\ running
  /\ go' = TRUE
  /\ Goto(t, "poll")
  /\ UNCHANGED <<process, regs, done, rax, stub, cur, copied, answer>>

\* The read that ends the loop; the others change nothing.
Poll(t) ==
  /\ pc[t] = "poll" /\ running /\ done
  /\ Goto(t, "clear")
  /\ UNCHANGED <<process, header, stub, cur, copied, answer>>

\* Variation: done is left set.
ClearForgets(t) ==
  /\ pc[t] = "clear" /\ running
  /\ Goto(t, "rax")
  /\ UNCHANGED <<process, header, stub, cur, copied, answer>>

Clear(t) ==
  /\ pc[t] = "clear" /\ running
  /\ done' = FALSE
  /\ Goto(t, "rax")
  /\ UNCHANGED <<process, regs, go, rax, stub, cur, copied, answer>>

\* proc_call_handle answers CMD_SUCCESS with v, whatever the call returned.
Respond(t, v) ==
  /\ answer' = [answer EXCEPT ![cur[t]] = v]
  /\ cur' = [cur EXCEPT ![t] = Nobody]
  /\ Goto(t, "idle")
  /\ UNCHANGED <<process, header, stub, copied>>

ReadRax(t) == pc[t] = "rax" /\ running /\ Respond(t, rax)

\* Variation: the loop does not look at the result of its read.
FailExceptPoll(t) ==
  /\ pc[t] \notin {"idle", "poll"} /\ ~running
  /\ Respond(t, Zero)

\* A copy fails: the system call returns 1, args.rax is still NULL.
Fail(t) == pc[t] # "idle" /\ ~running /\ Respond(t, Zero)

-----------------------------------------------------------------------------
(* The loop of rpcstub                                                      *)

AtStub(l) == running /\ ~stopped /\ spc = l

\* cmp go, je over the call
Check ==
  /\ AtStub("check")
  /\ spc' = IF go THEN "load" ELSE "sleep"
  /\ loaded' = NoRegisters
  /\ UNCHANGED <<process, header, caller>>

\* The registers are loaded one by one, r9 first and rip last.
Load ==
  /\ AtStub("load")
  /\ \E w \in Registers :
       /\ loaded[w] = Nobody /\ \A v \in w + 1 .. Words : loaded[v] # Nobody
       /\ loaded' = [loaded EXCEPT ![w] = regs[w]]
       /\ spc' = IF w = 1 THEN "call" ELSE "load"
  /\ UNCHANGED <<process, header, caller>>

\* call r12
Enter ==
  /\ AtStub("call")
  /\ spc' = "inside"
  /\ UNCHANGED <<process, header, loaded, caller>>

\* The call whose registers these are.
CallOf(r) == IF \A w \in Registers : r[w] = r[1] THEN r[1] ELSE Mixed

\* The function returns, and rax is stored.
Return ==
  /\ AtStub("inside")
  /\ rax' = CallOf(loaded)
  /\ spc' = "ungo"
  /\ UNCHANGED <<process, regs, go, done, loaded, caller>>

\* Variation: go is left set.
UngoForgets ==
  /\ AtStub("ungo")
  /\ spc' = "done"
  /\ UNCHANGED <<process, header, loaded, caller>>

Ungo ==
  /\ AtStub("ungo")
  /\ go' = FALSE
  /\ spc' = "done"
  /\ UNCHANGED <<process, regs, done, rax, loaded, caller>>

Done ==
  /\ AtStub("done")
  /\ done' = TRUE
  /\ spc' = "sleep"
  /\ UNCHANGED <<process, regs, go, rax, loaded, caller>>

\* sceKernelUsleep(100000) returns.
Wake ==
  /\ AtStub("sleep")
  /\ spc' = "check"
  /\ UNCHANGED <<process, header, loaded, caller>>

-----------------------------------------------------------------------------
\* The process exits or is killed.
End ==
  /\ running /\ running' = FALSE
  /\ UNCHANGED <<stopped, stops, header, stub, caller>>

\* A breakpoint, or its debugger, stops every thread of the process.
Stop ==
  /\ running /\ ~stopped /\ stops < MaxStops
  /\ stopped' = TRUE /\ stops' = stops + 1
  /\ UNCHANGED <<running, header, stub, caller>>

\* The debugger's handler thread resumes it, unless that thread is in a call.
Resume ==
  /\ running /\ stopped
  /\ \A t \in Callers : t = Debugger => pc[t] = "idle"
  /\ stopped' = FALSE
  /\ UNCHANGED <<running, stops, header, stub, caller>>

-----------------------------------------------------------------------------
CallerStep(t) ==
  Copy(t) \/ Trigger(t) \/ Poll(t) \/ Clear(t) \/ ReadRax(t) \/ Fail(t)

StubStep == Check \/ Load \/ Enter \/ Return \/ Ungo \/ Done \/ Wake

Next ==
  \/ \E t \in Callers, c \in Calls : Call(t, c)
  \/ \E t \in Callers : CallerStep(t)
  \/ StubStep
  \/ End \/ Stop \/ Resume

SafeSpec == Init /\ [][Next]_vars

\* Handler threads and the stub thread are scheduled, functions return, and
\* a debugger resumes what it has stopped.
Spec ==
  /\ SafeSpec
  /\ \A t \in Callers : WF_vars(CallerStep(t))
  /\ WF_vars(StubStep) /\ WF_vars(Resume)

-----------------------------------------------------------------------------
\* Every field keeps its range: registers are written inside the header, and
\* a caller has a call exactly while it is in the system call.
TypeOK ==
  /\ running \in BOOLEAN /\ stopped \in BOOLEAN /\ stops \in 0..MaxStops
  /\ go \in BOOLEAN /\ done \in BOOLEAN
  /\ regs \in [Registers -> Calls \cup {Nobody}]
  /\ loaded \in [Registers -> Calls \cup {Nobody}]
  /\ rax \in Calls \cup {Nobody, Mixed}
  /\ spc \in {"check", "load", "call", "inside", "ungo", "done", "sleep"}
  /\ pc \in [Callers -> {"idle", "copy", "go", "poll", "clear", "rax"}]
  /\ cur \in [Callers -> Calls \cup {Nobody}]
  /\ copied \in [Callers -> 0..Words]
  /\ answer \in [Calls -> Calls \cup {Nobody, Mixed, Zero}]
  /\ \A t \in Callers : pc[t] = "idle" <=> cur[t] = Nobody

\* What a caller is answered is the value of its own call, or zero when the
\* process has gone, for which proc_call_handle reports no error.
AnswersOwn == \A c \in Calls : answer[c] \in {Nobody, c, Zero}

\* A caller that has left the loop "check until done" of
\* sys_proc_call_handle: its function has returned.
PolledUntilDone ==
  \A t \in Callers : pc[t] \in {"clear", "rax"} => rax = cur[t]

\* A call returns, also one whose process ends or is stopped for a while.
EveryCallReturns == \A t \in Callers : pc[t] # "idle" ~> pc[t] = "idle"

-----------------------------------------------------------------------------
Inside == IF spc = "inside" THEN CallOf(loaded) ELSE Nobody

Progress(c) ==
  IF rax = c THEN "returned" ELSE IF Inside = c THEN "entered" ELSE "asked"

Status == [c \in Calls |->
  IF answer[c] = Zero THEN "failed"
  ELSE IF answer[c] # Nobody THEN "answered"
  ELSE IF Active(c) THEN Progress(c) ELSE "new"]

Promise == INSTANCE RemoteCall WITH status <- Status, inside <- Inside

\* Header, polling and sleeping are invisible to callers: a function is
\* entered once, for a call that has asked for it, and answered afterwards.
CallsAreAtomic == Promise!Spec

=============================================================================
