---------------------------- MODULE DebugServer ----------------------------
(***************************************************************************)
(* The ps4debug server thread structure: the accept loop of start_server,  *)
(* one handle_client thread per accepted connection, the table of client   *)
(* slots (servclients) they share, and the single debugger session that    *)
(* lives in three unlocked globals: g_debugging, curdbgcli and curdbgctx.  *)
(*                                                                         *)
(* A connection stands for itself, for its socket and for its handler      *)
(* thread.  An action is one access to shared memory, or one ptrace/socket *)
(* call, with the thread-local code around it; pc[c] names the statement   *)
(* the thread of c executes next.  No lock exists in the code, so every    *)
(* interleaving of these actions is a behaviour.                           *)
(***************************************************************************)
EXTENDS Naturals

CONSTANTS
  MaxClients,     \* SERVER_MAXCLIENTS
  Conns,          \* connections ever made to the server (bounds the model)
  Debuggers,      \* those of them that send debug commands
  Pids,           \* processes a client may attach to
  NoConn, NoPid,  \* zeroed fd and pid fields
  Faults          \* what the environment may do wrong, see FaultKinds

\* "connect": no listener on the tool's side.  "continue": PT_CONTINUE comes
\* before the stop of PT_ATTACH.  "kill": a debugged process gets SIGKILL.
\* "torn": a tool hangs up between header and payload.  "reuse": the freed
\* payload of a command is handed out again before its handler reads it.
FaultKinds == {"connect", "continue", "kill", "torn", "reuse"}

ASSUME ConstantsAssumption ==
  /\ MaxClients \in Nat \ {0}
  /\ NoConn \notin Conns
  /\ Debuggers \subseteq Conns
  /\ NoPid \notin Pids
  /\ Faults \subseteq FaultKinds

Slots == 1..MaxClients
NoSlot == 0

VARIABLES
  host,        \* the process the server threads live in
  peer,        \* the remote end of each connection
  sock,        \* connections whose server-side socket is open
  used,        \* servclients[i].id # 0
  slotFd,      \* servclients[i].fd
  debugging,   \* servclients[i].debugging
  ctxPid,      \* servclients[i].dbgctx.pid
  chan,        \* servclients[i].dbgctx.dbgfd is connected
  gDebugging,  \* g_debugging
  curCli,      \* curdbgcli
  curCtx,      \* curdbgctx
  target,      \* the processes, as ptrace sees them
  pc,          \* next statement of each handler thread
  svc,         \* the svc argument of each handler thread
  want,        \* the pid in the attach packet being handled
  ctx,         \* the dbgctx argument of the call in progress
  after        \* where debug_cleanup returns to

table   == <<sock, used, slotFd, svc>>
session == <<debugging, ctxPid, chan>>
globals == <<gDebugging, curCli, curCtx>>
locals  == <<want, ctx, after>>
vars == <<host, peer, sock, used, slotFd, svc, debugging, ctxPid, chan,
          gDebugging, curCli, curCtx, target, pc, want, ctx, after>>

(***************************************************************************)
(* Program points.                                                         *)
(***************************************************************************)
AcceptPCs  == {"setfd", "reset"}              \* accept thread, on behalf of c
FreePCs    == {"close", "test", "wipe"}       \* free_client, slot given back
CleanPCs   == {"clearDbg", "clearFlag", "clearCli", "clearCtx", "release"}
AttachPCs  == {"setcli", "setctx", "attach", "trace", "continue",
               "flag", "connect", "mark", "bind"}
CommandPCs == {"payload", "check", "detach", "command", "intr", "sigkill",
               "rebootClean", "reboot"}
HandlerPCs == {"loop", "free"} \cup FreePCs \cup CleanPCs \cup AttachPCs
                \cup CommandPCs
PCs        == {"none", "refused", "done"} \cup AcceptPCs \cup HandlerPCs

\* The payload of an attach packet is still allocated.
WantPCs    == {"payload", "check", "setcli", "setctx"}

TargetStates == {"free", "traced", "killed", "dying", "dead"}
Traced == {p \in Pids : target[p] \in {"traced", "killed", "dying"}}

\* The thread of c is between its first statement and its return.
Live(c) == pc[c] \in HandlerPCs

\* The thread of c is between PT_ATTACH and the answer to the tool.
Attaching(c) == pc[c] \in {"continue", "flag", "connect", "mark", "bind"}

\* c has a slot: the accept thread works for it, or its thread runs.
Holds(c) == Live(c) \/ pc[c] \in AcceptPCs

\* c has given its slot back (id = 0) and is still inside free_client.
Freeing(c) == pc[c] \in FreePCs \/ (pc[c] \in CleanPCs /\ after[c] = "wipe")

Init ==
  /\ host = "up"
  /\ peer = [c \in Conns |-> "idle"]
  /\ sock = {}
  /\ used = [i \in Slots |-> FALSE]
  /\ slotFd = [i \in Slots |-> NoConn]
  /\ debugging = [i \in Slots |-> FALSE]
  /\ ctxPid = [i \in Slots |-> NoPid]
  /\ chan = [i \in Slots |-> FALSE]
  /\ gDebugging = FALSE
  /\ curCli = NoSlot
  /\ curCtx = NoSlot
  /\ target = [p \in Pids |-> "free"]
  /\ pc = [c \in Conns |-> "none"]
  /\ svc = [c \in Conns |-> NoSlot]
  /\ want = [c \in Conns |-> NoPid]
  /\ ctx = [c \in Conns |-> NoSlot]
  /\ after = [c \in Conns |-> "loop"]

At(c, from) == host = "up" /\ pc[c] = from
Goto(c, to) == pc' = [pc EXCEPT ![c] = to]

\* A load or store through a NULL pointer ends the process.
Crash ==
  /\ host' = "crashed"
  /\ UNCHANGED <<peer, table, session, globals, target, pc, locals>>

(***************************************************************************)
(* The environment: tools dial, hang up; a traced process gets SIGKILL.    *)
(***************************************************************************)
Dial(c) ==
  /\ host = "up" /\ peer[c] = "idle"
  /\ peer' = [peer EXCEPT ![c] = "open"]
  /\ UNCHANGED <<host, table, session, globals, target, pc, locals>>

\* A tool that hangs up between a header and its payload is a torn command.
HangUp(c) ==
  /\ host = "up" /\ peer[c] = "open"
  /\ pc[c] = "payload" => "torn" \in Faults
  /\ peer' = [peer EXCEPT ![c] = "left"]
  /\ UNCHANGED <<host, table, session, globals, target, pc, locals>>

Kill(p) ==
  /\ host = "up" /\ "kill" \in Faults /\ target[p] = "traced"
  /\ target' = [target EXCEPT ![p] = "killed"]
  /\ UNCHANGED <<host, peer, table, session, globals, pc, locals>>

\* handle_client frees the payload before cmd_handler reads the pid in it.
Reuse(c) ==
  /\ host = "up" /\ "reuse" \in Faults /\ pc[c] \in AttachPCs \ WantPCs
  /\ \E p \in Pids \cup {NoPid} : want' = [want EXCEPT ![c] = p]
  /\ UNCHANGED <<host, peer, table, session, globals, target, pc, ctx, after>>

(***************************************************************************)
(* start_server: accept, then alloc_client (first slot whose id is 0).  A  *)
(* connection that finds the table full keeps its descriptor and gets no   *)
(* thread.                                                                 *)
(***************************************************************************)
\* Variation: a full table gives its last slot away again.
FirstFreeOrLast(i) ==
  i = MaxClients \/ (~used[i] /\ \A j \in Slots : j < i => used[j])

FirstFree(i) == ~used[i] /\ \A j \in Slots : j < i => used[j]

CanAccept(c) ==
  /\ At(c, "none") /\ peer[c] # "idle"
  /\ \A d \in Conns : pc[d] \notin AcceptPCs

Accept(c) ==
  /\ CanAccept(c)
  /\ \E i \in Slots :
       /\ FirstFree(i)
       /\ used' = [used EXCEPT ![i] = TRUE]
       /\ svc' = [svc EXCEPT ![c] = i]
  /\ sock' = sock \cup {c}
  /\ Goto(c, "setfd")
  /\ UNCHANGED <<host, peer, slotFd, session, globals, target, locals>>

Refuse(c) ==
  /\ CanAccept(c)
  /\ \A i \in Slots : used[i]
  /\ sock' = sock \cup {c}
  /\ Goto(c, "refused")
  /\ UNCHANGED <<host, peer, used, slotFd, svc, session, globals, target, locals>>

AcceptSetFd(c) ==
  /\ At(c, "setfd")
  /\ slotFd' = [slotFd EXCEPT ![svc[c]] = c]
  /\ Goto(c, "reset")
  /\ UNCHANGED <<host, peer, sock, used, svc, session, globals, target, locals>>

\* debugging = 0, memset of dbgctx, then the handler thread starts.
AcceptReset(c) ==
  /\ At(c, "reset")
  /\ debugging' = [debugging EXCEPT ![svc[c]] = FALSE]
  /\ ctxPid' = [ctxPid EXCEPT ![svc[c]] = NoPid]
  /\ chan' = [chan EXCEPT ![svc[c]] = FALSE]
  /\ Goto(c, "loop")
  /\ UNCHANGED <<host, peer, table, globals, target, locals>>

(***************************************************************************)
(* handle_client: receiving.  Commands that touch no debugger state leave  *)
(* this module's state alone; RecvInvalid is any command that ends in the  *)
(* error path (unknown command, failing handler, failing allocation).      *)
(***************************************************************************)
\* Variation: the pid is not taken from the packet.
RecvAttachNoPid(c, p) ==
  /\ c \in Debuggers /\ At(c, "loop") /\ peer[c] = "open"
  /\ Goto(c, "payload")
  /\ UNCHANGED <<host, peer, table, session, globals, target, locals>>

RecvAttach(c, p) ==
  /\ c \in Debuggers /\ At(c, "loop") /\ peer[c] = "open"
  /\ want' = [want EXCEPT ![c] = p]
  /\ Goto(c, "payload")
  /\ UNCHANGED <<host, peer, table, session, globals, target, ctx, after>>

RecvDetach(c) ==
  /\ c \in Debuggers /\ At(c, "loop") /\ peer[c] = "open"
  /\ Goto(c, "detach")
  /\ UNCHANGED <<host, peer, table, session, globals, target, locals>>

\* Every other CMD_DEBUG command: its handler works on curdbgctx->pid.
RecvDebugCommand(c) ==
  /\ c \in Debuggers /\ At(c, "loop") /\ peer[c] = "open"
  /\ Goto(c, "command")
  /\ UNCHANGED <<host, peer, table, session, globals, target, locals>>

RecvInvalid(c) ==
  /\ At(c, "loop") /\ peer[c] = "open"
  /\ Goto(c, "free")
  /\ UNCHANGED <<host, peer, table, session, globals, target, locals>>

\* Variation: an end of stream is taken for an empty packet.
RecvEndIgnored(c) ==
  /\ At(c, "loop") /\ c \notin sock
  /\ Goto(c, "free")
  /\ UNCHANGED <<host, peer, table, session, globals, target, locals>>

\* End of stream, or a socket closed underneath: net_recv_data returns 0.
RecvEnd(c) ==
  /\ At(c, "loop") /\ (peer[c] = "left" \/ c \notin sock)
  /\ Goto(c, "free")
  /\ UNCHANGED <<host, peer, table, session, globals, target, locals>>

\* The payload of an attach: a forced receive, which never ends once the
\* peer has closed the stream.
RecvPayload(c) ==
  /\ At(c, "payload") /\ peer[c] = "open"
  /\ Goto(c, "check")
  /\ UNCHANGED <<host, peer, table, session, globals, target, locals>>

\* The special case for CMD_DEBUG_ATTACH before the dispatch.
CheckAttach(c) ==
  /\ At(c, "check")
  /\ Goto(c, IF gDebugging THEN "attach" ELSE "setcli")
  /\ UNCHANGED <<host, peer, table, session, globals, target, locals>>

SetCurCli(c) ==
  /\ At(c, "setcli")
  /\ curCli' = svc[c]
  /\ Goto(c, "setctx")
  /\ UNCHANGED <<host, peer, table, session, gDebugging, curCtx, target, locals>>

SetCurCtx(c) ==
  /\ At(c, "setctx")
  /\ curCtx' = svc[c]
  /\ Goto(c, "attach")
  /\ UNCHANGED <<host, peer, table, session, gDebugging, curCli, target, locals>>

(***************************************************************************)
(* debug_attach_handle and connect_debugger.  Every error return is 1, so  *)
(* the client is disconnected.                                             *)
(***************************************************************************)
AttachGuard(c) ==
  /\ At(c, "attach")
  /\ Goto(c, IF gDebugging THEN "free" ELSE "trace")
  /\ UNCHANGED <<host, peer, table, session, globals, target, locals>>

AttachTrace(c) ==
  /\ At(c, "trace")
  /\ IF want[c] \in Pids /\ target[want[c]] = "free"
       THEN /\ target' = [target EXCEPT ![want[c]] = "traced"]
            /\ Goto(c, "continue")
       ELSE /\ Goto(c, "free")
            /\ UNCHANGED target
  /\ UNCHANGED <<host, peer, table, session, globals, locals>>

\* PT_CONTINUE fails when the stop of PT_ATTACH has not happened yet.
AttachContinue(c) ==
  /\ At(c, "continue")
  /\ \/ want[c] \in Traced /\ Goto(c, "flag")
     \/ /\ "continue" \in Faults \/ want[c] \notin Traced
        /\ Goto(c, "free")
  /\ UNCHANGED <<host, peer, table, session, globals, target, locals>>

\* connect_debugger(curdbgctx, &curdbgcli->client), first statement.
AttachFlag(c) ==
  /\ At(c, "flag")
  /\ ctx' = [ctx EXCEPT ![c] = IF curCli = NoSlot THEN NoSlot ELSE curCtx]
  /\ gDebugging' = TRUE
  /\ Goto(c, "connect")
  /\ UNCHANGED <<host, peer, table, session, curCli, curCtx, target, want, after>>

AttachConnect(c) ==
  /\ At(c, "connect")
  /\ IF ctx[c] = NoSlot
       THEN Crash
       ELSE /\ \/ /\ chan' = [chan EXCEPT ![ctx[c]] = TRUE]
                  /\ Goto(c, "mark")
               \/ /\ "connect" \in Faults
                  /\ chan' = [chan EXCEPT ![ctx[c]] = FALSE]
                  /\ Goto(c, "free")
            /\ UNCHANGED <<host, peer, table, debugging, ctxPid, globals,
                           target, locals>>

AttachMark(c) ==
  /\ At(c, "mark")
  /\ IF curCli = NoSlot
       THEN Crash
       ELSE /\ debugging' = [debugging EXCEPT ![curCli] = TRUE]
            /\ Goto(c, "bind")
            /\ UNCHANGED <<host, peer, table, ctxPid, chan, globals, target,
                           locals>>

\* Variation: the session never learns its pid.
AttachBindNoPid(c) ==
  /\ At(c, "bind")
  /\ want' = [want EXCEPT ![c] = NoPid]
  /\ Goto(c, "loop")
  /\ UNCHANGED <<host, peer, table, session, globals, target, ctx, after>>

AttachBind(c) ==
  /\ At(c, "bind")
  /\ IF curCtx = NoSlot
       THEN Crash
       ELSE /\ ctxPid' = [ctxPid EXCEPT ![curCtx] = want[c]]
            /\ want' = [want EXCEPT ![c] = NoPid]
            /\ ctx' = [ctx EXCEPT ![c] = NoSlot]
            /\ Goto(c, "loop")
            /\ UNCHANGED <<host, peer, table, debugging, chan, globals,
                           target, after>>

(***************************************************************************)
(* debug_cleanup.  Callers load curdbgctx (or pass their own context), the *)
(* body clears the flag of curdbgcli and the globals one by one, then      *)
(* works on its argument: restore the code bytes, zero the debug registers,*)
(* PT_CONTINUE, PT_DETACH, close the interrupt socket.                     *)
(***************************************************************************)
CallCleanup(c, from, ret) ==
  /\ At(c, from)
  /\ ctx' = [ctx EXCEPT ![c] = curCtx]
  /\ after' = [after EXCEPT ![c] = ret]
  /\ Goto(c, "clearDbg")
  /\ UNCHANGED <<host, peer, table, session, globals, target, want>>

Detach(c) == CallCleanup(c, "detach", "loop")

\* Variation: the client stays marked as debugging.
ClearDebuggingForgets(c) ==
  /\ At(c, "clearDbg")
  /\ Goto(c, "clearFlag")
  /\ UNCHANGED <<host, peer, table, session, globals, target, locals>>

ClearDebugging(c) ==
  /\ At(c, "clearDbg")
  /\ IF curCli = NoSlot
       THEN Crash
       ELSE /\ debugging' = [debugging EXCEPT ![curCli] = FALSE]
            /\ Goto(c, "clearFlag")
            /\ UNCHANGED <<host, peer, table, ctxPid, chan, globals, target,
                           locals>>

ClearFlag(c) ==
  /\ At(c, "clearFlag")
  /\ gDebugging' = FALSE
  /\ Goto(c, "clearCli")
  /\ UNCHANGED <<host, peer, table, session, curCli, curCtx, target, locals>>

ClearCurCli(c) ==
  /\ At(c, "clearCli")
  /\ curCli' = NoSlot
  /\ Goto(c, "clearCtx")
  /\ UNCHANGED <<host, peer, table, session, gDebugging, curCtx, target, locals>>

ClearCurCtx(c) ==
  /\ At(c, "clearCtx")
  /\ curCtx' = NoSlot
  /\ Goto(c, "release")
  /\ UNCHANGED <<host, peer, table, session, gDebugging, curCli, target, locals>>

\* What PT_DETACH leaves of a process: a signalled one does not survive.
Detached(p) == IF target[p] = "traced" THEN "free" ELSE "dead"

\* Variation: the process is never detached.
ReleaseForgetsDetach(c) ==
  /\ At(c, "release")
  /\ chan' = [chan EXCEPT ![ctx[c]] = FALSE]
  /\ Goto(c, after[c])
  /\ ctx' = [ctx EXCEPT ![c] = NoSlot]
  /\ after' = [after EXCEPT ![c] = "loop"]
  /\ UNCHANGED <<host, peer, table, debugging, ctxPid, globals, target, want>>

Release(c) ==
  /\ At(c, "release")
  /\ IF ctx[c] = NoSlot
       THEN Crash
       ELSE /\ target' = [p \in Pids |->
                            IF p = ctxPid[ctx[c]] /\ p \in Traced
                              THEN Detached(p) ELSE target[p]]
            /\ chan' = [chan EXCEPT ![ctx[c]] = FALSE]
            /\ Goto(c, after[c])
            /\ ctx' = [ctx EXCEPT ![c] = NoSlot]
            /\ after' = [after EXCEPT ![c] = "loop"]
            /\ UNCHANGED <<host, peer, table, debugging, ctxPid, globals, want>>

(***************************************************************************)
(* The idle branch of handle_client and check_debug_interrupt.  Stops that *)
(* are reported to the tool change nothing here; the handler may also end  *)
(* in the error path (pfmalloc fails, the interrupt socket is reset).      *)
(***************************************************************************)
Poll(c) ==
  /\ At(c, "loop") /\ peer[c] = "open" /\ debugging[svc[c]]
  /\ Goto(c, "intr")
  /\ UNCHANGED <<host, peer, table, session, globals, target, locals>>

\* wait4 reports SIGKILL; when it fails, status was never written.
StatusKilled(p) == p \in Traced => target[p] = "killed"

Interrupt(c) ==
  /\ At(c, "intr")
  /\ IF curCtx = NoSlot
       THEN Crash
       ELSE /\ \/ /\ \E to \in {"loop", "free"} : Goto(c, to)
                  /\ UNCHANGED <<target, locals>>
               \/ /\ StatusKilled(ctxPid[curCtx])
                  /\ target' = [p \in Pids |->
                       IF p = ctxPid[curCtx] /\ target[p] = "killed"
                         THEN "dying" ELSE target[p]]
                  /\ ctx' = [ctx EXCEPT ![c] = curCtx]
                  /\ after' = [after EXCEPT ![c] = "sigkill"]
                  /\ Goto(c, "clearDbg")
                  /\ UNCHANGED want
            /\ UNCHANGED <<host, peer, table, session, globals>>

\* PT_CONTINUE with SIGKILL on curdbgctx->pid, after debug_cleanup.
FinalKill(c) ==
  /\ At(c, "sigkill")
  /\ IF curCtx = NoSlot
       THEN Crash
       ELSE /\ target' = [p \in Pids |->
                            IF p = ctxPid[curCtx] /\ p \in Traced
                              THEN "dead" ELSE target[p]]
            /\ Goto(c, "loop")
            /\ UNCHANGED <<host, peer, table, session, globals, locals>>

\* The other debug commands: curdbgctx->pid is read, nothing here is written;
\* a failing ptrace call makes most handlers return nonzero.
DebugCommand(c) ==
  /\ At(c, "command")
  /\ IF curCtx = NoSlot
       THEN Crash
       ELSE /\ \E to \in {"loop", "free"} : Goto(c, to)
            /\ UNCHANGED <<host, peer, table, session, globals, target, locals>>

(***************************************************************************)
(* console_reboot_handle.                                                  *)
(***************************************************************************)
RecvReboot(c) ==
  /\ At(c, "loop") /\ peer[c] = "open"
  /\ Goto(c, IF gDebugging THEN "rebootClean" ELSE "reboot")
  /\ UNCHANGED <<host, peer, table, session, globals, target, locals>>

RebootCleanup(c) == CallCleanup(c, "rebootClean", "reboot")

Reboot(c) ==
  /\ At(c, "reboot")
  /\ host' = "rebooted"
  /\ UNCHANGED <<peer, table, session, globals, target, pc, locals>>

(***************************************************************************)
(* free_client: the slot is given back first, then torn down.              *)
(***************************************************************************)
FreeId(c) ==
  /\ At(c, "free")
  /\ used' = [used EXCEPT ![svc[c]] = FALSE]
  /\ want' = [want EXCEPT ![c] = NoPid]
  /\ ctx' = [ctx EXCEPT ![c] = NoSlot]
  /\ Goto(c, "close")
  /\ UNCHANGED <<host, peer, sock, slotFd, svc, session, globals, target, after>>

FreeClose(c) ==
  /\ At(c, "close")
  /\ sock' = sock \ {slotFd[svc[c]]}
  /\ Goto(c, "test")
  /\ UNCHANGED <<host, peer, used, slotFd, svc, session, globals, target, locals>>

\* Variation: free_client never ends the session of its client.
FreeTestSkips(c) ==
  /\ At(c, "test")
  /\ Goto(c, "wipe")
  /\ UNCHANGED <<host, peer, table, session, globals, target, locals>>

\* Variation: free_client ends the session whoever owns it.
FreeTestAlways(c) ==
  /\ At(c, "test")
  /\ ctx' = [ctx EXCEPT ![c] = svc[c]]
  /\ after' = [after EXCEPT ![c] = "wipe"]
  /\ Goto(c, "clearDbg")
  /\ UNCHANGED <<host, peer, table, session, globals, target, want>>

FreeTest(c) ==
  /\ At(c, "test")
  /\ IF debugging[svc[c]]
       THEN /\ ctx' = [ctx EXCEPT ![c] = svc[c]]
            /\ after' = [after EXCEPT ![c] = "wipe"]
            /\ Goto(c, "clearDbg")
       ELSE Goto(c, "wipe") /\ UNCHANGED <<ctx, after>>
  /\ UNCHANGED <<host, peer, table, session, globals, target, want>>

FreeWipe(c) ==
  /\ At(c, "wipe")
  /\ used' = [used EXCEPT ![svc[c]] = FALSE]
  /\ slotFd' = [slotFd EXCEPT ![svc[c]] = NoConn]
  /\ debugging' = [debugging EXCEPT ![svc[c]] = FALSE]
  /\ ctxPid' = [ctxPid EXCEPT ![svc[c]] = NoPid]
  /\ chan' = [chan EXCEPT ![svc[c]] = FALSE]
  /\ svc' = [svc EXCEPT ![c] = NoSlot]
  /\ Goto(c, "done")
  /\ UNCHANGED <<host, peer, sock, globals, target, locals>>

-----------------------------------------------------------------------------
\* What a tool decides.
Tool(c) ==
  \/ Dial(c) \/ HangUp(c) \/ RecvDetach(c) \/ RecvDebugCommand(c)
  \/ RecvInvalid(c) \/ RecvPayload(c) \/ RecvReboot(c)
  \/ \E p \in Pids : RecvAttach(c, p)

\* What the accept thread does for c.
Listener(c) == Accept(c) \/ Refuse(c) \/ AcceptSetFd(c) \/ AcceptReset(c)

\* What the handler thread of c does by itself.
Handler(c) ==
  \/ RecvEnd(c) \/ CheckAttach(c) \/ SetCurCli(c) \/ SetCurCtx(c)
  \/ AttachGuard(c) \/ AttachTrace(c) \/ AttachContinue(c) \/ AttachFlag(c)
  \/ AttachConnect(c) \/ AttachMark(c) \/ AttachBind(c)
  \/ Detach(c) \/ RebootCleanup(c) \/ ClearDebugging(c) \/ ClearFlag(c)
  \/ ClearCurCli(c) \/ ClearCurCtx(c) \/ Release(c)
  \/ Poll(c) \/ Interrupt(c) \/ FinalKill(c) \/ DebugCommand(c) \/ Reboot(c)
  \/ FreeId(c) \/ FreeClose(c) \/ FreeTest(c) \/ FreeWipe(c)

Next ==
  \/ \E c \in Conns : Tool(c) \/ Listener(c) \/ Handler(c) \/ Reuse(c)
  \/ \E p \in Pids : Kill(p)

\* Threads are scheduled by the kernel; nothing obliges a tool to act.
Fairness ==
  \A c \in Conns : WF_vars(Handler(c)) /\ WF_vars(Listener(c))

SafeSpec == Init /\ [][Next]_vars
Spec == SafeSpec /\ Fairness

(***************************************************************************)
(* Properties.                                                             *)
(***************************************************************************)

\* Every field keeps its range: slots point at slots, contexts at processes.
TypeOK ==
  /\ host \in {"up", "crashed", "rebooted"}
  /\ peer \in [Conns -> {"idle", "open", "left"}]
  /\ sock \subseteq Conns
  /\ used \in [Slots -> BOOLEAN]
  /\ slotFd \in [Slots -> Conns \cup {NoConn}]
  /\ debugging \in [Slots -> BOOLEAN]
  /\ ctxPid \in [Slots -> Pids \cup {NoPid}]
  /\ chan \in [Slots -> BOOLEAN]
  /\ gDebugging \in BOOLEAN
  /\ curCli \in Slots \cup {NoSlot}
  /\ curCtx \in Slots \cup {NoSlot}
  /\ target \in [Pids -> TargetStates]
  /\ pc \in [Conns -> PCs]
  /\ svc \in [Conns -> Slots \cup {NoSlot}]
  /\ \A c \in Conns : Holds(c) => svc[c] \in Slots
  /\ want \in [Conns -> Pids \cup {NoPid}]
  /\ \A c \in Conns : pc[c] \in WantPCs => want[c] \in Pids
  /\ ctx \in [Conns -> Slots \cup {NoSlot}]
  /\ after \in [Conns -> {"loop", "wipe", "sigkill", "reboot"}]

(***************************************************************************)
(* What the server means to keep.  Its threads take no lock: DebugRaces    *)
(* says which of their meetings break these, and that nothing else does.   *)
(***************************************************************************)

\* Two threads never work on one slot; the slot of a running handler records
\* that handler's socket, and slot and socket stay its own until free_client
\* gives them up (alloc_client, the accept loop, free_client).
SlotOwned ==
  \A c \in Conns : Holds(c) =>
    /\ \A d \in Conns \ {c} : Holds(d) => svc[c] # svc[d]
    /\ Live(c) => slotFd[svc[c]] = c
    /\ ~Freeing(c) => used[svc[c]] /\ c \in sock

\* A client marked as debugging is the debugger: g_debugging is set, both
\* globals point at its slot, its interrupt channel is up, and its context
\* names a process that is traced (debug_attach_handle, debug_cleanup).
SessionConsistent ==
  host = "up" =>
    \A i \in Slots : debugging[i] =>
      /\ gDebugging /\ curCli = i /\ curCtx = i /\ chan[i]
      /\ \E c \in Conns : /\ Live(c) /\ svc[c] = i
                          /\ pc[c] = "bind" \/ ctxPid[i] \in Traced

\* No thread follows a NULL curdbgcli or curdbgctx.
NoCrash == host # "crashed"

=============================================================================
