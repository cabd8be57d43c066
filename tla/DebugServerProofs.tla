------------------------- MODULE DebugServerProofs -------------------------
(***************************************************************************)
(* What DebugServer keeps for every number of slots, connections and       *)
(* processes, and every fault.  Its fields keep their ranges; slots are    *)
(* owned until a connection is accepted inside a free_client; and until    *)
(* one of the meetings of DebugRaces happens, the three globals agree with *)
(* the slots, no thread follows one of them that is NULL, and sessions     *)
(* implement DebuggerPromise.                                              *)
(***************************************************************************)
EXTENDS DebugRaces, TLAPS

USE DEF At, Goto, table, session, globals, locals, Slots, NoSlot

-----------------------------------------------------------------------------
\* Every field starts in its range.
LEMMA InitType == Init => TypeOK
<1> SUFFICES ASSUME Init PROVE TypeOK
  OBVIOUS
<1>1. \A c \in Conns : pc[c] = "none"
  BY DEF Init
<1>2. \A c \in Conns : ~Holds(c) /\ pc[c] \notin WantPCs
  BY <1>1 DEF Holds, Live, WantPCs, AcceptPCs, HandlerPCs, FreePCs, CleanPCs,
     AttachPCs, CommandPCs
<1>3. pc \in [Conns -> PCs] /\ target \in [Pids -> TargetStates]
  BY DEF Init, PCs, TargetStates
<1>4. QED
  BY <1>2, <1>3 DEF Init, TypeOK

\* A crash changes nothing but the host.
LEMMA CrashType == TypeOK /\ Crash => TypeOK'
BY DEF TypeOK, Crash, Holds, Live

\* The accept loop keeps the ranges.
LEMMA ListenerType ==
  ASSUME TypeOK, NEW c \in Conns, Listener(c) PROVE TypeOK'
<1> USE DEF TypeOK, Holds, Live, WantPCs, PCs, HandlerPCs, AcceptPCs, FreePCs,
        CleanPCs, AttachPCs, CommandPCs
<1>1. CASE Accept(c)
  BY <1>1 DEF Accept, CanAccept
<1>2. CASE Refuse(c)
  BY <1>2 DEF Refuse, CanAccept
<1>3. CASE AcceptSetFd(c)
  BY <1>3 DEF AcceptSetFd
<1>4. CASE AcceptReset(c)
  BY <1>4 DEF AcceptReset
<1>5. QED
  BY <1>1, <1>2, <1>3, <1>4 DEF Listener

\* What tools decide keeps the ranges.
LEMMA ToolType ==
  ASSUME TypeOK, NEW c \in Conns, Tool(c) PROVE TypeOK'
<1> USE DEF TypeOK, Holds, Live, WantPCs, PCs, HandlerPCs, AcceptPCs, FreePCs,
        CleanPCs, AttachPCs, CommandPCs
<1>1. CASE Dial(c)
  BY <1>1 DEF Dial
<1>2. CASE HangUp(c)
  BY <1>2 DEF HangUp
<1>3. CASE RecvDetach(c)
  BY <1>3 DEF RecvDetach
<1>4. CASE RecvDebugCommand(c)
  BY <1>4 DEF RecvDebugCommand
<1>5. CASE RecvInvalid(c)
  BY <1>5 DEF RecvInvalid
<1>6. CASE RecvPayload(c)
  BY <1>6 DEF RecvPayload
<1>7. CASE RecvReboot(c)
  BY <1>7 DEF RecvReboot
<1>8. ASSUME NEW p \in Pids, RecvAttach(c, p) PROVE TypeOK'
  BY <1>8 DEF RecvAttach
<1>9. QED
  BY <1>1, <1>2, <1>3, <1>4, <1>5, <1>6, <1>7, <1>8 DEF Tool

\* The statements of attach and detach that follow no pointer keep the ranges.
LEMMA PlainType ==
  ASSUME TypeOK, NEW c \in Conns,
         \/ RecvEnd(c) \/ CheckAttach(c) \/ SetCurCli(c) \/ SetCurCtx(c)
         \/ AttachGuard(c) \/ AttachTrace(c) \/ AttachContinue(c) \/ AttachFlag(c)
         \/ Detach(c) \/ RebootCleanup(c) \/ ClearFlag(c) \/ ClearCurCli(c)
         \/ ClearCurCtx(c) \/ Poll(c) \/ Reboot(c)
  PROVE  TypeOK'
<1> USE DEF TypeOK, Holds, Live, WantPCs, PCs, HandlerPCs, AcceptPCs, FreePCs,
        CleanPCs, AttachPCs, CommandPCs
<1>1. CASE RecvEnd(c)
  BY <1>1 DEF RecvEnd
<1>2. CASE CheckAttach(c)
  BY <1>2 DEF CheckAttach
<1>3. CASE SetCurCli(c)
  BY <1>3 DEF SetCurCli
<1>4. CASE SetCurCtx(c)
  BY <1>4 DEF SetCurCtx
<1>5. CASE AttachGuard(c)
  BY <1>5 DEF AttachGuard
<1>6. CASE AttachContinue(c)
  BY <1>6 DEF AttachContinue
<1>7. CASE AttachFlag(c)
  BY <1>7 DEF AttachFlag
<1>8. CASE Detach(c)
  BY <1>8 DEF Detach, CallCleanup
<1>9. CASE RebootCleanup(c)
  BY <1>9 DEF RebootCleanup, CallCleanup
<1>10. CASE ClearFlag(c)
  BY <1>10 DEF ClearFlag
<1>11. CASE ClearCurCli(c)
  BY <1>11 DEF ClearCurCli
<1>12. CASE ClearCurCtx(c)
  BY <1>12 DEF ClearCurCtx
<1>13. CASE Poll(c)
  BY <1>13 DEF Poll
<1>14. CASE Reboot(c)
  BY <1>14 DEF Reboot
<1>15. CASE AttachTrace(c)
  <2>1. target' \in [Pids -> TargetStates]
    BY <1>15 DEF AttachTrace, TargetStates
  <2>2. pc' = [pc EXCEPT ![c] = "continue"] \/ pc' = [pc EXCEPT ![c] = "free"]
    BY <1>15 DEF AttachTrace
  <2>3. QED
    BY <1>15, <2>1, <2>2 DEF AttachTrace
<1>16. QED
  BY <1>1, <1>2, <1>3, <1>4, <1>5, <1>6, <1>7, <1>8, <1>9, <1>10, <1>11,
     <1>12, <1>13, <1>14, <1>15

\* So do those that crash when a pointer is NULL.
LEMMA DerefType ==
  ASSUME TypeOK, NEW c \in Conns,
         \/ AttachConnect(c) \/ AttachMark(c) \/ AttachBind(c)
         \/ ClearDebugging(c) \/ Release(c) \/ Interrupt(c) \/ FinalKill(c)
         \/ DebugCommand(c)
  PROVE  TypeOK'
<1> USE DEF TypeOK, Holds, Live, WantPCs, PCs, HandlerPCs, AcceptPCs, FreePCs,
        CleanPCs, AttachPCs, CommandPCs
<1>1. CASE AttachConnect(c)
  <2>1. CASE ctx[c] = NoSlot
    BY <1>1, <2>1, CrashType DEF AttachConnect
  <2>2. CASE ctx[c] # NoSlot
    <3>1. CASE pc' = [pc EXCEPT ![c] = "mark"]
      BY <1>1, <2>2, <3>1 DEF AttachConnect
    <3>2. CASE pc' = [pc EXCEPT ![c] = "free"]
      BY <1>1, <2>2, <3>2 DEF AttachConnect
    <3>3. QED
      BY <1>1, <2>2, <3>1, <3>2 DEF AttachConnect
  <2>3. QED
    BY <2>1, <2>2
<1>2. CASE AttachMark(c)
  <2>1. CASE curCli = NoSlot
    BY <1>2, <2>1, CrashType DEF AttachMark
  <2>2. CASE curCli # NoSlot
    BY <1>2, <2>2 DEF AttachMark
  <2>3. QED
    BY <2>1, <2>2
<1>3. CASE AttachBind(c)
  <2>1. CASE curCtx = NoSlot
    BY <1>3, <2>1, CrashType DEF AttachBind
  <2>2. CASE curCtx # NoSlot
    <3>1. pc' \in [Conns -> PCs] /\ \A d \in Conns \ {c} : pc'[d] = pc[d]
      BY <1>3, <2>2 DEF AttachBind
    <3>2. Holds(c) /\ pc'[c] \notin WantPCs
      BY <1>3, <2>2 DEF AttachBind
    <3>3. want[c] \in Pids \cup {NoPid}
      OBVIOUS
    <3>4. ctxPid' \in [Slots -> Pids \cup {NoPid}]
      BY <1>3, <2>2, <3>3 DEF AttachBind
    <3>5. /\ want' \in [Conns -> Pids \cup {NoPid}]
          /\ \A d \in Conns \ {c} : want'[d] = want[d]
          /\ ctx' \in [Conns -> Slots \cup {NoSlot}]
      BY <1>3, <2>2 DEF AttachBind
    <3>6. UNCHANGED <<host, peer, table, debugging, chan, globals, target, after>>
      BY <1>3, <2>2 DEF AttachBind
    <3>7. QED
      BY <3>1, <3>2, <3>4, <3>5, <3>6
  <2>3. QED
    BY <2>1, <2>2
<1>4. CASE ClearDebugging(c)
  <2>1. CASE curCli = NoSlot
    BY <1>4, <2>1, CrashType DEF ClearDebugging
  <2>2. CASE curCli # NoSlot
    BY <1>4, <2>2 DEF ClearDebugging
  <2>3. QED
    BY <2>1, <2>2
<1>5. CASE Release(c)
  <2>1. CASE ctx[c] = NoSlot
    BY <1>5, <2>1, CrashType DEF Release
  <2>2. CASE ctx[c] # NoSlot
    <3>1. target' \in [Pids -> TargetStates]
      BY <1>5, <2>2 DEF Release, Detached, TargetStates
    <3>2. pc' \in [Conns -> PCs] /\ \A d \in Conns \ {c} : pc'[d] = pc[d]
      BY <1>5, <2>2 DEF Release
    <3>3. Holds(c) /\ pc'[c] \notin WantPCs
      BY <1>5, <2>2 DEF Release
    <3>4. /\ chan' \in [Slots -> BOOLEAN]
          /\ ctx' \in [Conns -> Slots \cup {NoSlot}]
          /\ after' \in [Conns -> {"loop", "wipe", "sigkill", "reboot"}]
      BY <1>5, <2>2 DEF Release
    <3>5. UNCHANGED <<host, peer, table, debugging, ctxPid, globals, want>>
      BY <1>5, <2>2 DEF Release
    <3>6. QED
      BY <3>1, <3>2, <3>3, <3>4, <3>5
  <2>3. QED
    BY <2>1, <2>2
<1>6. CASE Interrupt(c)
  <2>1. CASE curCtx = NoSlot
    BY <1>6, <2>1, CrashType DEF Interrupt
  <2>2. CASE curCtx # NoSlot
    <3>1. target' \in [Pids -> TargetStates]
      BY <1>6, <2>2 DEF Interrupt, TargetStates
    <3>2. \E to \in {"loop", "free", "clearDbg"} : pc' = [pc EXCEPT ![c] = to]
      BY <1>6, <2>2 DEF Interrupt
    <3>3. /\ pc' \in [Conns -> PCs] /\ \A d \in Conns \ {c} : pc'[d] = pc[d]
          /\ pc'[c] \notin WantPCs
      BY <3>2
    <3>4. Holds(c)
      BY <1>6 DEF Interrupt
    <3>5. /\ ctx' \in [Conns -> Slots \cup {NoSlot}]
          /\ after' \in [Conns -> {"loop", "wipe", "sigkill", "reboot"}]
      BY <1>6, <2>2 DEF Interrupt
    <3>6. UNCHANGED <<host, peer, table, session, globals, want>>
      BY <1>6, <2>2 DEF Interrupt
    <3>7. QED
      BY <3>1, <3>3, <3>4, <3>5, <3>6
  <2>3. QED
    BY <2>1, <2>2
<1>7. CASE FinalKill(c)
  <2>1. CASE curCtx = NoSlot
    BY <1>7, <2>1, CrashType DEF FinalKill
  <2>2. CASE curCtx # NoSlot
    BY <1>7, <2>2 DEF FinalKill, TargetStates
  <2>3. QED
    BY <2>1, <2>2
<1>8. CASE DebugCommand(c)
  <2>1. CASE curCtx = NoSlot
    BY <1>8, <2>1, CrashType DEF DebugCommand
  <2>2. CASE curCtx # NoSlot
    BY <1>8, <2>2 DEF DebugCommand
  <2>3. QED
    BY <2>1, <2>2
<1>9. QED
  BY <1>1, <1>2, <1>3, <1>4, <1>5, <1>6, <1>7, <1>8

\* And free_client.
LEMMA FreeType ==
  ASSUME TypeOK, NEW c \in Conns,
         FreeId(c) \/ FreeClose(c) \/ FreeTest(c) \/ FreeWipe(c)
  PROVE  TypeOK'
<1> USE DEF TypeOK, Holds, Live, WantPCs, PCs, HandlerPCs, AcceptPCs, FreePCs,
        CleanPCs, AttachPCs, CommandPCs
<1>1. CASE FreeId(c)
  BY <1>1 DEF FreeId
<1>2. CASE FreeClose(c)
  BY <1>2 DEF FreeClose
<1>3. CASE FreeTest(c)
  BY <1>3 DEF FreeTest
<1>4. CASE FreeWipe(c)
  BY <1>4 DEF FreeWipe
<1>5. QED
  BY <1>1, <1>2, <1>3, <1>4

LEMMA StepType == TypeOK /\ [Next]_vars => TypeOK'
<1> SUFFICES ASSUME TypeOK, [Next]_vars PROVE TypeOK'
  OBVIOUS
<1>1. ASSUME NEW c \in Conns, Tool(c) PROVE TypeOK'
  BY <1>1, ToolType
<1>2. ASSUME NEW c \in Conns, Listener(c) PROVE TypeOK'
  BY <1>2, ListenerType
<1>3. ASSUME NEW c \in Conns, Handler(c) PROVE TypeOK'
  BY <1>3, PlainType, DerefType, FreeType DEF Handler
<1>4. ASSUME NEW c \in Conns, Reuse(c) PROVE TypeOK'
  BY <1>4 DEF Reuse, TypeOK, Holds, Live, WantPCs
<1>5. ASSUME NEW p \in Pids, Kill(p) PROVE TypeOK'
  BY <1>5 DEF Kill, TypeOK, TargetStates, Holds, Live
<1>6. CASE UNCHANGED vars
  BY <1>6 DEF vars, TypeOK, Holds, Live
<1>7. QED
  BY <1>1, <1>2, <1>3, <1>4, <1>5, <1>6 DEF Next

\* Every field of DebugServer keeps its range, a held slot is a slot, and an
\* attach in progress has a pid, whatever the threads race for.
THEOREM TypeCorrect == SafeSpec => []TypeOK
BY InitType, StepType, PTL DEF SafeSpec

-----------------------------------------------------------------------------
\* SlotOwned alone is not inductive: the accept thread has to have recorded
\* the socket before it starts the handler.
SlotInv ==
  /\ TypeOK /\ SlotOwned
  /\ \A c \in Conns : pc[c] = "reset" => slotFd[svc[c]] = c

\* The thread of d stays outside, inside or on its way out of its slot.
Stays(d) ==
  /\ Holds(d)' = Holds(d) /\ Live(d)' = Live(d) /\ Freeing(d)' = Freeing(d)
  /\ pc'[d] = "reset" <=> pc[d] = "reset"

\* A step that leaves the table alone, with every thread where it is as far
\* as the table is concerned, keeps the slots owned.
LEMMA QuietSlots ==
  ASSUME SlotInv, TypeOK', UNCHANGED table, \A d \in Conns : Stays(d)
  PROVE  SlotInv'
BY DEF SlotInv, SlotOwned, Stays

\* All statements but those of accept and free_client are such steps.
LEMMA QuietSteps ==
  ASSUME TypeOK, NEW c \in Conns,
         \/ Tool(c) \/ Reuse(c)
         \/ Handler(c) /\ ~FreeId(c) /\ ~FreeClose(c) /\ ~FreeWipe(c)
  PROVE  UNCHANGED table /\ \A d \in Conns : Stays(d)
<1> DEFINE G == UNCHANGED table /\ \A d \in Conns : Stays(d)
<1> SUFFICES G
  OBVIOUS
<1> USE DEF TypeOK, Holds, Live, Freeing, Stays, PCs, HandlerPCs, AcceptPCs,
        FreePCs, CleanPCs, AttachPCs, CommandPCs, WantPCs
<1>1. CASE RecvEnd(c)
  BY <1>1 DEF RecvEnd
<1>2. CASE CheckAttach(c)
  BY <1>2 DEF CheckAttach
<1>3. CASE SetCurCli(c)
  BY <1>3 DEF SetCurCli
<1>4. CASE SetCurCtx(c)
  BY <1>4 DEF SetCurCtx
<1>5. CASE AttachGuard(c)
  BY <1>5 DEF AttachGuard
<1>6. CASE AttachTrace(c)
  BY <1>6 DEF AttachTrace
<1>7. CASE AttachContinue(c)
  BY <1>7 DEF AttachContinue
<1>8. CASE AttachFlag(c)
  BY <1>8 DEF AttachFlag
<1>9. CASE AttachConnect(c)
  BY <1>9 DEF AttachConnect, Crash
<1>10. CASE AttachMark(c)
  BY <1>10 DEF AttachMark, Crash
<1>11. CASE AttachBind(c)
  BY <1>11 DEF AttachBind, Crash
<1>12. CASE ClearDebugging(c)
  BY <1>12 DEF ClearDebugging, Crash
<1>13. CASE ClearFlag(c)
  BY <1>13 DEF ClearFlag
<1>14. CASE ClearCurCli(c)
  BY <1>14 DEF ClearCurCli
<1>15. CASE ClearCurCtx(c)
  BY <1>15 DEF ClearCurCtx
<1>16. CASE Poll(c)
  BY <1>16 DEF Poll
<1>17. CASE Interrupt(c)
  BY <1>17 DEF Interrupt, Crash
<1>18. CASE FinalKill(c)
  BY <1>18 DEF FinalKill, Crash
<1>19. CASE DebugCommand(c)
  BY <1>19 DEF DebugCommand, Crash
<1>20. CASE Reboot(c)
  BY <1>20 DEF Reboot
<1>21. CASE Dial(c)
  BY <1>21 DEF Dial
<1>22. CASE HangUp(c)
  BY <1>22 DEF HangUp
<1>23. CASE RecvDetach(c)
  BY <1>23 DEF RecvDetach
<1>24. CASE RecvDebugCommand(c)
  BY <1>24 DEF RecvDebugCommand
<1>25. CASE RecvInvalid(c)
  BY <1>25 DEF RecvInvalid
<1>26. CASE RecvPayload(c)
  BY <1>26 DEF RecvPayload
<1>27. CASE RecvReboot(c)
  BY <1>27 DEF RecvReboot
<1>28. CASE Reuse(c)
  BY <1>28 DEF Reuse
<1>29. CASE FreeTest(c)
  BY <1>29 DEF FreeTest
<1>30. CASE Detach(c)
  BY <1>30 DEF Detach, CallCleanup
<1>31. CASE RebootCleanup(c)
  BY <1>31 DEF RebootCleanup, CallCleanup
<1>32. CASE Release(c)
  BY <1>32 DEF Release, Crash
<1>33. ASSUME NEW p \in Pids, RecvAttach(c, p) PROVE G
  BY <1>33 DEF RecvAttach
<1>34. QED
  BY <1>1, <1>2, <1>3, <1>4, <1>5, <1>6, <1>7, <1>8, <1>9, <1>10, <1>11,
     <1>12, <1>13, <1>14, <1>15, <1>16, <1>17, <1>18, <1>19, <1>20, <1>21,
     <1>22, <1>23, <1>24, <1>25, <1>26, <1>27, <1>28, <1>29, <1>30, <1>31,
     <1>32, <1>33 DEF Tool, Handler

LEMMA InitSlots == Init => SlotInv
<1> SUFFICES ASSUME Init PROVE SlotInv
  OBVIOUS
<1>1. \A c \in Conns : ~Holds(c) /\ pc[c] # "reset"
  BY DEF Init, Holds, Live, AcceptPCs, HandlerPCs, FreePCs, CleanPCs, AttachPCs,
     CommandPCs
<1>2. QED
  BY <1>1, InitType DEF SlotInv, SlotOwned

\* A slot that is given out belongs to nobody: outside free_client, a thread
\* that holds a slot has not given it back, and its used is set.
LEMMA AcceptSlots ==
  ASSUME ~SlotTaken, SlotInv, TypeOK', NEW c \in Conns, Accept(c)
  PROVE  SlotInv'
<1> USE DEF Holds, Live, Freeing, HandlerPCs, AcceptPCs, FreePCs, CleanPCs,
            AttachPCs, CommandPCs
<1>1. PICK i \in Slots :
        /\ ~used[i]
        /\ used' = [used EXCEPT ![i] = TRUE] /\ svc' = [svc EXCEPT ![c] = i]
  BY DEF Accept, FirstFree
<1>2. /\ ~Holds(c) /\ pc' = [pc EXCEPT ![c] = "setfd"]
      /\ sock' = sock \cup {c} /\ UNCHANGED <<slotFd, after>>
  BY DEF Accept, CanAccept
<1>3. ASSUME NEW d \in Conns, Holds(d) PROVE ~Freeing(d) /\ used[svc[d]] /\ svc[d] # i
  <2>1. ~Freeing(d)
    <3>1. Step(c, "none", "setfd")
      BY DEF Accept, CanAccept, Step, SlotInv, TypeOK
    <3>2. QED
      BY <3>1 DEF SlotTaken
  <2>2. QED
    BY <1>1, <1>3, <2>1 DEF SlotInv, SlotOwned
<1>4. /\ Holds(c)' /\ ~Live(c)' /\ ~Freeing(c)' /\ pc'[c] # "reset"
      /\ \A d \in Conns \ {c} : Stays(d) /\ svc'[d] = svc[d]
  BY <1>1, <1>2 DEF SlotInv, TypeOK, Stays
<1>5. /\ svc'[c] = i /\ used'[i] /\ c \in sock'
      /\ \A d \in Conns : Holds(d) => used'[svc[d]]
  BY <1>1, <1>2, <1>3 DEF SlotInv, TypeOK
<1>6. SlotOwned'
  <2> SUFFICES ASSUME NEW d \in Conns, Holds(d)'
               PROVE  /\ \A e \in Conns \ {d} : Holds(e)' => svc'[d] # svc'[e]
                      /\ Live(d)' => slotFd'[svc'[d]] = d
                      /\ ~Freeing(d)' => used'[svc'[d]] /\ d \in sock'
    BY DEF SlotOwned
  <2>1. CASE d = c
    BY <1>3, <1>4, <1>5, <2>1 DEF Stays
  <2>2. CASE d # c
    <3>1. Holds(d) /\ svc'[d] = svc[d]
      BY <1>4, <2>2 DEF Stays
    <3>2. \A e \in Conns \ {d} : Holds(e)' => svc'[d] # svc'[e]
      BY <1>3, <1>4, <1>5, <2>2, <3>1 DEF Stays, SlotInv, SlotOwned
    <3>3. QED
      BY <1>2, <1>4, <1>5, <2>2, <3>1, <3>2 DEF Stays, SlotInv, SlotOwned
  <2>3. QED
    BY <2>1, <2>2
<1>7. \A d \in Conns : pc'[d] = "reset" => slotFd'[svc'[d]] = d
  BY <1>2, <1>4 DEF Stays, SlotInv
<1>8. QED
  BY <1>6, <1>7 DEF SlotInv

\* The rest of the accept loop writes to a slot that only its thread uses.
LEMMA ListenerSlots ==
  ASSUME ~SlotTaken, SlotInv, TypeOK', NEW c \in Conns, Listener(c)
  PROVE  SlotInv'
<1> USE DEF Holds, Live, Freeing, HandlerPCs, AcceptPCs, FreePCs, CleanPCs,
            AttachPCs, CommandPCs, SlotInv, SlotOwned
<1>1. CASE Accept(c)
  BY <1>1, AcceptSlots
<1>2. CASE Refuse(c)
  BY <1>2 DEF Refuse, CanAccept, TypeOK
<1>3. CASE AcceptSetFd(c)
  BY <1>3 DEF AcceptSetFd, TypeOK
<1>4. CASE AcceptReset(c)
  BY <1>4 DEF AcceptReset, TypeOK
<1>5. QED
  BY <1>1, <1>2, <1>3, <1>4 DEF Listener

\* free_client gives up a slot, a socket and a table entry that are its own.
LEMMA FreeSlots ==
  ASSUME SlotInv, TypeOK', NEW c \in Conns,
         FreeId(c) \/ FreeClose(c) \/ FreeWipe(c)
  PROVE  SlotInv'
<1> USE DEF Holds, Live, Freeing, HandlerPCs, AcceptPCs, FreePCs, CleanPCs,
            AttachPCs, CommandPCs, SlotInv, SlotOwned
<1>1. CASE FreeId(c)
  BY <1>1 DEF FreeId, TypeOK
<1>2. CASE FreeClose(c)
  BY <1>2 DEF FreeClose, TypeOK
<1>3. CASE FreeWipe(c)
  BY <1>3 DEF FreeWipe, TypeOK
<1>4. QED
  BY <1>1, <1>2, <1>3

LEMMA StepSlots == SlotInv /\ [Next]_vars /\ ~SlotTaken => SlotInv'
<1> SUFFICES ASSUME SlotInv, [Next]_vars, ~SlotTaken PROVE SlotInv'
  OBVIOUS
<1>1. TypeOK'
  BY StepType DEF SlotInv
<1>2. ASSUME NEW c \in Conns, Listener(c) PROVE SlotInv'
  BY <1>1, <1>2, ListenerSlots
<1>3. ASSUME NEW c \in Conns, FreeId(c) \/ FreeClose(c) \/ FreeWipe(c) PROVE SlotInv'
  BY <1>1, <1>3, FreeSlots
<1>4. ASSUME NEW c \in Conns,
             \/ Tool(c) \/ Reuse(c)
             \/ Handler(c) /\ ~FreeId(c) /\ ~FreeClose(c) /\ ~FreeWipe(c)
      PROVE  SlotInv'
  BY <1>1, <1>4, QuietSteps, QuietSlots DEF SlotInv
<1>5. ASSUME NEW p \in Pids, Kill(p) PROVE SlotInv'
  <2>1. UNCHANGED table /\ \A d \in Conns : Stays(d)
    BY <1>5 DEF Kill, Stays, Holds, Live, Freeing
  <2>2. QED
    BY <1>1, <2>1, QuietSlots
<1>6. CASE UNCHANGED vars
  <2>1. UNCHANGED table /\ \A d \in Conns : Stays(d)
    BY <1>6 DEF vars, Stays, Holds, Live, Freeing
  <2>2. QED
    BY <1>1, <2>1, QuietSlots
<1>7. QED
  BY <1>2, <1>3, <1>4, <1>5, <1>6 DEF Next

\* The history notes what it should.
LEMMA HistoryStep ==
  ASSUME [HNext]_hvars
  PROVE  /\ [Next]_vars
         /\ ~stolen' => ~stolen /\ ~SlotTaken
         /\ Calm' => Calm /\ ~SlotTaken /\ ~Disturbance
<1>1. CASE HNext
  BY <1>1 DEF HNext, Calm
<1>2. CASE UNCHANGED hvars
  <2>1. UNCHANGED vars /\ UNCHANGED <<stolen, disturbed>>
    BY <1>2 DEF hvars, history
  <2>2. pc' = pc /\ want' = want
    BY <2>1 DEF vars
  <2>3. ~SlotTaken /\ ~Disturbance
    BY <2>2 DEF SlotTaken, Disturbance, Overtaken, Uninvited, Signalled, Overwritten,
       Step
  <2>4. QED
    BY <2>1, <2>3 DEF Calm
<1>3. QED
  BY <1>1, <1>2

\* For any number of slots and connections, and whatever fails or races:
\* until a connection is accepted between the first and the last statement of
\* a free_client, two threads never work on one slot, and a handler's slot and
\* socket stay its own until it gives them up.
THEOREM SlotsStayOwned == HSafeSpec => []SlotsLostByAccept
<1> DEFINE Kept == stolen \/ SlotInv
<1>1. HInit => Kept
  BY InitSlots DEF HInit
<1>2. Kept /\ [HNext]_hvars => Kept'
  BY HistoryStep, StepSlots
<1>3. Kept => SlotsLostByAccept
  BY DEF SlotInv, SlotsLostByAccept
<1>4. QED
  BY <1>1, <1>2, <1>3, PTL DEF HSafeSpec

-----------------------------------------------------------------------------
\* The debugger session, until one of the meetings happens.

USE DEF Attaching

NobodyMarked == \A i \in Slots : ~debugging[i]
OnlyMarked(c) == \A i \in Slots : debugging[i] => i = svc[c]

\* One thread at a time works on the debugger; a session is its own.
OneInside == \A c, d \in Conns : Inside(c) /\ Inside(d) => c = d
OwnSession == \A c \in Conns : Inside(c) => OnlyMarked(c)

\* g_debugging stays set after a failed connect, and the globals with it.
Flagged == gDebugging => curCli \in Slots /\ curCtx \in Slots

Marked ==
  \A i \in Slots : debugging[i] =>
    /\ gDebugging /\ curCli = i /\ curCtx = i /\ chan[i]
    /\ \E c \in Conns : Live(c) /\ svc[c] = i

\* A client marked as debugging has a traced process from its bind on.
Holding(c) ==
  Live(c) /\ debugging[svc[c]] /\ pc[c] # "bind" => ctxPid[svc[c]] \in Traced

\* What the thread of c relies on at each statement of an attach.
AttachStage(c) ==
  /\ pc[c] \in {"setcli", "setctx", "trace", "continue", "flag"} => ~gDebugging
  /\ pc[c] = "setctx" => curCli = svc[c]
  /\ pc[c] \in {"trace", "continue", "flag", "connect", "mark"} =>
       curCli = svc[c] /\ curCtx = svc[c]
  /\ pc[c] \in {"connect", "mark"} => gDebugging /\ ctx[c] = svc[c] /\ NobodyMarked
  /\ pc[c] = "mark" => chan[svc[c]]
  /\ Attaching(c) => want[c] \in Traced

\* What it relies on in the other commands and in debug_cleanup.
CommandStage(c) ==
  /\ pc[c] # "sigkill" /\ after[c] # "sigkill"
  /\ pc[c] \in {"bind", "detach", "command", "intr"} => debugging[svc[c]]
  /\ pc[c] = "rebootClean" => gDebugging
  /\ pc[c] = "clearDbg" => curCli \in Slots
  /\ pc[c] \in CleanPCs => ctx[c] \in Slots
  /\ pc[c] \in {"clearFlag", "clearCli", "clearCtx", "release"} => NobodyMarked
  /\ pc[c] \in {"clearCli", "clearCtx", "release"} => ~gDebugging
  /\ pc[c] = "wipe" => ~debugging[svc[c]]

\* debug_cleanup works for the client that calls it, unless the console
\* reboots: it may find the flag that a failed connect left behind.
Closing(c) ==
  pc[c] \in CleanPCs /\ after[c] # "reboot" =>
    /\ ctx[c] = svc[c] /\ ctxPid[svc[c]] \in Traced
    /\ pc[c] = "clearDbg" => debugging[svc[c]]

Stage(c) == AttachStage(c) /\ CommandStage(c) /\ Holding(c) /\ Closing(c)

Session ==
  /\ OneInside /\ OwnSession /\ Flagged /\ Marked
  /\ \A c \in Conns : Stage(c)

SessionInv == SlotInv /\ NoCrash /\ Session

-----------------------------------------------------------------------------
(* Steps that change one thread only                                        *)

\* Everything but the program point and the locals of c stays.
OnlyThread(c) ==
  /\ UNCHANGED <<svc, session, globals, target>>
  /\ \A d \in Conns \ {c} :
       pc'[d] = pc[d] /\ ctx'[d] = ctx[d] /\ after'[d] = after[d] /\ want'[d] = want[d]

LEMMA ThreadStep ==
  ASSUME Session, NEW c \in Conns, OnlyThread(c), Stage(c)',
         Live(c) => Live(c)', Inside(c)' => Inside(c) \/ Turn(c)
  PROVE  Session'
<1>1. OneInside'
  BY DEF Session, OneInside, OnlyThread, Inside, Turn
<1>2. OwnSession'
  BY DEF Session, OwnSession, OnlyMarked, OnlyThread, Inside, Turn
<1>3. Flagged'
  BY DEF Session, Flagged, OnlyThread
<1>4. \A d \in Conns : Live(d) => Live(d)'
  BY DEF OnlyThread, Live
<1>5. Marked'
  BY <1>4 DEF Session, Marked, OnlyThread
<1>6. ASSUME NEW d \in Conns \ {c} PROVE Stage(d)'
  <2>1. Stage(d)
    BY DEF Session
  <2>2. /\ pc'[d] = pc[d] /\ ctx'[d] = ctx[d] /\ after'[d] = after[d] /\ want'[d] = want[d]
        /\ UNCHANGED <<svc, session, globals, target>>
    BY DEF OnlyThread
  <2>3. AttachStage(d)'
    BY <2>1, <2>2 DEF Stage, AttachStage, NobodyMarked, Traced
  <2>4. CommandStage(d)'
    BY <2>1, <2>2 DEF Stage, CommandStage, NobodyMarked
  <2>5. Holding(d)'
    BY <2>1, <2>2 DEF Stage, Holding, Closing, Live, Traced
  <2>6. Closing(d)'
    BY <2>1, <2>2 DEF Stage, Closing, Traced
  <2>7. QED
    BY <2>3, <2>4, <2>5, <2>6 DEF Stage
<1>7. QED
  BY <1>1, <1>2, <1>3, <1>5, <1>6 DEF Session

\* The owner of the session finds the debugger free.
LEMMA OwnerTurn ==
  ASSUME SlotInv, Session, NEW c \in Conns, Live(c), debugging[svc[c]]
  PROVE  Turn(c) /\ gDebugging /\ curCli = svc[c] /\ curCtx = svc[c] /\ svc[c] \in Slots
<1>1. svc[c] \in Slots
  BY DEF SlotInv, TypeOK, Holds
<1>2. gDebugging /\ curCli = svc[c] /\ curCtx = svc[c]
  BY <1>1 DEF Session, Marked
<1>3. OnlyMarked(c)
  BY <1>2 DEF Session, Marked, OnlyMarked
<1>4. ASSUME NEW d \in Conns \ {c}, Inside(d) PROVE FALSE
  <2>1. svc[c] = svc[d]
    BY <1>1, <1>4 DEF Session, OwnSession, OnlyMarked
  <2>2. Live(d)
    BY <1>4 DEF Inside, Live, InsidePCs, HandlerPCs, CommandPCs
  <2>3. QED
    BY <2>1, <2>2 DEF SlotInv, SlotOwned, Holds
<1>5. QED
  BY <1>1, <1>2, <1>3, <1>4 DEF Turn, OnlyMarked

-----------------------------------------------------------------------------
(* Steps of the thread inside the debugger                                  *)

\* The other threads stand still and every slot keeps its owner.
OthersStand(c) ==
  /\ svc' = svc
  /\ \A d \in Conns \ {c} :
       pc'[d] = pc[d] /\ ctx'[d] = ctx[d] /\ after'[d] = after[d] /\ want'[d] = want[d]

\* What a thread inside the debugger does to the session concerns nobody
\* else, as long as it marks no slot but its own.
LEMMA InsideStep ==
  ASSUME SlotInv, Session, NEW c \in Conns, Inside(c), OthersStand(c),
         OnlyMarked(c)', Flagged', Marked', Stage(c)'
  PROVE  Session'
<1>1. \A d \in Conns \ {c} : ~Inside(d) /\ ~Inside(d)'
  BY DEF Session, OneInside, OthersStand, Inside
<1>2. OneInside'
  BY <1>1 DEF OneInside
<1>3. OwnSession'
  BY <1>1 DEF OwnSession
<1>4. ASSUME NEW d \in Conns \ {c} PROVE Stage(d)'
  <2>1. Stage(d) /\ pc'[d] = pc[d] /\ after'[d] = after[d] /\ ~Inside(d)'
    BY <1>1 DEF Session, OthersStand
  <2>2. AttachStage(d)'
    BY <2>1 DEF AttachStage, Inside, InsidePCs, AttachPCs
  <2>3. ASSUME Live(d)', debugging'[svc'[d]] PROVE FALSE
    <3>1. Live(c) /\ Live(d) /\ svc'[d] = svc[d] /\ svc'[c] = svc[c]
      BY <2>1, <2>3 DEF Live, OthersStand, Inside, InsidePCs, HandlerPCs, CommandPCs
    <3>2. svc[c] # svc[d] /\ svc[d] \in Slots
      BY <3>1 DEF SlotInv, SlotOwned, TypeOK, Holds
    <3>3. QED
      BY <2>3, <3>1, <3>2 DEF OnlyMarked
  <2>4. CommandStage(d)'
    BY <2>1, <2>3 DEF Stage, CommandStage, Inside, Live, HandlerPCs, FreePCs, InsidePCs,
       AttachPCs, CleanPCs
  <2>5. Closing(d)'
    BY <2>1 DEF Closing, Inside, InsidePCs
  <2>6. QED
    BY <2>2, <2>3, <2>4, <2>5 DEF Stage, Holding
<1>5. QED
  BY <1>2, <1>3, <1>4 DEF Session

-----------------------------------------------------------------------------
(* What tools do                                                            *)

\* Of what tools do, only uninvited commands disturb a session.
LEMMA ToolSession ==
  ASSUME ~Disturbance, SlotInv, Session, NEW c \in Conns, Tool(c)
  PROVE  Session' /\ host' = host
<1> USE DEF Live, Inside, InsidePCs, HandlerPCs, AcceptPCs, FreePCs, CleanPCs,
        AttachPCs, CommandPCs
<1> SUFFICES OnlyThread(c) /\ Stage(c)' /\ (Live(c) => Live(c)')
             /\ (Inside(c)' => Inside(c) \/ Turn(c)) /\ host' = host
  BY ThreadStep
<1> USE DEF SlotInv, TypeOK
<1>1. Stage(c) /\ svc[c] \in Slots \cup {NoSlot}
  BY DEF Session
<1>2. CASE Dial(c) \/ HangUp(c)
  <2>1. UNCHANGED <<host, table, session, globals, target, pc, locals>>
    BY <1>2 DEF Dial, HangUp
  <2>2. Stage(c)'
    BY <1>1, <2>1 DEF Stage, AttachStage, CommandStage, Holding, Closing,
       NobodyMarked, Traced
  <2>3. QED
    BY <2>1, <2>2 DEF OnlyThread
<1>3. CASE RecvDetach(c) \/ RecvDebugCommand(c)
  <2>1. Live(c) /\ debugging[svc[c]]
    BY <1>3 DEF RecvDetach, RecvDebugCommand, Disturbance, Uninvited, Step
  <2>2. Turn(c)
    BY <2>1, OwnerTurn
  <2>3. Stage(c)'
    BY <1>1, <1>3, <2>1 DEF RecvDetach, RecvDebugCommand, Stage, AttachStage,
       CommandStage, Holding, Closing, Traced
  <2>4. QED
    BY <1>3, <2>2, <2>3 DEF RecvDetach, RecvDebugCommand, OnlyThread
<1>4. CASE RecvInvalid(c)
  BY <1>1, <1>4 DEF RecvInvalid, OnlyThread, Stage, AttachStage, CommandStage,
     Holding, Closing, Traced
<1>5. CASE RecvPayload(c)
  BY <1>1, <1>5 DEF RecvPayload, OnlyThread, Stage, AttachStage, CommandStage,
     Holding, Closing, Traced
<1>6. CASE RecvReboot(c)
  <2>1. gDebugging => Turn(c)
    BY <1>6 DEF RecvReboot, Disturbance, Uninvited, Step
  <2>2. Stage(c)'
    BY <1>1, <1>6 DEF RecvReboot, Stage, AttachStage, CommandStage, Holding,
       Closing, Traced
  <2>3. QED
    BY <1>6, <2>1, <2>2 DEF RecvReboot, OnlyThread
<1>7. ASSUME NEW p \in Pids, RecvAttach(c, p)
      PROVE  OnlyThread(c) /\ Stage(c)' /\ (Live(c) => Live(c)')
             /\ (Inside(c)' => Inside(c) \/ Turn(c)) /\ host' = host
  BY <1>1, <1>7 DEF RecvAttach, OnlyThread, Stage, AttachStage, CommandStage,
     Holding, Closing, Traced
<1>8. QED
  BY <1>2, <1>3, <1>4, <1>5, <1>6, <1>7 DEF Tool

-----------------------------------------------------------------------------
(* What handler threads do to themselves                                    *)

\* Statements that move only the thread that executes them.
LEMMA MovesSession ==
  ASSUME ~Disturbance, SlotInv, Session, NEW c \in Conns,
         \/ RecvEnd(c) \/ CheckAttach(c) \/ AttachGuard(c) \/ AttachContinue(c)
         \/ Detach(c) \/ RebootCleanup(c) \/ Poll(c) \/ Reboot(c)
         \/ FreeId(c) \/ FreeClose(c) \/ FreeTest(c)
  PROVE  Session' /\ host' # "crashed"
<1> USE DEF Live, Inside, InsidePCs, HandlerPCs, AcceptPCs, FreePCs, CleanPCs,
        AttachPCs, CommandPCs, CallCleanup
<1> SUFFICES OnlyThread(c) /\ Stage(c)' /\ (Live(c) => Live(c)')
             /\ (Inside(c)' => Inside(c) \/ Turn(c)) /\ host' # "crashed"
  BY ThreadStep
<1> USE DEF SlotInv, TypeOK
<1>1. Stage(c) /\ (Live(c) => svc[c] \in Slots)
  BY DEF Session, Holds
<1>2. CASE RecvEnd(c)
  BY <1>1, <1>2 DEF RecvEnd, OnlyThread, Stage, AttachStage, CommandStage,
     Holding, Closing, Traced
<1>3. CASE CheckAttach(c)
  <2>1. ~gDebugging => Turn(c)
    <3> SUFFICES ASSUME ~gDebugging PROVE Turn(c)
      OBVIOUS
    <3>1. Step(c, "check", "setcli")
      BY <1>3 DEF CheckAttach, Step
    <3>2. \A d \in Conns \ {c} : ~(pc[d] \in InsidePCs)
      BY <3>1 DEF Disturbance, Overtaken, Inside
    <3>3. QED
      BY <3>2 DEF Session, Marked, Turn
  <2>2. Stage(c)'
    BY <1>1, <1>3 DEF CheckAttach, Stage, AttachStage, CommandStage, Holding,
       Closing, Traced
  <2>3. QED
    BY <1>3, <2>1, <2>2 DEF CheckAttach, OnlyThread
<1>4. CASE AttachGuard(c)
  <2>1. ~gDebugging => Turn(c) /\ curCli = svc[c] /\ curCtx = svc[c]
    <3> SUFFICES ASSUME ~gDebugging PROVE Turn(c) /\ curCli = svc[c] /\ curCtx = svc[c]
      OBVIOUS
    <3>1. Step(c, "attach", "trace")
      BY <1>4 DEF AttachGuard, Step
    <3>2. /\ curCli = svc[c] /\ curCtx = svc[c]
          /\ \A d \in Conns \ {c} : ~(pc[d] \in InsidePCs)
      BY <3>1 DEF Disturbance, Overtaken, Inside
    <3>3. QED
      BY <3>2 DEF Session, Marked, Turn
  <2>2. Stage(c)'
    BY <1>1, <1>4, <2>1 DEF AttachGuard, Stage, AttachStage, CommandStage, Holding,
       Closing, Traced
  <2>3. QED
    BY <1>4, <2>1, <2>2 DEF AttachGuard, OnlyThread
<1>5. CASE AttachContinue(c)
  <2>1. Stage(c)'
    BY <1>1, <1>5 DEF AttachContinue, Stage, AttachStage, CommandStage, Holding,
       Closing, Traced
  <2>2. QED
    BY <1>5, <2>1 DEF AttachContinue, OnlyThread
<1>6. CASE Detach(c)
  <2>1. debugging[svc[c]] /\ curCli \in Slots /\ curCtx = svc[c]
    BY <1>1, <1>6, OwnerTurn DEF Detach, Stage, CommandStage
  <2>2. Stage(c)'
    BY <1>1, <1>6, <2>1 DEF Detach, Stage, AttachStage, CommandStage, Holding,
       Closing, Traced
  <2>3. QED
    BY <1>6, <2>2 DEF Detach, OnlyThread
<1>7. CASE RebootCleanup(c)
  <2>1. curCli \in Slots /\ curCtx \in Slots
    BY <1>1, <1>7 DEF RebootCleanup, Stage, CommandStage, Session, Flagged
  <2>2. Stage(c)'
    BY <1>1, <1>7, <2>1 DEF RebootCleanup, Stage, AttachStage, CommandStage,
       Holding, Closing, Traced
  <2>3. QED
    BY <1>7, <2>2 DEF RebootCleanup, OnlyThread
<1>8. CASE Poll(c)
  <2>1. Turn(c)
    BY <1>8, OwnerTurn DEF Poll
  <2>2. Stage(c)'
    BY <1>1, <1>8 DEF Poll, Stage, AttachStage, CommandStage, Holding, Closing,
       Traced
  <2>3. QED
    BY <1>8, <2>1, <2>2 DEF Poll, OnlyThread
<1>9. CASE Reboot(c)
  <2>1. UNCHANGED <<peer, table, session, globals, target, pc, locals>>
    BY <1>9 DEF Reboot
  <2>2. Stage(c)'
    BY <1>1, <2>1 DEF Stage, AttachStage, CommandStage, Holding, Closing,
       NobodyMarked, Traced
  <2>3. QED
    BY <1>9, <2>1, <2>2 DEF OnlyThread, Reboot
<1>10. CASE FreeId(c)
  <2>1. Stage(c)'
    BY <1>1, <1>10 DEF FreeId, Stage, AttachStage, CommandStage, Holding,
       Closing, Traced
  <2>2. QED
    BY <1>10, <2>1 DEF FreeId, OnlyThread
<1>11. CASE FreeClose(c)
  <2>1. Stage(c)'
    BY <1>1, <1>11 DEF FreeClose, Stage, AttachStage, CommandStage, Holding,
       Closing, Traced
  <2>2. QED
    BY <1>11, <2>1 DEF FreeClose, OnlyThread
<1>12. CASE FreeTest(c)
  <2>1. CASE debugging[svc[c]]
    <3>1. Turn(c) /\ curCli \in Slots
      BY <1>12, <2>1, OwnerTurn DEF FreeTest
    <3>2. Stage(c)'
      BY <1>1, <1>12, <2>1, <3>1 DEF FreeTest, Stage, AttachStage, CommandStage,
         Holding, Closing, Traced
    <3>3. QED
      BY <1>12, <2>1, <3>1, <3>2 DEF FreeTest, OnlyThread
  <2>2. CASE ~debugging[svc[c]]
    <3>1. Stage(c)'
      BY <1>1, <1>12, <2>2 DEF FreeTest, Stage, AttachStage, CommandStage,
         Holding, Closing, Traced
    <3>2. QED
      BY <1>12, <2>2, <3>1 DEF FreeTest, OnlyThread
  <2>3. QED
    BY <2>1, <2>2
<1>13. QED
  BY <1>2, <1>3, <1>4, <1>5, <1>6, <1>7, <1>8, <1>9, <1>10, <1>11, <1>12

\* The session's own commands and its interrupt check follow curdbgctx only
\* while it is set.
LEMMA CommandReturns ==
  ASSUME ~Disturbance, SlotInv, Session, NEW c \in Conns,
         Interrupt(c) \/ FinalKill(c) \/ DebugCommand(c)
  PROVE  /\ pc[c] \in {"intr", "command"}
         /\ \E to \in {"loop", "free"} : Goto(c, to)
         /\ UNCHANGED <<host, peer, table, session, globals, target, locals>>
<1>1. Stage(c)
  BY DEF Session
<1>2. ~FinalKill(c)
  BY <1>1 DEF FinalKill, Stage, CommandStage
<1>3. pc[c] \in {"intr", "command"} /\ Live(c) /\ debugging[svc[c]]
  BY <1>1, <1>2 DEF Interrupt, DebugCommand, Stage, CommandStage, Live, HandlerPCs,
     CommandPCs
<1>4. curCtx = svc[c] /\ curCtx # NoSlot
  BY <1>3, OwnerTurn
<1>5. Interrupt(c) => ~Goto(c, "clearDbg")
  BY DEF Interrupt, Disturbance, Signalled, Step, SlotInv, TypeOK
<1>6. QED
  BY <1>2, <1>3, <1>4, <1>5 DEF Interrupt, DebugCommand

LEMMA CommandSession ==
  ASSUME ~Disturbance, SlotInv, Session, NEW c \in Conns,
         Interrupt(c) \/ FinalKill(c) \/ DebugCommand(c)
  PROVE  Session' /\ host' = host
<1> USE DEF Live, Inside, InsidePCs, HandlerPCs, AcceptPCs, FreePCs, CleanPCs,
        AttachPCs, CommandPCs
<1> USE DEF SlotInv, TypeOK
<1>1. Stage(c)
  BY DEF Session
<1>2. /\ pc[c] \in {"intr", "command"}
      /\ \E to \in {"loop", "free"} : Goto(c, to)
      /\ UNCHANGED <<host, peer, table, session, globals, target, locals>>
  BY CommandReturns
<1>3. Stage(c)'
  BY <1>1, <1>2 DEF Stage, AttachStage, CommandStage, Holding, Closing, Traced
<1>4. OnlyThread(c) /\ (Live(c) => Live(c)') /\ (Inside(c)' => Inside(c))
  BY <1>2 DEF OnlyThread
<1>5. QED
  BY <1>2, <1>3, <1>4, ThreadStep

-----------------------------------------------------------------------------
(* The statements of attach and of debug_cleanup                            *)

\* Nothing is marked before the globals are set and connected.
LEMMA AttachSession ==
  ASSUME SlotInv, Session, NEW c \in Conns,
         \/ SetCurCli(c) \/ SetCurCtx(c) \/ AttachTrace(c) \/ AttachFlag(c)
         \/ AttachConnect(c) \/ AttachMark(c) \/ AttachBind(c)
  PROVE  Session' /\ host' = host
<1> USE DEF Live, Inside, InsidePCs, HandlerPCs, AcceptPCs, FreePCs, CleanPCs,
        AttachPCs, CommandPCs
<1> USE DEF SlotInv, TypeOK
<1>1. Stage(c) /\ Inside(c) /\ Live(c) /\ svc[c] \in Slots /\ Flagged /\ Marked
  BY DEF Session, Holds, SetCurCli, SetCurCtx, AttachTrace, AttachFlag,
     AttachConnect, AttachMark, AttachBind
<1>2. OnlyMarked(c)
  BY <1>1 DEF Session, OwnSession
<1> SUFFICES /\ OthersStand(c) /\ OnlyMarked(c)' /\ Flagged' /\ Marked'
             /\ Stage(c)' /\ host' = host
  BY <1>1, InsideStep
<1>3. ASSUME ~gDebugging PROVE NobodyMarked
  BY <1>1, <1>3 DEF Marked, NobodyMarked
<1>4. CASE SetCurCli(c)
  <2>1. ~gDebugging /\ NobodyMarked
    BY <1>1, <1>3, <1>4 DEF SetCurCli, Stage, AttachStage
  <2>2. Stage(c)'
    BY <1>1, <1>4, <2>1 DEF SetCurCli, Stage, AttachStage, CommandStage, Holding,
       Closing, Traced
  <2>3. Flagged' /\ Marked' /\ OnlyMarked(c)'
    BY <1>1, <1>4, <2>1 DEF SetCurCli, Flagged, Marked, OnlyMarked,
       NobodyMarked
  <2>4. QED
    BY <1>4, <2>2, <2>3 DEF SetCurCli, OthersStand
<1>5. CASE SetCurCtx(c)
  <2>1. ~gDebugging /\ NobodyMarked
    BY <1>1, <1>3, <1>5 DEF SetCurCtx, Stage, AttachStage
  <2>2. Stage(c)'
    BY <1>1, <1>5, <2>1 DEF SetCurCtx, Stage, AttachStage, CommandStage, Holding,
       Closing, Traced
  <2>3. Flagged' /\ Marked' /\ OnlyMarked(c)'
    BY <1>1, <1>5, <2>1 DEF SetCurCtx, Flagged, Marked, OnlyMarked,
       NobodyMarked
  <2>4. QED
    BY <1>5, <2>2, <2>3 DEF SetCurCtx, OthersStand
<1>6. CASE AttachTrace(c)
  <2>1. ~gDebugging /\ NobodyMarked
    BY <1>1, <1>3, <1>6 DEF AttachTrace, Stage, AttachStage
  <2>2. /\ UNCHANGED <<host, peer, table, session, globals, locals>>
        /\ pc[c] = "trace"
        /\ \/ Goto(c, "continue") /\ want[c] \in Pids /\ target'[want[c]] = "traced"
           \/ Goto(c, "free")
    BY <1>6 DEF AttachTrace
  <2>3. Stage(c)'
    BY <1>1, <2>1, <2>2 DEF Stage, AttachStage, CommandStage, Holding, Closing,
       NobodyMarked, Traced
  <2>5. Flagged' /\ Marked' /\ OnlyMarked(c)'
    BY <1>1, <2>1, <2>2 DEF Flagged, Marked, OnlyMarked, NobodyMarked
  <2>6. QED
    BY <2>2, <2>3, <2>5 DEF OthersStand
<1>7. CASE AttachFlag(c)
  <2>1. /\ ~gDebugging /\ NobodyMarked /\ curCli = svc[c] /\ curCtx = svc[c]
        /\ want[c] \in Traced
    BY <1>1, <1>3, <1>7 DEF AttachFlag, Stage, AttachStage
  <2>2. Stage(c)'
    BY <1>1, <1>7, <2>1 DEF AttachFlag, Stage, AttachStage, CommandStage,
       Holding, Closing,
       NobodyMarked, Traced
  <2>3. Flagged' /\ Marked' /\ OnlyMarked(c)'
    BY <1>1, <1>7, <2>1 DEF AttachFlag, Flagged, Marked, OnlyMarked,
       NobodyMarked
  <2>4. QED
    BY <1>7, <2>2, <2>3 DEF AttachFlag, OthersStand
<1>8. CASE AttachConnect(c)
  <2>1. /\ gDebugging /\ NobodyMarked /\ curCli = svc[c] /\ curCtx = svc[c]
        /\ want[c] \in Traced /\ ctx[c] = svc[c] /\ ctx[c] # NoSlot
    BY <1>1, <1>8 DEF AttachConnect, Stage, AttachStage
  <2>2. /\ UNCHANGED <<host, table, debugging, ctxPid, globals, target, locals>>
        /\ pc[c] = "connect"
        /\ \/ chan' = [chan EXCEPT ![svc[c]] = TRUE] /\ Goto(c, "mark")
           \/ Goto(c, "free")
    BY <1>8, <2>1 DEF AttachConnect
  <2>3. Stage(c)'
    <3>1. AttachStage(c)'
      BY <1>1, <2>1, <2>2 DEF Stage, AttachStage, NobodyMarked, Traced
    <3>2. CommandStage(c)' /\ Holding(c)' /\ Closing(c)'
      BY <1>1, <2>1, <2>2 DEF Stage, CommandStage, Holding, Closing, NobodyMarked
    <3>3. QED
      BY <3>1, <3>2 DEF Stage
  <2>4. Flagged' /\ Marked' /\ OnlyMarked(c)'
    BY <1>1, <2>1, <2>2 DEF Flagged, Marked, OnlyMarked, NobodyMarked
  <2>5. QED
    BY <2>2, <2>3, <2>4 DEF OthersStand
<1>9. CASE AttachMark(c)
  <2>1. /\ gDebugging /\ NobodyMarked /\ curCli = svc[c] /\ curCtx = svc[c]
        /\ want[c] \in Traced /\ chan[svc[c]] /\ curCli # NoSlot
    BY <1>1, <1>9 DEF AttachMark, Stage, AttachStage
  <2>2. /\ UNCHANGED <<host, table, ctxPid, chan, globals, target, locals>>
        /\ pc[c] = "mark" /\ Goto(c, "bind")
        /\ debugging' = [debugging EXCEPT ![svc[c]] = TRUE]
    BY <1>9, <2>1 DEF AttachMark
  <2>3. Stage(c)'
    BY <1>1, <2>1, <2>2 DEF Stage, AttachStage, CommandStage, Holding, Closing,
       Traced
  <2>4. Live(c)' /\ svc'[c] = svc[c]
    BY <2>2
  <2>5. Marked'
    BY <1>1, <2>1, <2>2, <2>4 DEF Marked, NobodyMarked
  <2>6. Flagged' /\ OnlyMarked(c)'
    BY <1>1, <2>1, <2>2 DEF Flagged, OnlyMarked, NobodyMarked
  <2>7. QED
    BY <2>2, <2>3, <2>5, <2>6 DEF OthersStand
<1>10. CASE AttachBind(c)
  <2>1. debugging[svc[c]] /\ want[c] \in Traced /\ pc[c] = "bind"
    BY <1>1, <1>10 DEF AttachBind, Stage, AttachStage, CommandStage
  <2>2. curCtx = svc[c] /\ curCtx # NoSlot
    BY <1>1, <2>1, OwnerTurn
  <2>3. /\ UNCHANGED <<host, table, debugging, chan, globals, target, after>>
        /\ Goto(c, "loop")
        /\ ctxPid' = [ctxPid EXCEPT ![svc[c]] = want[c]]
        /\ want' = [want EXCEPT ![c] = NoPid] /\ ctx' = [ctx EXCEPT ![c] = NoSlot]
    BY <1>10, <2>2 DEF AttachBind
  <2>4. Holding(c)'
    BY <1>1, <2>1, <2>3 DEF Holding, Closing, Traced
  <2>5. Stage(c)'
    BY <1>1, <2>1, <2>3, <2>4 DEF Stage, AttachStage, CommandStage, Closing
  <2>6. \A d \in Conns : Live(d) => Live(d)' /\ svc'[d] = svc[d]
    BY <2>1, <2>3
  <2>7. Marked'
    BY <1>1, <2>3, <2>6 DEF Marked
  <2>8. Flagged' /\ OnlyMarked(c)'
    BY <1>1, <1>2, <2>3 DEF Flagged, OnlyMarked
  <2>9. QED
    BY <2>3, <2>5, <2>7, <2>8 DEF OthersStand
<1>11. QED
  BY <1>4, <1>5, <1>6, <1>7, <1>8, <1>9, <1>10

\* debug_cleanup forgets the mark first and the globals after it.
LEMMA CleanupSession ==
  ASSUME SlotInv, Session, NEW c \in Conns,
         \/ ClearDebugging(c) \/ ClearFlag(c) \/ ClearCurCli(c) \/ ClearCurCtx(c)
         \/ Release(c)
  PROVE  Session' /\ host' = host
<1> USE DEF Live, Inside, InsidePCs, HandlerPCs, AcceptPCs, FreePCs, CleanPCs,
        AttachPCs, CommandPCs
<1> USE DEF SlotInv, TypeOK
<1>1. Stage(c) /\ Inside(c) /\ Live(c) /\ Flagged /\ Marked
  BY DEF Session, ClearDebugging, ClearFlag, ClearCurCli, ClearCurCtx, Release
<1> SUFFICES /\ OthersStand(c) /\ NobodyMarked' /\ Flagged'
             /\ AttachStage(c)' /\ CommandStage(c)' /\ Closing(c)' /\ host' = host
  <2>1. svc[c] \in Slots
    BY <1>1 DEF Holds
  <2>2. SUFFICES ASSUME OthersStand(c), NobodyMarked', Flagged',
                        AttachStage(c)', CommandStage(c)', Closing(c)', host' = host
                 PROVE  Session' /\ host' = host
    OBVIOUS
  <2>3. OnlyMarked(c)' /\ Marked'
    BY <2>2 DEF NobodyMarked, OnlyMarked, Marked
  <2>4. Stage(c)'
    BY <2>1, <2>2 DEF NobodyMarked, Stage, Holding, OthersStand
  <2>5. QED
    BY <1>1, <2>2, <2>3, <2>4, InsideStep
<1>2. CASE ClearDebugging(c)
  <2>1. curCli \in Slots /\ curCli # NoSlot
    BY <1>1, <1>2 DEF ClearDebugging, Stage, CommandStage
  <2>2. \A i \in Slots : debugging[i] => i = curCli
    BY <1>1 DEF Marked
  <2>3. NobodyMarked'
    BY <1>2, <2>1, <2>2 DEF ClearDebugging, NobodyMarked
  <2>4. AttachStage(c)' /\ CommandStage(c)' /\ Closing(c)'
    BY <1>1, <1>2, <2>1, <2>3 DEF ClearDebugging, Stage, AttachStage, CommandStage,
       Closing, Traced
  <2>5. Flagged'
    BY <1>1, <1>2, <2>1 DEF ClearDebugging, Flagged
  <2>6. QED
    BY <1>2, <2>1, <2>3, <2>4, <2>5 DEF ClearDebugging, OthersStand
<1>3. CASE ClearFlag(c)
  <2>1. NobodyMarked'
    BY <1>1, <1>3 DEF ClearFlag, Stage, CommandStage, NobodyMarked
  <2>2. AttachStage(c)' /\ CommandStage(c)' /\ Closing(c)'
    BY <1>1, <1>3, <2>1 DEF ClearFlag, Stage, AttachStage, CommandStage,
       Closing, Traced
  <2>3. QED
    BY <1>1, <1>3, <2>1, <2>2 DEF ClearFlag, Flagged, OthersStand
<1>4. CASE ClearCurCli(c)
  <2>1. NobodyMarked' /\ ~gDebugging
    BY <1>1, <1>4 DEF ClearCurCli, Stage, CommandStage, NobodyMarked
  <2>2. AttachStage(c)' /\ CommandStage(c)' /\ Closing(c)'
    BY <1>1, <1>4, <2>1 DEF ClearCurCli, Stage, AttachStage, CommandStage,
       Closing, Traced
  <2>3. QED
    BY <1>1, <1>4, <2>1, <2>2 DEF ClearCurCli, Flagged, OthersStand
<1>5. CASE ClearCurCtx(c)
  <2>1. NobodyMarked' /\ ~gDebugging
    BY <1>1, <1>5 DEF ClearCurCtx, Stage, CommandStage, NobodyMarked
  <2>2. AttachStage(c)' /\ CommandStage(c)' /\ Closing(c)'
    BY <1>1, <1>5, <2>1 DEF ClearCurCtx, Stage, AttachStage, CommandStage,
       Closing, Traced
  <2>3. QED
    BY <1>1, <1>5, <2>1, <2>2 DEF ClearCurCtx, Flagged, OthersStand
<1>6. CASE Release(c)
  <2>1. /\ ctx[c] \in Slots /\ ctx[c] # NoSlot /\ NobodyMarked /\ ~gDebugging
        /\ after[c] \in {"loop", "wipe", "reboot"}
    BY <1>1, <1>6 DEF Release, Stage, CommandStage
  <2>2. /\ UNCHANGED <<host, peer, table, debugging, ctxPid, globals, want>>
        /\ Goto(c, after[c])
        /\ after' = [after EXCEPT ![c] = "loop"]
        /\ ctx' = [ctx EXCEPT ![c] = NoSlot]
        /\ target' = [p \in Pids |->
                        IF p = ctxPid[ctx[c]] /\ p \in Traced
                          THEN Detached(p) ELSE target[p]]
    BY <1>6, <2>1 DEF Release
  <2>3. NobodyMarked'
    BY <2>1, <2>2 DEF NobodyMarked
  <2>5. svc[c] \in Slots /\ svc'[c] = svc[c]
    BY <1>1, <2>2 DEF Holds
  <2>6. AttachStage(c)' /\ CommandStage(c)' /\ Closing(c)'
    BY <1>1, <2>1, <2>2, <2>3, <2>5 DEF Stage, AttachStage, CommandStage, Closing,
       NobodyMarked
  <2>7. QED
    BY <2>1, <2>2, <2>3, <2>6 DEF Flagged, OthersStand
<1>7. QED
  BY <1>2, <1>3, <1>4, <1>5, <1>6

-----------------------------------------------------------------------------
(* The accept loop and the end of free_client                               *)

\* Accept, reset and wipe change no slot but that of c, which nobody else has.
LEMMA SlotKept ==
  ASSUME SlotInv, NEW c \in Conns, Accept(c) \/ AcceptReset(c) \/ FreeWipe(c)
  PROVE  /\ UNCHANGED <<host, globals, target, locals>>
         /\ \A d \in Conns \ {c} : pc'[d] = pc[d] /\ svc'[d] = svc[d]
         /\ ~Inside(c) /\ ~Inside(c)'
         /\ pc'[c] \in {"setfd", "loop", "done"}
         /\ \A d \in Conns \ {c} : Live(d) =>
              /\ debugging'[svc[d]] = debugging[svc[d]]
              /\ ctxPid'[svc[d]] = ctxPid[svc[d]] /\ chan'[svc[d]] = chan[svc[d]]
         /\ \A i \in Slots : debugging'[i] => debugging[i]
         /\ Live(c)' => ~debugging'[svc'[c]]
         /\ \A i \in Slots : debugging'[i] /\ Live(c) => i # svc[c]
<1> USE DEF Live, Inside, InsidePCs, HandlerPCs, AcceptPCs, FreePCs, CleanPCs,
        AttachPCs, CommandPCs
<1>1. /\ UNCHANGED <<host, globals, target, locals>>
      /\ \A d \in Conns \ {c} : pc'[d] = pc[d] /\ svc'[d] = svc[d]
      /\ ~Inside(c) /\ ~Inside(c)'
      /\ pc'[c] \in {"setfd", "loop", "done"}
  BY DEF Accept, CanAccept, AcceptReset, FreeWipe, SlotInv, TypeOK
<1>2. CASE Accept(c)
  BY <1>1, <1>2 DEF Accept, CanAccept, SlotInv, TypeOK
<1>3. CASE AcceptReset(c)
  <2>1. svc[c] \in Slots /\ \A d \in Conns \ {c} : Live(d) => svc[d] # svc[c]
    BY <1>3 DEF AcceptReset, SlotInv, SlotOwned, TypeOK, Holds
  <2>2. /\ debugging' = [debugging EXCEPT ![svc[c]] = FALSE]
        /\ ctxPid' = [ctxPid EXCEPT ![svc[c]] = NoPid]
        /\ chan' = [chan EXCEPT ![svc[c]] = FALSE]
    BY <1>3 DEF AcceptReset
  <2>3. /\ debugging \in [Slots -> BOOLEAN]
        /\ ctxPid \in [Slots -> Pids \cup {NoPid}]
        /\ chan \in [Slots -> BOOLEAN]
    BY DEF SlotInv, TypeOK
  <2>4. Live(c)' => svc'[c] = svc[c]
    BY <1>3 DEF AcceptReset, SlotInv, TypeOK
  <2>5. \A i \in Slots : i # svc[c] =>
          /\ debugging'[i] = debugging[i] /\ ctxPid'[i] = ctxPid[i] /\ chan'[i] = chan[i]
    BY <2>2, <2>3
  <2>6. \A d \in Conns : Live(d) => svc[d] \in Slots
    BY DEF SlotInv, TypeOK, Holds
  <2>7. ~debugging'[svc[c]]
    BY <2>1, <2>2, <2>3
  <2>8. QED
    BY <1>1, <2>1, <2>4, <2>5, <2>6, <2>7
<1>4. CASE FreeWipe(c)
  <2>1. svc[c] \in Slots /\ \A d \in Conns \ {c} : Live(d) => svc[d] # svc[c]
    BY <1>4 DEF FreeWipe, SlotInv, SlotOwned, TypeOK, Holds
  <2>2. /\ debugging' = [debugging EXCEPT ![svc[c]] = FALSE]
        /\ ctxPid' = [ctxPid EXCEPT ![svc[c]] = NoPid]
        /\ chan' = [chan EXCEPT ![svc[c]] = FALSE]
    BY <1>4 DEF FreeWipe
  <2>3. /\ debugging \in [Slots -> BOOLEAN]
        /\ ctxPid \in [Slots -> Pids \cup {NoPid}]
        /\ chan \in [Slots -> BOOLEAN]
    BY DEF SlotInv, TypeOK
  <2>4. Live(c)' => svc'[c] = svc[c]
    BY <1>4 DEF FreeWipe, SlotInv, TypeOK
  <2>5. \A i \in Slots : i # svc[c] =>
          /\ debugging'[i] = debugging[i] /\ ctxPid'[i] = ctxPid[i] /\ chan'[i] = chan[i]
    BY <2>2, <2>3
  <2>6. \A d \in Conns : Live(d) => svc[d] \in Slots
    BY DEF SlotInv, TypeOK, Holds
  <2>7. ~debugging'[svc[c]]
    BY <2>1, <2>2, <2>3
  <2>8. QED
    BY <1>1, <2>1, <2>4, <2>5, <2>6, <2>7
<1>5. QED
  BY <1>1, <1>2, <1>3, <1>4

\* A slot whose owner runs no debugger code may be handed on.
LEMMA SlotSession ==
  ASSUME SlotInv, Session, NEW c \in Conns, Listener(c) \/ FreeWipe(c)
  PROVE  Session' /\ host' = host
<1> USE DEF Live, Inside, InsidePCs, HandlerPCs, AcceptPCs, FreePCs, CleanPCs,
        AttachPCs, CommandPCs
<1>1. CASE Refuse(c) \/ AcceptSetFd(c)
  <2>1. Stage(c)
    BY DEF Session
  <2>2. Stage(c)'
    BY <1>1, <2>1 DEF Refuse, CanAccept, AcceptSetFd, SlotInv, TypeOK, Stage,
       AttachStage, CommandStage, Holding, Closing
  <2>3. OnlyThread(c)
    BY <1>1 DEF Refuse, CanAccept, AcceptSetFd, SlotInv, TypeOK, OnlyThread
  <2>4. ~Live(c) /\ ~Inside(c)' /\ host' = host
    BY <1>1 DEF Refuse, CanAccept, AcceptSetFd, SlotInv, TypeOK
  <2>5. QED
    BY <2>2, <2>3, <2>4, ThreadStep
<1>2. CASE Accept(c) \/ AcceptReset(c) \/ FreeWipe(c)
  <2>1. /\ UNCHANGED <<host, globals, target, locals>>
        /\ \A d \in Conns \ {c} : pc'[d] = pc[d] /\ svc'[d] = svc[d]
        /\ ~Inside(c) /\ ~Inside(c)'
        /\ pc'[c] \in {"setfd", "loop", "done"}
    BY <1>2, SlotKept
  <2>2. /\ \A d \in Conns \ {c} : Live(d) =>
             /\ debugging'[svc[d]] = debugging[svc[d]]
             /\ ctxPid'[svc[d]] = ctxPid[svc[d]] /\ chan'[svc[d]] = chan[svc[d]]
        /\ \A i \in Slots : debugging'[i] => debugging[i]
        /\ Live(c)' => ~debugging'[svc'[c]]
        /\ \A i \in Slots : debugging'[i] /\ Live(c) => i # svc[c]
    BY <1>2, SlotKept
  <2>3. OneInside'
    BY <2>1 DEF Session, OneInside
  <2>4. OwnSession'
    BY <2>1, <2>2 DEF Session, OwnSession, OnlyMarked
  <2>5. Flagged'
    BY <2>1 DEF Session, Flagged
  <2>6. Marked'
    <3> SUFFICES ASSUME NEW i \in Slots, debugging'[i]
                 PROVE  /\ gDebugging' /\ curCli' = i /\ curCtx' = i /\ chan'[i]
                        /\ \E d \in Conns : Live(d)' /\ svc'[d] = i
      BY DEF Marked
    <3>1. gDebugging /\ curCli = i /\ curCtx = i /\ chan[i]
      BY <2>2 DEF Session, Marked
    <3>2. PICK d \in Conns : Live(d) /\ svc[d] = i
      BY <2>2 DEF Session, Marked
    <3>3. d # c
      BY <2>2, <3>2
    <3>4. QED
      BY <2>1, <2>2, <3>1, <3>2, <3>3
  <2>7. ASSUME NEW d \in Conns PROVE Stage(d)'
    <3>1. Stage(d)
      BY DEF Session
    <3>2. CommandStage(d)' /\ AttachStage(d)' /\ Holding(d)' /\ Closing(d)'
      <4>1. CASE d = c
        BY <2>1, <2>2, <3>1, <4>1 DEF Stage, AttachStage, CommandStage, Holding,
           Closing
      <4>2. CASE d # c
        <5>1. /\ pc'[d] = pc[d] /\ svc'[d] = svc[d] /\ Live(d)' = Live(d)
              /\ ctx' = ctx /\ after' = after /\ want' = want
              /\ UNCHANGED globals /\ Traced' = Traced
          BY <2>1, <4>2 DEF Traced
        <5>2. NobodyMarked => NobodyMarked'
          BY <2>2 DEF NobodyMarked
        <5>3. Live(d) => /\ debugging'[svc[d]] = debugging[svc[d]]
                         /\ ctxPid'[svc[d]] = ctxPid[svc[d]] /\ chan'[svc[d]] = chan[svc[d]]
          BY <2>2, <4>2
        <5>4. AttachStage(d)'
          BY <3>1, <5>1, <5>2, <5>3 DEF Stage, AttachStage
        <5>5. CommandStage(d)'
          BY <3>1, <5>1, <5>2, <5>3 DEF Stage, CommandStage
        <5>6. Holding(d)'
          BY <3>1, <5>1, <5>3 DEF Stage, Holding
        <5>7. Closing(d)'
          BY <3>1, <5>1, <5>3 DEF Stage, Closing
        <5>8. QED
          BY <5>4, <5>5, <5>6, <5>7
      <4>3. QED
        BY <4>1, <4>2
    <3>3. QED
      BY <3>2 DEF Stage
  <2>8. QED
    BY <2>1, <2>3, <2>4, <2>5, <2>6, <2>7 DEF Session
<1>3. QED
  BY <1>1, <1>2 DEF Listener

-----------------------------------------------------------------------------
\* Nobody debugs at first.
LEMMA InitSession == Init => SessionInv
<1> SUFFICES ASSUME Init PROVE SessionInv
  OBVIOUS
<1>1. SlotInv /\ NoCrash
  BY InitSlots DEF Init, NoCrash
<1>2. \A c \in Conns : ~Inside(c) /\ ~Live(c)
  BY DEF Init, Inside, Live, InsidePCs, HandlerPCs, FreePCs, CleanPCs, AttachPCs,
     CommandPCs
<1>3. OneInside /\ OwnSession /\ Flagged /\ Marked
  BY <1>2 DEF Init, OneInside, OwnSession, Flagged, Marked
<1>4. ASSUME NEW c \in Conns PROVE Stage(c)
  BY <1>2 DEF Init, Stage, AttachStage, CommandStage, Holding, Closing, CleanPCs
<1>5. QED
  BY <1>1, <1>3, <1>4 DEF SessionInv, Session

\* A payload overwritten before PT_ATTACH has its own say, and a SIGKILL
\* leaves the process traced.
LEMMA WorldSession ==
  ASSUME ~Disturbance, SlotInv, Session,
         (\E c \in Conns : Reuse(c)) \/ (\E p \in Pids : Kill(p))
  PROVE  Session' /\ host' = host
<1>1. ASSUME NEW c \in Conns, Reuse(c) PROVE Session' /\ host' = host
  <2>1. /\ UNCHANGED <<host, peer, table, session, globals, target, pc, ctx, after>>
        /\ \A d \in Conns \ {c} : want'[d] = want[d]
    BY <1>1 DEF Reuse, SlotInv, TypeOK
  <2>2. Attaching(c) => want'[c] = want[c]
    BY <2>1 DEF Disturbance, Overwritten
  <2>3. Stage(c)
    BY DEF Session
  <2>4. Stage(c)'
    BY <2>1, <2>2, <2>3 DEF Stage, AttachStage, CommandStage, Holding, Closing,
       NobodyMarked, Traced, Live
  <2>5. QED
    BY <2>1, <2>4, ThreadStep DEF OnlyThread, Live, Inside
<1>2. ASSUME NEW p \in Pids, Kill(p) PROVE Session' /\ host' = host
  <2>1. UNCHANGED <<host, peer, table, session, globals, pc, locals>>
    BY <1>2 DEF Kill
  <2>2. Traced' = Traced
    BY <1>2 DEF Kill, Traced, SlotInv, TypeOK
  <2>3. ASSUME NEW c \in Conns PROVE Stage(c)'
    BY <2>1, <2>2 DEF Session, Stage, AttachStage, CommandStage, Holding, Closing,
       NobodyMarked, Live
  <2>4. OneInside' /\ OwnSession' /\ Flagged' /\ Marked'
    BY <2>1 DEF Session, OneInside, OwnSession, OnlyMarked, Inside, Flagged, Marked,
       Live
  <2>5. QED
    BY <2>1, <2>3, <2>4 DEF Session
<1>3. QED
  BY <1>1, <1>2

\* Every step of the server but the meetings keeps the session consistent.
LEMMA StepSession ==
  ASSUME ~SlotTaken, ~Disturbance, SessionInv, [Next]_vars
  PROVE  SessionInv'
<1>1. SlotInv'
  BY StepSlots DEF SessionInv
<1> SUFFICES Session' /\ (host' = host \/ host' # "crashed")
  BY <1>1 DEF SessionInv, NoCrash
<1> USE DEF SessionInv
<1>2. ASSUME NEW c \in Conns, Tool(c) PROVE Session' /\ host' = host
  BY <1>2, ToolSession
<1>3. ASSUME NEW c \in Conns, Listener(c) PROVE Session' /\ host' = host
  BY <1>3, SlotSession
<1>4. ASSUME NEW c \in Conns, Handler(c)
      PROVE  Session' /\ (host' = host \/ host' # "crashed")
  BY <1>4, MovesSession, CommandSession, AttachSession, CleanupSession, SlotSession
     DEF Handler
<1>5. CASE (\E c \in Conns : Reuse(c)) \/ (\E p \in Pids : Kill(p))
  BY <1>5, WorldSession
<1>6. CASE UNCHANGED vars
  <2>1. Session'
    BY <1>6 DEF vars, Session, OneInside, OwnSession, OnlyMarked, Inside, Flagged,
       Marked, Stage, AttachStage, CommandStage, Holding, Closing, NobodyMarked,
       Live, Traced
  <2>2. QED
    BY <1>6, <2>1 DEF vars
<1>7. QED
  BY <1>2, <1>3, <1>4, <1>5, <1>6 DEF Next

\* Until one of the meetings happens.
Sound == Calm => SessionInv

LEMMA SoundKept == Sound /\ [HNext]_hvars => Sound'
<1> SUFFICES ASSUME Sound, [HNext]_hvars, Calm' PROVE SessionInv'
  BY DEF Sound
<1>1. Calm /\ ~SlotTaken /\ ~Disturbance /\ [Next]_vars
  BY HistoryStep
<1>2. QED
  BY <1>1, StepSession DEF Sound

LEMMA AlwaysSound == HSafeSpec => []Sound
<1>1. HInit => Sound
  BY InitSession DEF HInit, Sound
<1>2. QED
  BY <1>1, SoundKept, PTL DEF HSafeSpec

\* What the session invariant says of a client marked as debugging.
LEMMA SessionInvConsistent == SessionInv => SessionConsistent
<1> SUFFICES ASSUME SessionInv, NEW i \in Slots, debugging[i]
             PROVE  /\ gDebugging /\ curCli = i /\ curCtx = i /\ chan[i]
                    /\ \E c \in Conns : /\ Live(c) /\ svc[c] = i
                                        /\ pc[c] = "bind" \/ ctxPid[i] \in Traced
  BY DEF SessionConsistent
<1>1. gDebugging /\ curCli = i /\ curCtx = i /\ chan[i]
  BY DEF SessionInv, Session, Marked
<1>2. PICK c \in Conns : Live(c) /\ svc[c] = i
  BY DEF SessionInv, Session, Marked
<1>3. pc[c] = "bind" \/ ctxPid[i] \in Traced
  BY <1>2 DEF SessionInv, Session, Stage, Holding
<1>4. QED
  BY <1>1, <1>2, <1>3

\* For every number of slots, connections and processes, and every fault: no
\* thread of the server follows curdbgcli or curdbgctx while it is NULL before
\* one of the meetings of DebugRaces has happened.  Attaches that come while
\* somebody debugs, clients that leave, torn commands and failing calls never
\* suffice.
THEOREM ServerSurvives == HSafeSpec => []CrashHasCause
<1>1. Sound => CrashHasCause
  BY DEF Sound, SessionInv, CrashHasCause
<1>2. QED
  BY AlwaysSound, <1>1, PTL

\* Nor do they make a client marked as debugging another than the one the
\* three globals name, or one without interrupt channel or traced process.
THEOREM SessionStaysConsistent == HSafeSpec => []InconsistencyHasCause
<1>1. Sound => InconsistencyHasCause
  BY SessionInvConsistent DEF Sound, InconsistencyHasCause
<1>2. QED
  BY AlwaysSound, <1>1, PTL

-----------------------------------------------------------------------------
\* Only AttachBind takes a thread past the end of an attach.
LEMMA BindLeaves ==
  ASSUME TypeOK, [Next]_vars, NEW c \in Conns, pc[c] = "bind", pc'[c] = "loop"
  PROVE  AttachBind(c)
<1>1. ASSUME NEW d \in Conns, Tool(d) PROVE FALSE
  BY <1>1 DEF TypeOK, Tool, Dial, HangUp, RecvDetach, RecvDebugCommand, RecvInvalid,
     RecvPayload, RecvReboot, RecvAttach
<1>2. ASSUME NEW d \in Conns, Listener(d) PROVE FALSE
  BY <1>2 DEF TypeOK, Listener, Accept, Refuse, CanAccept, AcceptSetFd, AcceptReset
<1>3. ASSUME NEW d \in Conns, Reuse(d) PROVE FALSE
  BY <1>3 DEF Reuse
<1>4. ASSUME NEW p \in Pids, Kill(p) PROVE FALSE
  BY <1>4 DEF Kill
<1>5. ASSUME UNCHANGED vars PROVE FALSE
  BY <1>5 DEF vars
<1>6. ASSUME NEW d \in Conns, Handler(d) PROVE AttachBind(c)
  <2> USE DEF TypeOK, Crash
  <2>1. CASE RecvEnd(d) \/ CheckAttach(d) \/ SetCurCli(d) \/ SetCurCtx(d)
             \/ AttachGuard(d) \/ AttachTrace(d) \/ AttachContinue(d) \/ AttachFlag(d)
    BY <2>1 DEF RecvEnd, CheckAttach, SetCurCli, SetCurCtx, AttachGuard,
       AttachTrace,
       AttachContinue, AttachFlag
  <2>2. CASE AttachConnect(d) \/ AttachMark(d)
    BY <2>2 DEF AttachConnect, AttachMark
  <2>3. CASE AttachBind(d)
    BY <2>3 DEF AttachBind
  <2>4. CASE Detach(d) \/ RebootCleanup(d) \/ ClearDebugging(d) \/ ClearFlag(d)
             \/ ClearCurCli(d) \/ ClearCurCtx(d) \/ Release(d)
    BY <2>4 DEF Detach, RebootCleanup, CallCleanup, ClearDebugging, ClearFlag,
       ClearCurCli, ClearCurCtx, Release
  <2>5. CASE Poll(d) \/ Interrupt(d) \/ FinalKill(d) \/ DebugCommand(d) \/ Reboot(d)
    BY <2>5 DEF Poll, Interrupt, FinalKill, DebugCommand, Reboot
  <2>6. CASE FreeId(d) \/ FreeClose(d) \/ FreeTest(d) \/ FreeWipe(d)
    BY <2>6 DEF FreeId, FreeClose, FreeTest, FreeWipe
  <2>7. QED
    BY <1>6, <2>1, <2>2, <2>3, <2>4, <2>5, <2>6 DEF Handler
<1>7. QED
  BY <1>1, <1>2, <1>3, <1>4, <1>5, <1>6 DEF Next

\* The tool that is told its attach succeeded owns the session, for the
\* process it asked for: nothing but one of the meetings redirects the answer,
\* the attaches of others that are refused meanwhile included.
THEOREM SuccessGoesToOwner == HSafeSpec => AttachAnswersOwner
<1> DEFINE Answer(c) ==
      Calm' /\ Step(c, "bind", "loop") =>
        /\ curCli' = svc[c] /\ curCtx' = svc[c]
        /\ debugging'[svc[c]] /\ ctxPid'[svc[c]] = want[c]
<1>1. ASSUME Sound, [HNext]_hvars, NEW c \in Conns PROVE Answer(c)
  <2> SUFFICES ASSUME Calm', Step(c, "bind", "loop")
               PROVE  /\ curCli' = svc[c] /\ curCtx' = svc[c]
                      /\ debugging'[svc[c]] /\ ctxPid'[svc[c]] = want[c]
    OBVIOUS
  <2>0. SessionInv /\ [Next]_vars
    BY <1>1, HistoryStep DEF Sound
  <2>1. AttachBind(c)
    BY <2>0, BindLeaves DEF SessionInv, SlotInv, Step
  <2>2. Live(c) /\ debugging[svc[c]]
    BY <2>0 DEF SessionInv, Session, Stage, CommandStage, Live, HandlerPCs,
       AttachPCs, Step
  <2>3. curCli = svc[c] /\ curCtx = svc[c] /\ svc[c] \in Slots
    BY <2>0, <2>2, OwnerTurn DEF SessionInv
  <2>4. /\ UNCHANGED <<debugging, globals>>
        /\ ctxPid' = [ctxPid EXCEPT ![svc[c]] = want[c]]
    BY <2>1, <2>3 DEF AttachBind
  <2>5. ctxPid \in [Slots -> Pids \cup {NoPid}]
    BY <2>0 DEF SessionInv, SlotInv, TypeOK
  <2>6. QED
    BY <2>2, <2>3, <2>4, <2>5
<1>2. Sound /\ [HNext]_hvars => [\A c \in Conns : Answer(c)]_hvars
  BY <1>1
<1>3. QED
  BY AlwaysSound, <1>2, PTL DEF HSafeSpec, AttachAnswersOwner

-----------------------------------------------------------------------------
(* The session as DebuggerPromise sees it                                   *)

Mapped(s, o, h) == SessionStage = s /\ SessionOwner = o /\ SessionTarget = h

\* No connection has to do with the debugger.
Uninvolved == \A c \in Conns : ~Involved(c) /\ ~Rebooting(c)

\* The session is that of c, and nobody reboots the console.
Sole(c) == Involved(c) /\ \A d \in Conns : ~Rebooting(d) /\ (Involved(d) => d = c)

\* What the session is to a client, by what one of the connections does.
RebootingIs == \A c \in Conns : Rebooting(c) => Mapped("rebooting", NoConn, NoPid)
IdleIs == Uninvolved => Mapped("idle", NoConn, NoPid)
AttachingIs ==
  \A c \in Conns : Sole(c) /\ Attaching(c) => Mapped("attaching", c, want[c])
ActiveIs ==
  \A c \in Conns : Sole(c) /\ Active(c) => Mapped("active", c, ctxPid[svc[c]])
EndingIs ==
  \A c \in Conns : Sole(c) /\ ~Attaching(c) /\ ~Active(c)
                     => Mapped("ending", c, ctxPid[ctx[c]])

LEMMA MapRebooting == RebootingIs
<1> SUFFICES ASSUME NEW c \in Conns, Rebooting(c)
             PROVE  Mapped("rebooting", NoConn, NoPid)
  BY DEF RebootingIs
<1>1. SessionOwner = NoConn
  BY DEF SessionOwner
<1>2. SessionStage = "rebooting"
  BY <1>1, ConstantsAssumption DEF SessionStage
<1>3. SessionTarget = NoPid
  BY <1>1, <1>2 DEF SessionTarget
<1>4. QED
  BY <1>1, <1>2, <1>3 DEF Mapped

LEMMA MapIdle == IdleIs
<1> SUFFICES ASSUME Uninvolved PROVE Mapped("idle", NoConn, NoPid)
  BY DEF IdleIs
<1>1. SessionOwner = NoConn /\ \A c \in Conns : ~Rebooting(c)
  BY DEF Uninvolved, SessionOwner
<1>2. SessionStage = "idle"
  BY <1>1, ConstantsAssumption DEF SessionStage
<1>3. SessionTarget = NoPid
  BY <1>1, <1>2 DEF SessionTarget
<1>4. QED
  BY <1>1, <1>2, <1>3 DEF Mapped

LEMMA SoleOwner ==
  \A o \in Conns : Sole(o) => SessionOwner = o /\ SessionOwner # NoConn
BY ConstantsAssumption DEF Sole, SessionOwner

LEMMA MapAttaching == AttachingIs
<1> SUFFICES ASSUME NEW c \in Conns, Sole(c), Attaching(c)
             PROVE  Mapped("attaching", c, want[c])
  BY DEF AttachingIs
<1>1. SessionOwner = c /\ SessionOwner # NoConn /\ \A d \in Conns : ~Rebooting(d)
  BY SoleOwner DEF Sole
<1>2. Attaching(SessionOwner) /\ ~Active(SessionOwner)
  BY <1>1 DEF Active
<1>3. SessionStage = "attaching"
  BY <1>1, <1>2 DEF SessionStage
<1>4. SessionTarget = want[c]
  BY <1>1, <1>3 DEF SessionTarget
<1>5. QED
  BY <1>1, <1>3, <1>4 DEF Mapped

LEMMA MapActive == ActiveIs
<1> SUFFICES ASSUME NEW c \in Conns, Sole(c), Active(c)
             PROVE  Mapped("active", c, ctxPid[svc[c]])
  BY DEF ActiveIs
<1>1. SessionOwner = c /\ SessionOwner # NoConn /\ \A d \in Conns : ~Rebooting(d)
  BY SoleOwner DEF Sole
<1>2. ~Attaching(SessionOwner) /\ Active(SessionOwner)
  BY <1>1 DEF Active
<1>3. SessionStage = "active"
  BY <1>1, <1>2 DEF SessionStage
<1>4. SessionTarget = ctxPid[svc[c]]
  BY <1>1, <1>3 DEF SessionTarget
<1>5. QED
  BY <1>1, <1>3, <1>4 DEF Mapped

LEMMA MapEnding == EndingIs
<1> SUFFICES ASSUME NEW c \in Conns, Sole(c), ~Attaching(c), ~Active(c)
             PROVE  Mapped("ending", c, ctxPid[ctx[c]])
  BY DEF EndingIs
<1>1. SessionOwner = c /\ SessionOwner # NoConn /\ \A d \in Conns : ~Rebooting(d)
  BY SoleOwner DEF Sole
<1>2. ~Attaching(SessionOwner) /\ ~Active(SessionOwner)
  BY <1>1
<1>3. SessionStage = "ending"
  BY <1>1, <1>2 DEF SessionStage
<1>4. SessionTarget = ctxPid[ctx[c]]
  BY <1>1, <1>3 DEF SessionTarget
<1>5. QED
  BY <1>1, <1>3, <1>4 DEF Mapped

\* A session has one connection, and its process is traced.
LEMMA OneInvolved ==
  ASSUME SlotInv, Session, NEW c \in Conns, Involved(c), \A d \in Conns : ~Rebooting(d)
  PROVE  Sole(c)
<1>1. ASSUME NEW d \in Conns, Involved(d) PROVE d = c
  <2>1. \A e \in Conns : Involved(e) => Inside(e) \/ (Live(e) /\ debugging[svc[e]])
    BY DEF Involved, Active, Ending, Inside, InsidePCs, AttachPCs
  <2>2. \A e \in Conns : Involved(e) => Live(e)
    BY <2>1 DEF Inside, Live, InsidePCs, HandlerPCs, CommandPCs
  <2>3. svc[c] = svc[d] => c = d
    BY <1>1, <2>2 DEF SlotInv, SlotOwned, Holds
  <2>4. svc[c] \in Slots /\ svc[d] \in Slots
    BY <1>1, <2>2 DEF SlotInv, TypeOK, Holds
  <2>5. CASE Inside(c) /\ Inside(d)
    BY <2>5 DEF Session, OneInside
  <2>6. CASE debugging[svc[c]]
    BY <1>1, <2>1, <2>3, <2>4, <2>6 DEF Session, OwnSession, OnlyMarked, Marked
  <2>7. CASE debugging[svc[d]]
    BY <1>1, <2>1, <2>3, <2>4, <2>7 DEF Session, OwnSession, OnlyMarked, Marked
  <2>8. QED
    BY <1>1, <2>1, <2>5, <2>6, <2>7
<1>2. QED
  BY <1>1 DEF Sole

\* Everything a connection shows of itself stays.
SameView(c) ==
  /\ Rebooting(c)' <=> Rebooting(c)
  /\ Attaching(c)' <=> Attaching(c)
  /\ Attaching(c) => want'[c] = want[c]
  /\ ~Rebooting(c) =>
       /\ Active(c)' <=> Active(c)
       /\ Active(c) => ctxPid'[svc'[c]] = ctxPid[svc[c]]
       /\ Ending(c)' <=> Ending(c)
       /\ Ending(c) => ctxPid'[ctx'[c]] = ctxPid[ctx[c]]

\* A step that no connection shows is no step of the session.
LEMMA HiddenStep ==
  ASSUME SlotInv, Session, Traced' = Traced, \A c \in Conns : SameView(c)
  PROVE  UNCHANGED Promise!promise
<1> SUFFICES SessionStage' = SessionStage /\ SessionOwner' = SessionOwner
             /\ SessionTarget' = SessionTarget
  BY DEF Promise!promise
<1>1. CASE \E c \in Conns : Rebooting(c)
  <2>1. PICK c \in Conns : Rebooting(c)
    BY <1>1
  <2>2. Rebooting(c)'
    BY <2>1 DEF SameView
  <2>3. RebootingIs'
    BY MapRebooting, PTL
  <2>4. QED
    BY <2>1, <2>2, <2>3, MapRebooting DEF Mapped, RebootingIs
<1>2. CASE Uninvolved
  <2>1. Uninvolved'
    BY <1>2 DEF Uninvolved, Involved, SameView
  <2>2. IdleIs'
    BY MapIdle, PTL
  <2>3. QED
    BY <1>2, <2>1, <2>2, MapIdle DEF Mapped, IdleIs
<1>3. ASSUME NEW c \in Conns, Involved(c), \A d \in Conns : ~Rebooting(d)
      PROVE  SessionStage' = SessionStage /\ SessionOwner' = SessionOwner
             /\ SessionTarget' = SessionTarget
  <2>1. Sole(c)
    BY <1>3, OneInvolved
  <2>2. Sole(c)'
    BY <1>3, <2>1 DEF Sole, Involved, SameView
  <2>3. CASE Attaching(c)
    <3>1. AttachingIs'
      BY MapAttaching, PTL
    <3>2. Attaching(c)' /\ want'[c] = want[c]
      BY <2>3 DEF SameView
    <3>3. QED
      BY <2>1, <2>2, <2>3, <3>1, <3>2, MapAttaching DEF Mapped, AttachingIs
  <2>4. CASE Active(c)
    <3>1. ActiveIs'
      BY MapActive, PTL
    <3>2. Active(c)' /\ ctxPid'[svc'[c]] = ctxPid[svc[c]]
      BY <1>3, <2>4 DEF SameView
    <3>3. QED
      BY <2>1, <2>2, <2>4, <3>1, <3>2, MapActive DEF Mapped, ActiveIs
  <2>5. CASE ~Attaching(c) /\ ~Active(c)
    <3>1. EndingIs'
      BY MapEnding, PTL
    <3>2. ~Attaching(c)' /\ ~Active(c)' /\ ctxPid'[ctx'[c]] = ctxPid[ctx[c]]
      BY <1>3, <2>5 DEF SameView, Involved
    <3>3. QED
      BY <2>1, <2>2, <2>5, <3>1, <3>2, MapEnding DEF Mapped, EndingIs
  <2>6. QED
    BY <2>3, <2>4, <2>5
<1>4. QED
  BY <1>1, <1>2, <1>3 DEF Uninvolved

\* While c is inside the debugger, the others show nothing.
LEMMA OthersHidden ==
  ASSUME SlotInv, Session, NEW c \in Conns, Inside(c), OthersStand(c),
         OnlyMarked(c)', NEW d \in Conns \ {c}
  PROVE  /\ ~Involved(d) /\ ~Involved(d)' /\ ~Rebooting(d) /\ ~Rebooting(d)'
         /\ SameView(d)
<1>1. ~Inside(d) /\ ~Inside(d)'
  BY DEF Session, OneInside, OthersStand, Inside
<1>2. ASSUME Live(d) PROVE ~debugging[svc[d]] /\ ~debugging'[svc'[d]]
  <2>1. Live(c) /\ svc'[d] = svc[d] /\ svc'[c] = svc[c]
    BY DEF Live, OthersStand, Inside, InsidePCs, HandlerPCs, CommandPCs
  <2>2. svc[c] # svc[d] /\ svc[d] \in Slots
    BY <1>2, <2>1 DEF SlotInv, SlotOwned, TypeOK, Holds
  <2>3. QED
    BY <2>1, <2>2 DEF OnlyMarked, Session, OwnSession
<1>3. Live(d)' = Live(d)
  BY DEF OthersStand, Live
<1>4. ~Involved(d) /\ ~Involved(d)'
  BY <1>1, <1>2, <1>3 DEF Involved, Active, Ending, Inside, InsidePCs, AttachPCs
<1>5. ~Rebooting(d) /\ ~Rebooting(d)'
  BY <1>1 DEF Rebooting, Inside, InsidePCs
<1>6. QED
  BY <1>4, <1>5 DEF SameView, Involved

\* A step of c that touches neither marks, contexts nor processes shows at
\* most in c itself.
LEMMA OthersSame ==
  ASSUME NEW c \in Conns, OthersStand(c), UNCHANGED <<debugging, ctxPid, target>>
  PROVE  Traced' = Traced /\ \A d \in Conns \ {c} : SameView(d)
<1>1. Traced' = Traced
  BY DEF Traced
<1>2. ASSUME NEW d \in Conns \ {c} PROVE SameView(d)
  BY <1>1 DEF OthersStand, SameView, Rebooting, Active, Ending, Live
<1>3. QED
  BY <1>1, <1>2

-----------------------------------------------------------------------------
(* Steps the clients do not see                                             *)

\* Statements at which a thread shows nothing but its mark.
PlainPCs == HandlerPCs \ (CleanPCs \cup {"continue", "flag", "connect", "mark", "bind",
                                         "rebootClean"})

LEMMA PlainView ==
  ASSUME SlotInv, NEW c \in Conns, NEW to \in PlainPCs, pc[c] \in PlainPCs, Goto(c, to),
         UNCHANGED <<svc, debugging, ctxPid, target>>
  PROVE  SameView(c)
<1>1. pc'[c] \in PlainPCs
  BY DEF SlotInv, TypeOK
<1>2. Live(c) /\ Live(c)'
  BY <1>1 DEF Live, PlainPCs
<1>3. ~Attaching(c) /\ ~Attaching(c)' /\ ~Rebooting(c) /\ ~Rebooting(c)'
      /\ ~Ending(c) /\ ~Ending(c)'
  BY <1>1 DEF PlainPCs, Rebooting, Ending
<1>4. Active(c)' <=> Active(c)
  BY <1>2, <1>3 DEF Active
<1>5. QED
  BY <1>3, <1>4 DEF SameView

\* Statements of a thread that move no session.
LEMMA QuietSession ==
  ASSUME ~Disturbance, SlotInv, Session, NEW c \in Conns,
         \/ Tool(c) /\ (RecvReboot(c) => ~gDebugging)
         \/ Refuse(c) \/ AcceptSetFd(c)
         \/ RecvEnd(c) \/ CheckAttach(c) \/ SetCurCli(c) \/ SetCurCtx(c)
         \/ AttachGuard(c) \/ AttachFlag(c) \/ Detach(c) \/ RebootCleanup(c)
         \/ ClearFlag(c) \/ ClearCurCli(c) \/ ClearCurCtx(c)
         \/ Poll(c) \/ Interrupt(c) \/ FinalKill(c) \/ DebugCommand(c) \/ Reboot(c)
         \/ FreeId(c) \/ FreeClose(c) \/ FreeTest(c)
  PROVE  UNCHANGED Promise!promise
<1> SUFFICES OthersStand(c) /\ UNCHANGED <<debugging, ctxPid, target>> /\ SameView(c)
  BY OthersSame, HiddenStep
<1> USE DEF SlotInv, TypeOK, OthersStand, SameView, Rebooting, Active, Ending, Live,
        HandlerPCs, FreePCs, CleanPCs, AttachPCs, CommandPCs
<1>1. CASE Tool(c) /\ (RecvReboot(c) => ~gDebugging)
  <2>1. CASE Dial(c) \/ HangUp(c)
    <3>1. UNCHANGED <<host, table, session, globals, target, pc, locals>>
      BY <2>1 DEF Dial, HangUp
    <3>2. QED
      BY <3>1 DEF Traced
  <2>2. CASE \/ RecvDetach(c) \/ RecvDebugCommand(c) \/ RecvInvalid(c) \/ RecvPayload(c)
             \/ RecvReboot(c) /\ ~gDebugging
    <3>1. /\ pc[c] \in PlainPCs /\ \E to \in PlainPCs : Goto(c, to)
          /\ UNCHANGED <<table, session, globals, target, locals>>
      BY <2>2 DEF RecvDetach, RecvDebugCommand, RecvInvalid, RecvPayload, RecvReboot,
         PlainPCs
    <3>2. QED
      BY <3>1, PlainView
  <2>3. ASSUME NEW p \in Pids, RecvAttach(c, p)
        PROVE  OthersStand(c) /\ UNCHANGED <<debugging, ctxPid, target>> /\ SameView(c)
    BY <2>3 DEF RecvAttach
  <2>4. QED
    BY <1>1, <2>1, <2>2, <2>3 DEF Tool
<1>2. CASE Refuse(c) \/ AcceptSetFd(c)
  BY <1>2 DEF Refuse, CanAccept, AcceptSetFd
<1>3. CASE RecvEnd(c) \/ CheckAttach(c) \/ AttachGuard(c)
  <2>1. /\ pc[c] \in PlainPCs /\ \E to \in PlainPCs : Goto(c, to)
        /\ UNCHANGED <<svc, debugging, ctxPid, target>> /\ OthersStand(c)
    BY <1>3 DEF RecvEnd, CheckAttach, AttachGuard, PlainPCs
  <2>2. QED
    BY <2>1, PlainView
<1>4. CASE SetCurCli(c) \/ SetCurCtx(c)
  <2>1. /\ pc[c] \in PlainPCs /\ \E to \in PlainPCs : Goto(c, to)
        /\ UNCHANGED <<svc, debugging, ctxPid, target>> /\ OthersStand(c)
    BY <1>4 DEF SetCurCli, SetCurCtx, PlainPCs
  <2>2. QED
    BY <2>1, PlainView
<1>5. CASE AttachFlag(c)
  BY <1>5 DEF AttachFlag
<1>6. CASE Detach(c) \/ RebootCleanup(c)
  BY <1>6 DEF Detach, RebootCleanup, CallCleanup
<1>7. CASE ClearFlag(c) \/ ClearCurCli(c) \/ ClearCurCtx(c)
  <2>1. /\ pc[c] \in {"clearFlag", "clearCli", "clearCtx"}
        /\ \E to \in {"clearCli", "clearCtx", "release"} : Goto(c, to)
        /\ UNCHANGED <<table, session, target, locals>>
    BY <1>7 DEF ClearFlag, ClearCurCli, ClearCurCtx
  <2>2. pc'[c] \in {"clearCli", "clearCtx", "release"} /\ Traced' = Traced
    BY <2>1 DEF Traced
  <2>3. OthersStand(c) /\ UNCHANGED <<debugging, ctxPid, target>>
    BY <2>1
  <2>4. SameView(c)
    BY <2>1, <2>2
  <2>5. QED
    BY <2>3, <2>4
<1>8. CASE Poll(c)
  BY <1>8 DEF Poll
<1>9. CASE Interrupt(c) \/ FinalKill(c) \/ DebugCommand(c)
  <2>1. /\ pc[c] \in {"intr", "command"}
        /\ \E to \in {"loop", "free"} : Goto(c, to)
        /\ UNCHANGED <<host, peer, table, session, globals, target, locals>>
    BY <1>9, CommandReturns
  <2>2. QED
    BY <2>1
<1>10. CASE Reboot(c)
  BY <1>10 DEF Reboot, Traced
<1>11. CASE FreeId(c) \/ FreeClose(c)
  <2>1. /\ pc[c] \in PlainPCs /\ \E to \in PlainPCs : Goto(c, to)
        /\ UNCHANGED <<svc, debugging, ctxPid, target>> /\ OthersStand(c)
    BY <1>11 DEF FreeId, FreeClose, PlainPCs
  <2>2. QED
    BY <2>1, PlainView
<1>12. CASE FreeTest(c)
  BY <1>12 DEF FreeTest
<1>13. QED
  BY <1>1, <1>2, <1>3, <1>4, <1>5, <1>6, <1>7, <1>8, <1>9, <1>10, <1>11, <1>12

\* Slots are handed on between sessions.
LEMMA SlotHidden ==
  ASSUME SlotInv, Session, NEW c \in Conns, Accept(c) \/ AcceptReset(c) \/ FreeWipe(c)
  PROVE  UNCHANGED Promise!promise
<1>1. /\ UNCHANGED <<host, globals, target, locals>>
      /\ \A d \in Conns \ {c} : pc'[d] = pc[d] /\ svc'[d] = svc[d]
      /\ ~Inside(c) /\ ~Inside(c)'
      /\ \A d \in Conns \ {c} : Live(d) =>
           /\ debugging'[svc[d]] = debugging[svc[d]]
           /\ ctxPid'[svc[d]] = ctxPid[svc[d]]
      /\ Live(c)' => ~debugging'[svc'[c]]
  BY SlotKept
<1>2. Live(c) => ~debugging[svc[c]]
  BY DEF Accept, CanAccept, AcceptReset, FreeWipe, Session, Stage, CommandStage,
     Live, HandlerPCs, FreePCs, CleanPCs, AttachPCs, CommandPCs
<1>3. ~Involved(c) /\ ~Involved(c)' /\ ~Rebooting(c) /\ ~Rebooting(c)'
  BY <1>1, <1>2 DEF Involved, Active, Ending, Rebooting, Inside, InsidePCs, AttachPCs
<1>4. Traced' = Traced
  BY <1>1 DEF Traced
<1>5. ASSUME NEW d \in Conns PROVE SameView(d)
  <2>1. CASE d = c
    BY <1>3, <2>1 DEF SameView, Involved
  <2>2. CASE d # c
    <3>1. /\ pc'[d] = pc[d] /\ svc'[d] = svc[d] /\ Live(d)' = Live(d)
          /\ ctx' = ctx /\ after' = after /\ want' = want
      BY <1>1, <2>2 DEF Live
    <3>2. Live(d) => /\ debugging'[svc[d]] = debugging[svc[d]]
                     /\ ctxPid'[svc[d]] = ctxPid[svc[d]]
      BY <1>1, <2>2
    <3>3. ~Rebooting(d) /\ pc[d] \in CleanPCs => Live(d) /\ ctx[d] = svc[d]
      BY DEF Rebooting, Session, Stage, Closing, Live, HandlerPCs
    <3>4. Active(d)' <=> Active(d)
      BY <3>1, <3>2 DEF Active
    <3>5. Ending(d) => pc[d] \in CleanPCs
      BY DEF Ending
    <3>6. ~Rebooting(d) => (Ending(d)' <=> Ending(d))
      BY <1>4, <3>1, <3>2, <3>3 DEF Ending
    <3>7. QED
      BY <3>1, <3>2, <3>3, <3>4, <3>5, <3>6 DEF SameView, Rebooting, Active
  <2>3. QED
    BY <2>1, <2>2
<1>6. QED
  BY <1>4, <1>5, HiddenStep

-----------------------------------------------------------------------------
(* Steps the clients see                                                    *)

LEMMA MapsNext == RebootingIs' /\ IdleIs' /\ AttachingIs' /\ ActiveIs' /\ EndingIs'
BY MapRebooting, MapIdle, MapAttaching, MapActive, MapEnding, PTL

LEMMA TracedArePids == NoPid \notin Traced
BY ConstantsAssumption DEF Traced

\* While c is inside the debugger, the session is that of c or there is none.
LEMMA Alone ==
  ASSUME SlotInv, Session, NEW c \in Conns, Inside(c), OthersStand(c), OnlyMarked(c)'
  PROVE  /\ \A d \in Conns \ {c} : SameView(d)
         /\ ~Rebooting(c) => IF Involved(c) THEN Sole(c) ELSE Uninvolved
         /\ ~Rebooting(c)' => IF Involved(c)' THEN Sole(c)' ELSE Uninvolved'
BY OthersHidden DEF Sole, Uninvolved

\* PT_ATTACH begins a session.
LEMMA TraceSession ==
  ASSUME SlotInv, Session, NEW c \in Conns, AttachTrace(c)
  PROVE  [Promise!Next]_(Promise!promise)
<1> USE DEF Live, HandlerPCs, FreePCs, CleanPCs, AttachPCs, CommandPCs
<1> USE DEF SlotInv, TypeOK
<1>1. /\ Inside(c) /\ OthersStand(c) /\ pc[c] = "trace"
      /\ UNCHANGED <<debugging, ctxPid, svc>>
  BY DEF AttachTrace, Inside, InsidePCs, OthersStand
<1>2. OnlyMarked(c)'
  BY <1>1 DEF Session, OwnSession, OnlyMarked
<1>3. svc[c] \in Slots /\ ~debugging[svc[c]]
  BY <1>1 DEF Holds, Session, Stage, AttachStage, Marked
<1>4. ~Involved(c) /\ ~Rebooting(c)
  BY <1>1, <1>3 DEF Involved, Active, Ending, Rebooting
<1>5. CASE Goto(c, "free") /\ UNCHANGED target
  <2>1. SameView(c) /\ Traced' = Traced
    BY <1>1, <1>3, <1>5 DEF SameView, Rebooting, Active, Ending, Traced
  <2>2. QED
    BY <1>1, <1>2, <2>1, Alone, HiddenStep
<1>6. CASE /\ want[c] \in Pids /\ target[want[c]] = "free"
           /\ target' = [target EXCEPT ![want[c]] = "traced"]
           /\ Goto(c, "continue") /\ want' = want
  <2>1. Uninvolved
    BY <1>1, <1>2, <1>4, Alone
  <2>2. Attaching(c)' /\ ~Rebooting(c)' /\ want'[c] = want[c]
    BY <1>6 DEF Rebooting
  <2>3. Sole(c)'
    BY <1>1, <1>2, <2>2, Alone DEF Involved
  <2>4. SessionStage = "idle" /\ SessionOwner = NoConn /\ SessionTarget = NoPid
    BY <2>1, MapIdle DEF IdleIs, Mapped
  <2>5. SessionStage' = "attaching" /\ SessionOwner' = c /\ SessionTarget' = want[c]
    BY <2>2, <2>3, MapsNext DEF AttachingIs, Mapped
  <2>6. want[c] \notin Traced /\ Traced' = Traced \cup {want[c]}
    BY <1>6 DEF Traced
  <2>7. Promise!Begin(c, want[c])
    BY <2>4, <2>5, <2>6, TracedArePids DEF Promise!Begin
  <2>8. QED
    BY <1>6, <2>7 DEF Promise!Next
<1>7. QED
  BY <1>5, <1>6 DEF AttachTrace

\* A PT_CONTINUE or a connect that fails gives the session up.
LEMMA GiveUpSession ==
  ASSUME SlotInv, Session, NEW c \in Conns, AttachContinue(c) \/ AttachConnect(c)
  PROVE  [Promise!Next]_(Promise!promise)
<1> USE DEF Live, HandlerPCs, FreePCs, CleanPCs, AttachPCs, CommandPCs
<1> USE DEF SlotInv, TypeOK
<1>1. /\ pc[c] \in {"continue", "connect"}
      /\ \E to \in {"flag", "mark", "free"} : Goto(c, to)
      /\ UNCHANGED <<table, debugging, ctxPid, globals, target, locals>>
  <2>1. CASE AttachContinue(c)
    BY <2>1 DEF AttachContinue
  <2>2. CASE AttachConnect(c)
    <3>1. ctx[c] # NoSlot
      BY <2>2 DEF AttachConnect, Session, Stage, AttachStage, Holds
    <3>2. QED
      BY <2>2, <3>1 DEF AttachConnect
  <2>3. QED
    BY <2>1, <2>2
<1>2. Inside(c) /\ OthersStand(c) /\ Attaching(c) /\ ~Rebooting(c) /\ Traced' = Traced
  BY <1>1 DEF Inside, InsidePCs, OthersStand, Rebooting, Traced
<1>3. OnlyMarked(c)'
  BY <1>1, <1>2 DEF Session, OwnSession, OnlyMarked
<1>4. svc[c] \in Slots /\ ~debugging[svc[c]] /\ want[c] \in Traced
  BY <1>1, <1>2 DEF Holds, Session, Stage, AttachStage, Marked, NobodyMarked
<1>5. CASE Goto(c, "flag") \/ Goto(c, "mark")
  <2>1. SameView(c)
    BY <1>1, <1>2, <1>5 DEF SameView, Rebooting, Active, Ending
  <2>2. QED
    BY <1>2, <1>3, <2>1, Alone, HiddenStep
<1>6. CASE Goto(c, "free")
  <2>1. Sole(c)
    BY <1>2, <1>3, Alone DEF Involved
  <2>2. ~Involved(c)' /\ ~Rebooting(c)'
    BY <1>1, <1>4, <1>6 DEF Involved, Active, Ending, Rebooting
  <2>3. Uninvolved'
    BY <1>2, <1>3, <2>2, Alone
  <2>4. SessionStage = "attaching" /\ SessionOwner = c /\ SessionTarget = want[c]
    BY <1>2, <2>1, MapAttaching DEF AttachingIs, Mapped
  <2>5. SessionStage' = "idle" /\ SessionOwner' = NoConn /\ SessionTarget' = NoPid
    BY <2>3, MapsNext DEF IdleIs, Mapped
  <2>6. Promise!GiveUp
    BY <1>2, <1>4, <2>4, <2>5, TracedArePids DEF Promise!GiveUp
  <2>7. QED
    BY <2>6 DEF Promise!Next
<1>7. QED
  BY <1>1, <1>5, <1>6

\* The client is marked inside its attach; the answer opens the session.
LEMMA OpenSession ==
  ASSUME SlotInv, Session, Session', NEW c \in Conns, AttachMark(c) \/ AttachBind(c)
  PROVE  [Promise!Next]_(Promise!promise)
<1> USE DEF Live, HandlerPCs, FreePCs, CleanPCs, AttachPCs, CommandPCs
<1> USE DEF SlotInv, TypeOK
<1>1. Inside(c) /\ Attaching(c) /\ ~Rebooting(c) /\ svc[c] \in Slots
  BY DEF AttachMark, AttachBind, Inside, InsidePCs, Rebooting, Holds
<1>2. CASE AttachMark(c)
  <2>1. pc[c] = "mark" /\ curCli # NoSlot
    BY <1>1, <1>2 DEF AttachMark, Session, Stage, AttachStage
  <2>2. Goto(c, "bind") /\ UNCHANGED <<table, ctxPid, target, locals>>
    BY <1>2, <2>1 DEF AttachMark
  <2>3. pc'[c] = "bind" /\ OthersStand(c) /\ Traced' = Traced
    BY <2>2 DEF OthersStand, Traced
  <2>4. OnlyMarked(c)'
    BY <2>3 DEF Session, OwnSession, Inside, InsidePCs
  <2>5. SameView(c)
    BY <1>1, <2>1, <2>2, <2>3 DEF SameView, Rebooting, Active, Ending
  <2>6. QED
    BY <1>1, <2>3, <2>4, <2>5, Alone, HiddenStep
<1>3. CASE AttachBind(c)
  <2>1. debugging[svc[c]] /\ pc[c] = "bind"
    BY <1>1, <1>3 DEF AttachBind, Session, Stage, CommandStage
  <2>2. curCtx = svc[c] /\ curCtx # NoSlot
    BY <1>1, <2>1, OwnerTurn
  <2>3. /\ UNCHANGED <<table, debugging, chan, globals, target, after>>
        /\ Goto(c, "loop")
        /\ ctxPid' = [ctxPid EXCEPT ![svc[c]] = want[c]]
        /\ want' = [want EXCEPT ![c] = NoPid] /\ ctx' = [ctx EXCEPT ![c] = NoSlot]
    BY <1>3, <2>2 DEF AttachBind
  <2>4. OthersStand(c) /\ Traced' = Traced
    BY <2>3 DEF OthersStand, Traced
  <2>5. OnlyMarked(c)'
    BY <1>1, <2>3 DEF Session, OwnSession, OnlyMarked
  <2>6. Sole(c)
    BY <1>1, <2>4, <2>5, Alone DEF Involved
  <2>7. Active(c)' /\ ~Rebooting(c)' /\ ctxPid'[svc'[c]] = want[c]
    BY <1>1, <2>1, <2>3 DEF Active, Rebooting
  <2>8. Sole(c)'
    BY <1>1, <2>4, <2>5, <2>7, Alone DEF Involved
  <2>9. SessionStage = "attaching" /\ SessionOwner = c /\ SessionTarget = want[c]
    BY <1>1, <2>6, MapAttaching DEF AttachingIs, Mapped
  <2>10. SessionStage' = "active" /\ SessionOwner' = c /\ SessionTarget' = want[c]
    BY <2>7, <2>8, MapsNext DEF ActiveIs, Mapped
  <2>11. Promise!Open
    BY <2>4, <2>9, <2>10 DEF Promise!Open
  <2>12. QED
    BY <2>11 DEF Promise!Next
<1>4. QED
  BY <1>2, <1>3

\* debug_cleanup closes the session when it takes the mark away, and ends it
\* when it lets the process go; in a reboot it only lets the process go.
LEMMA CloseSession ==
  ASSUME SlotInv, Session, Session', NEW c \in Conns, ClearDebugging(c) \/ Release(c)
  PROVE  [Promise!Next]_(Promise!promise)
<1> USE DEF Live, HandlerPCs, FreePCs, CleanPCs, AttachPCs, CommandPCs
<1> USE DEF SlotInv, TypeOK
<1>1. Stage(c) /\ Inside(c) /\ ~Attaching(c) /\ svc[c] \in Slots
  BY DEF ClearDebugging, Release, Inside, InsidePCs, Session, Holds
<1>2. CASE ClearDebugging(c)
  <2>1. pc[c] = "clearDbg" /\ curCli \in Slots /\ curCli # NoSlot
    BY <1>1, <1>2 DEF ClearDebugging, Stage, CommandStage
  <2>2. /\ UNCHANGED <<table, ctxPid, chan, globals, target, locals>>
        /\ Goto(c, "clearFlag")
    BY <1>2, <2>1 DEF ClearDebugging
  <2>3. pc'[c] = "clearFlag" /\ OthersStand(c) /\ Traced' = Traced
    BY <2>2 DEF OthersStand, Traced
  <2>4. NobodyMarked' /\ OnlyMarked(c)'
    BY <2>3 DEF Session, Stage, CommandStage, NobodyMarked, OnlyMarked
  <2>5. Rebooting(c)' <=> Rebooting(c)
    BY <2>1, <2>2, <2>3 DEF Rebooting
  <2>6. CASE Rebooting(c)
    <3>1. SameView(c)
      BY <1>1, <2>3, <2>5, <2>6 DEF SameView
    <3>2. QED
      BY <1>1, <2>3, <2>4, <3>1, Alone, HiddenStep
  <2>7. CASE ~Rebooting(c)
    <3>1. ctx[c] = svc[c] /\ ctxPid[svc[c]] \in Traced /\ debugging[svc[c]]
      BY <1>1, <2>1, <2>7 DEF Stage, Closing, Rebooting
    <3>2. Active(c)
      BY <1>1, <2>1, <3>1 DEF Active
    <3>3. ~Attaching(c)' /\ ~Active(c)' /\ Ending(c)' /\ ctxPid'[ctx'[c]] = ctxPid[svc[c]]
      BY <1>1, <2>2, <2>3, <2>4, <3>1 DEF Active, Ending, NobodyMarked
    <3>4. Sole(c) /\ Sole(c)'
      BY <1>1, <2>3, <2>4, <2>5, <2>7, <3>2, <3>3, Alone DEF Involved
    <3>5. /\ SessionStage = "active" /\ SessionOwner = c
          /\ SessionTarget = ctxPid[svc[c]]
      BY <3>2, <3>4, MapActive DEF ActiveIs, Mapped
    <3>6. /\ SessionStage' = "ending" /\ SessionOwner' = c
          /\ SessionTarget' = ctxPid[svc[c]]
      BY <3>3, <3>4, MapsNext DEF EndingIs, Mapped
    <3>7. Promise!Close
      BY <2>3, <3>5, <3>6 DEF Promise!Close
    <3>8. QED
      BY <3>7 DEF Promise!Next
  <2>8. QED
    BY <2>6, <2>7
<1>3. CASE Release(c)
  <2>1. /\ pc[c] = "release" /\ ctx[c] \in Slots /\ ctx[c] # NoSlot /\ NobodyMarked
        /\ after[c] \in {"loop", "wipe", "reboot"}
    BY <1>1, <1>3 DEF Release, Stage, CommandStage
  <2>2. /\ UNCHANGED <<table, debugging, ctxPid, globals, want>>
        /\ Goto(c, after[c])
        /\ ctx' = [ctx EXCEPT ![c] = NoSlot] /\ after' = [after EXCEPT ![c] = "loop"]
        /\ target' = [p \in Pids |->
                        IF p = ctxPid[ctx[c]] /\ p \in Traced
                          THEN Detached(p) ELSE target[p]]
    BY <1>3, <2>1 DEF Release
  <2>3. Traced' = Traced \ {ctxPid[ctx[c]]}
    BY <2>2 DEF Traced, Detached
  <2>4. OthersStand(c) /\ OnlyMarked(c)' /\ pc'[c] = after[c]
    BY <2>1, <2>2 DEF OthersStand, OnlyMarked, NobodyMarked
  <2>5. ~Active(c)
    BY <1>1, <2>1 DEF Active, NobodyMarked
  <2>6. CASE after[c] = "reboot"
    <3>1. Rebooting(c)
      BY <2>1, <2>6 DEF Rebooting
    <3>2. ~Involved(c)' /\ ~Rebooting(c)'
      BY <1>1, <2>1, <2>2, <2>4, <2>6 DEF Involved, Active, Ending, Rebooting,
         NobodyMarked
    <3>3. Uninvolved'
      BY <1>1, <2>4, <3>2, Alone
    <3>4. SessionStage = "rebooting" /\ SessionOwner = NoConn /\ SessionTarget = NoPid
      BY <3>1, MapRebooting DEF RebootingIs, Mapped
    <3>5. SessionStage' = "idle" /\ SessionOwner' = NoConn /\ SessionTarget' = NoPid
      BY <3>3, MapsNext DEF IdleIs, Mapped
    <3>6. Promise!Shutdown
      BY <2>3, <3>4, <3>5 DEF Promise!Shutdown
    <3>7. QED
      BY <3>6 DEF Promise!Next
  <2>7. CASE after[c] # "reboot"
    <3>1. ctx[c] = svc[c] /\ ctxPid[svc[c]] \in Traced
      BY <1>1, <2>1, <2>7 DEF Stage, Closing
    <3>2. Ending(c) /\ ~Rebooting(c)
      BY <2>1, <2>7, <3>1 DEF Ending, Rebooting
    <3>3. ~Involved(c)' /\ ~Rebooting(c)'
      BY <1>1, <2>1, <2>2, <2>4, <2>7 DEF Involved, Active, Ending, Rebooting,
         NobodyMarked
    <3>4. Sole(c) /\ Uninvolved'
      BY <1>1, <2>4, <3>2, <3>3, Alone DEF Involved
    <3>5. /\ SessionStage = "ending" /\ SessionOwner = c
          /\ SessionTarget = ctxPid[ctx[c]]
      BY <1>1, <2>5, <3>4, MapEnding DEF EndingIs, Mapped
    <3>6. SessionStage' = "idle" /\ SessionOwner' = NoConn /\ SessionTarget' = NoPid
      BY <3>4, MapsNext DEF IdleIs, Mapped
    <3>7. Promise!Release
      BY <2>3, <3>5, <3>6, TracedArePids DEF Promise!Release
    <3>8. QED
      BY <3>7 DEF Promise!Next
  <2>8. QED
    BY <2>6, <2>7
<1>4. QED
  BY <1>2, <1>3

\* A client reboots the console while it debugs, or while only the flag of a
\* failed connect is set.
LEMMA RebootSession ==
  ASSUME ~Disturbance, SlotInv, Session, NEW c \in Conns, RecvReboot(c), gDebugging
  PROVE  [Promise!Next]_(Promise!promise)
<1> USE DEF Live, HandlerPCs, FreePCs, CleanPCs, AttachPCs, CommandPCs
<1> USE DEF SlotInv, TypeOK
<1>0. Turn(c)
  BY DEF RecvReboot, Disturbance, Uninvited, Step
<1>1. /\ pc[c] = "loop" /\ Rebooting(c)' /\ Traced' = Traced
      /\ \A d \in Conns \ {c} : ~Inside(d)
      /\ \A i \in Slots : debugging[i] => i = svc[c]
  BY <1>0 DEF RecvReboot, Turn, Rebooting, Traced
<1>2. \A d \in Conns : ~Rebooting(d)
  BY <1>1 DEF Rebooting, Inside, InsidePCs
<1>3. SessionStage' = "rebooting" /\ SessionOwner' = NoConn /\ SessionTarget' = NoPid
  BY <1>1, MapsNext DEF RebootingIs, Mapped
<1>4. CASE Uninvolved
  <2>1. SessionStage = "idle" /\ SessionOwner = NoConn /\ SessionTarget = NoPid
    BY <1>4, MapIdle DEF IdleIs, Mapped
  <2>2. Promise!Reboot
    BY <1>1, <1>3, <2>1 DEF Promise!Reboot
  <2>3. QED
    BY <2>2 DEF Promise!Next
<1>5. CASE ~Uninvolved
  <2>1. PICK d \in Conns : Involved(d)
    BY <1>2, <1>5 DEF Uninvolved
  <2>2. Active(d)
    BY <1>1, <2>1 DEF Involved, Ending, Inside, InsidePCs
  <2>3. Sole(d)
    BY <1>2, <2>1, OneInvolved
  <2>4. d = c
    <3>1. Holds(c) /\ Holds(d)
      BY <1>1, <2>2 DEF Active, Holds
    <3>2. svc[d] = svc[c]
      BY <1>1, <2>2, <3>1 DEF Active
    <3>3. QED
      BY <3>1, <3>2 DEF SlotOwned
  <2>5. ctxPid[svc[c]] \in Traced
    BY <1>1, <2>2, <2>4 DEF Active, Session, Stage, Holding
  <2>6. SessionStage = "active" /\ SessionOwner = c /\ SessionTarget = ctxPid[svc[c]]
    BY <2>2, <2>3, <2>4, MapActive DEF ActiveIs, Mapped
  <2>7. Promise!Reboot
    BY <1>1, <1>3, <2>5, <2>6, TracedArePids DEF Promise!Reboot
  <2>8. QED
    BY <2>7 DEF Promise!Next
<1>6. QED
  BY <1>4, <1>5

-----------------------------------------------------------------------------
\* Every step of the threads is one of the promise, or shows nothing.
LEMMA StepPromise ==
  ASSUME ~Disturbance, SessionInv, SessionInv', [Next]_vars
  PROVE  [Promise!Next]_(Promise!promise)
<1> USE DEF SessionInv
<1>1. ASSUME NEW c \in Conns, Tool(c) PROVE [Promise!Next]_(Promise!promise)
  BY <1>1, QuietSession, RebootSession
<1>2. ASSUME NEW c \in Conns, Listener(c) PROVE [Promise!Next]_(Promise!promise)
  BY <1>2, QuietSession, SlotHidden DEF Listener
<1>3. ASSUME NEW c \in Conns, Handler(c) PROVE [Promise!Next]_(Promise!promise)
  BY <1>3, QuietSession, SlotHidden, TraceSession, GiveUpSession, OpenSession,
     CloseSession DEF Handler
<1>4. ASSUME NEW c \in Conns, Reuse(c) PROVE [Promise!Next]_(Promise!promise)
  <2>1. /\ UNCHANGED <<table, session, globals, target, pc, ctx, after>>
        /\ \A d \in Conns \ {c} : want'[d] = want[d]
        /\ Attaching(c) => want'[c] = want[c]
    BY <1>4 DEF Reuse, Disturbance, Overwritten, SlotInv, TypeOK
  <2>2. Traced' = Traced /\ \A d \in Conns : SameView(d)
    BY <2>1 DEF Traced, SameView, Rebooting, Active, Ending, Live
  <2>3. QED
    BY <2>2, HiddenStep
<1>5. ASSUME NEW p \in Pids, Kill(p) PROVE [Promise!Next]_(Promise!promise)
  <2>1. UNCHANGED <<table, session, globals, pc, locals>> /\ Traced' = Traced
    BY <1>5 DEF Kill, Traced, SlotInv, TypeOK
  <2>2. \A d \in Conns : SameView(d)
    BY <2>1 DEF SameView, Rebooting, Active, Ending, Live
  <2>3. QED
    BY <2>1, <2>2, HiddenStep
<1>6. CASE UNCHANGED vars
  <2>1. Traced' = Traced
    BY <1>6 DEF vars, Traced
  <2>2. \A c \in Conns : SameView(c)
    BY <1>6, <2>1 DEF vars, SameView, Rebooting, Active, Ending, Live
  <2>3. QED
    BY <2>1, <2>2, HiddenStep
<1>7. QED
  BY <1>1, <1>2, <1>3, <1>4, <1>5, <1>6 DEF Next

\* For every number of slots, connections and processes, every step before
\* the first of the meetings is a step of DebuggerPromise or shows nothing:
\* one session at a time, whose process is let go before the next begins, and
\* an attach that comes in between is refused without a trace.
THEOREM SessionsImplementPromise == HSafeSpec => OneSessionAtATime
<1>1. Init => Promise!Init
  <2> SUFFICES ASSUME Init PROVE Promise!Init
    OBVIOUS
  <2>1. Uninvolved
    BY DEF Init, Uninvolved, Involved, Active, Ending, Rebooting, Live, HandlerPCs,
       FreePCs, CleanPCs, AttachPCs, CommandPCs
  <2>2. SessionStage = "idle" /\ SessionOwner = NoConn /\ SessionTarget = NoPid
    BY <2>1, MapIdle DEF IdleIs, Mapped
  <2>3. Traced = {}
    BY DEF Init, Traced
  <2>4. QED
    BY <2>2, <2>3 DEF Promise!Init
<1>2. Sound /\ Sound' /\ [HNext]_hvars
        => [Calm' => [Promise!Next]_(Promise!promise)]_hvars
  <2> SUFFICES ASSUME Sound, Sound', [HNext]_hvars, Calm'
               PROVE  [Promise!Next]_(Promise!promise)
    OBVIOUS
  <2>1. Calm /\ ~Disturbance /\ [Next]_vars
    BY HistoryStep
  <2>2. SessionInv /\ SessionInv'
    BY <2>1 DEF Sound
  <2>3. QED
    BY <2>1, <2>2, StepPromise
<1>3. HInit => Promise!Init
  BY <1>1 DEF HInit
<1>4. QED
  BY AlwaysSound, <1>2, <1>3, PTL DEF HSafeSpec, OneSessionAtATime

=============================================================================
