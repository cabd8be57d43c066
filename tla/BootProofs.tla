----------------------------- MODULE BootProofs -----------------------------
(***************************************************************************)
(* Write protection of the kernel, for every number of payloads, handler    *)
(* threads and CPUs, and whatever the tables hold; then what the tables say, *)
(* and with it that the debugger serves only behind the kdebugger of its    *)
(* kernel and what a console that is served goes down of.                   *)
(***************************************************************************)
EXTENDS BootRaces, FiniteSetTheorems, FunctionTheorems, TLAPS

Labels ==
  {"idle", "unprotect", "patch", "protect", "alloc", "load", "enter",
   "hooks", "trap", "clear", "set", "hooked", "find", "map", "write", "create",
   "poll", "returned", "copy", "copied", "done"}

MachineType ==
  /\ pc \in [Threads -> Labels]
  /\ cpu \in [Threads -> Cpus \cup {NoCpu}]
  /\ wp \in [Cpus -> BOOLEAN]

\* A thread that has write protection off is on a CPU; who is alone there is known.
OnACpu == \A t \in Threads : Unprotecting(t) => cpu[t] \in Cpus
Alone == shared \/ ~Sharing

OffWhereUnprotected ==
  moved \/ shared \/ \A t \in Threads : Unprotecting(t) => ~wp[cpu[t]]

IInv == MachineType /\ OnACpu /\ Alone /\ OffWhereUnprotected /\ WriteProtected

-----------------------------------------------------------------------------
\* Every thread is idle, and protection is on.
LEMMA InitInv == HInit => IInv
BY DEF HInit, Init, IInv, MachineType, Labels, Threads, OnACpu, Alone, Sharing,
       OffWhereUnprotected, WriteProtected, Unprotecting

\* What the history remembers.
LEMMA StillAlone == ASSUME Recorded PROVE Alone' /\ (moved => moved') /\ (shared => shared')
BY Zenon DEF Recorded, Alone

\* A thread goes on, inside or outside its section, and the CPUs stay as they are.
LEMMA StaysStep ==
  ASSUME IInv, Recorded, NEW t \in Threads, NEW l \in Labels, Goto(t, l),
         UNCHANGED <<cpu, wp>>,
         Unprotecting(t) <=> l \in {"patch", "protect", "trap", "clear", "set", "hooked",
                                    "copy", "copied"}
  PROVE  IInv'
<1>1. pc' \in [Threads -> Labels]
  BY DEF IInv, MachineType, Goto
<1>2. \A u \in Threads : Unprotecting(u)' <=> Unprotecting(u)
  BY DEF IInv, MachineType, Goto, Unprotecting
<1>3. MachineType' /\ OnACpu'
  BY <1>1, <1>2 DEF IInv, MachineType, OnACpu
<1>4. OffWhereUnprotected' /\ WriteProtected'
  BY <1>2, StillAlone DEF IInv, OffWhereUnprotected, WriteProtected
<1> QED
  BY <1>3, <1>4, StillAlone DEF IInv

\* cpu_disable_wp, on any CPU.
LEMMA DisableStep ==
  ASSUME IInv, Recorded, NEW t \in Threads, NEW l \in {"patch", "trap", "copy"},
         ~Unprotecting(t), Goto(t, l), DisableWp(t)
  PROVE  IInv'
<1>1. PICK c \in Cpus :
        /\ cpu' = [cpu EXCEPT ![t] = c]
        /\ wp' = [wp EXCEPT ![c] = FALSE]
  BY DEF DisableWp
<1>2. MachineType'
  BY <1>1 DEF IInv, MachineType, Goto, Labels
<1>3. \A u \in Threads : Unprotecting(u)' <=> u = t \/ Unprotecting(u)
  BY DEF IInv, MachineType, Goto, Unprotecting
<1>4. \A u \in Threads : cpu'[u] = IF u = t THEN c ELSE cpu[u]
  BY <1>1 DEF IInv, MachineType
<1>5. \A d \in Cpus : wp'[d] = IF d = c THEN FALSE ELSE wp[d]
  BY <1>1 DEF IInv, MachineType
<1>6. OnACpu'
  BY <1>3, <1>4 DEF IInv, OnACpu
<1>7. ASSUME ~moved', ~shared', NEW u \in Threads, Unprotecting(u)'
      PROVE  ~wp'[cpu'[u]]
  <2>1. CASE u = t
    BY <1>4, <1>5, <2>1
  <2>2. CASE u # t
    <3>1. Unprotecting(u) /\ cpu'[u] = cpu[u]
      BY <1>3, <1>4, <1>7, <2>2
    <3>2. cpu[u] \in Cpus /\ ~wp[cpu[u]]
      BY <1>7, <3>1, StillAlone DEF IInv, OnACpu, OffWhereUnprotected
    <3> QED
      BY <1>5, <3>1, <3>2
  <2> QED
    BY <2>1, <2>2
<1>8. ASSUME ~moved', NEW d \in Cpus, ~wp'[d]
      PROVE  \E u \in Threads : cpu'[u] = d /\ Unprotecting(u)'
  <2>1. CASE d = c
    BY <1>3, <1>4, <2>1
  <2>2. CASE d # c
    <3>1. PICK u \in Threads : cpu[u] = d /\ Unprotecting(u)
      BY <1>5, <1>8, <2>2, StillAlone DEF IInv, WriteProtected
    <3> QED
      BY <1>3, <1>4, <3>1
  <2> QED
    BY <2>1, <2>2
<1>9. OffWhereUnprotected' /\ WriteProtected'
  BY <1>7, <1>8, Zenon DEF OffWhereUnprotected, WriteProtected
<1> QED
  BY <1>2, <1>6, <1>9, StillAlone DEF IInv

\* cpu_enable_wp: write protection comes back too early for a second section on the
\* CPU, and that two met there is remembered.
LEMMA EnableStep ==
  ASSUME IInv, Recorded, NEW t \in Threads, NEW l \in {"alloc", "find", "done"},
         Unprotecting(t), Goto(t, l), EnableWp(t)
  PROVE  IInv'
<1>1. wp' = [wp EXCEPT ![cpu[t]] = TRUE] /\ cpu' = [cpu EXCEPT ![t] = NoCpu]
  BY DEF EnableWp
<1>2. MachineType'
  BY <1>1 DEF IInv, MachineType, Goto, Labels
<1>3. \A u \in Threads : Unprotecting(u)' <=> u # t /\ Unprotecting(u)
  BY DEF IInv, MachineType, Goto, Unprotecting
<1>4. \A u \in Threads : cpu'[u] = IF u = t THEN NoCpu ELSE cpu[u]
  BY <1>1 DEF IInv, MachineType
<1>5. \A d \in Cpus : wp'[d] = IF d = cpu[t] THEN TRUE ELSE wp[d]
  BY <1>1 DEF IInv, MachineType
<1>6. OnACpu'
  BY <1>3, <1>4 DEF IInv, OnACpu
<1>7. ASSUME ~moved', ~shared', NEW u \in Threads, Unprotecting(u)'
      PROVE  ~wp'[cpu'[u]]
  <2>1. u # t /\ Unprotecting(u) /\ cpu'[u] = cpu[u]
    BY <1>3, <1>4, <1>7
  <2>2. cpu[u] # cpu[t]
    BY <1>7, <2>1, StillAlone DEF IInv, Alone, Sharing
  <2>3. cpu[u] \in Cpus /\ ~wp[cpu[u]]
    BY <1>7, <2>1, StillAlone DEF IInv, OnACpu, OffWhereUnprotected
  <2> QED
    BY <1>5, <2>1, <2>2, <2>3
<1>8. ASSUME ~moved', NEW d \in Cpus, ~wp'[d]
      PROVE  \E u \in Threads : cpu'[u] = d /\ Unprotecting(u)'
  <2>1. d # cpu[t] /\ ~wp[d]
    BY <1>5, <1>8
  <2>2. PICK u \in Threads : cpu[u] = d /\ Unprotecting(u)
    BY <1>8, <2>1, StillAlone DEF IInv, WriteProtected
  <2> QED
    BY <1>3, <1>4, <2>1, <2>2
<1>9. OffWhereUnprotected' /\ WriteProtected'
  BY <1>7, <1>8, Zenon DEF OffWhereUnprotected, WriteProtected
<1> QED
  BY <1>2, <1>6, <1>9, StillAlone DEF IInv

\* The scheduler: a thread that is moved is remembered.
LEMMA MoveStep ==
  ASSUME IInv, Recorded, NEW t \in Threads, Move(t)
  PROVE  IInv'
<1>1. PICK c \in Cpus \ {cpu[t]} : cpu' = [cpu EXCEPT ![t] = c]
  BY DEF Move
<1>2. Unprotecting(t) /\ pc' = pc /\ wp' = wp
  BY DEF Move
<1>3. MachineType' /\ OnACpu'
  BY <1>1, <1>2 DEF IInv, MachineType, OnACpu, Unprotecting
<1>4. Moving
  BY <1>1, <1>2 DEF IInv, MachineType, OnACpu, Moving, Unprotecting
<1>5. moved'
  BY <1>4 DEF Recorded
<1> QED
  BY <1>3, <1>5, StillAlone DEF IInv, OffWhereUnprotected, WriteProtected

\* Nothing of the machine changes: a fault, or a step of the debugger.
LEMMA ElsewhereStep ==
  ASSUME IInv, Recorded, UNCHANGED <<pc, cpu, wp>>
  PROVE  IInv'
<1>1. \A u \in Threads : Unprotecting(u)' <=> Unprotecting(u)
  BY DEF Unprotecting
<1>2. MachineType' /\ OnACpu'
  BY <1>1 DEF IInv, MachineType, OnACpu
<1>3. OffWhereUnprotected' /\ WriteProtected'
  BY <1>1, StillAlone DEF IInv, OffWhereUnprotected, WriteProtected
<1> QED
  BY <1>2, <1>3, StillAlone DEF IInv

\* A thread that goes on outside its section, or a fault.
LEMMA OutsideStep ==
  ASSUME IInv, Recorded, NEW t \in Threads, UNCHANGED <<cpu, wp>>,
         pc[t] \in {"idle", "alloc", "load", "enter", "find", "map", "write", "create", "poll"},
         \/ pc' = pc
         \/ \E l \in {"unprotect", "load", "enter", "hooks", "map", "write", "create", "poll",
                      "returned"} : Goto(t, l)
  PROVE  IInv'
<1>1. CASE pc' = pc
  BY <1>1, ElsewhereStep
<1>2. ASSUME NEW l \in {"unprotect", "load", "enter", "hooks", "map", "write", "create", "poll",
                        "returned"}, Goto(t, l)
      PROVE  IInv'
  <2>1. l \in Labels
    BY DEF Labels
  <2>2. /\ ~Unprotecting(t)
        /\ l \notin {"patch", "protect", "trap", "clear", "set", "hooked", "copy", "copied"}
    BY DEF Unprotecting
  <2> QED
    BY <1>2, <2>1, <2>2, StaysStep
<1> QED
  BY <1>1, <1>2

\* A thread that goes on inside its section, or a fault.
LEMMA InsideStep ==
  ASSUME IInv, Recorded, NEW t \in Threads, UNCHANGED <<cpu, wp>>,
         pc[t] \in {"patch", "trap", "clear", "set", "copy"},
         \/ pc' = pc
         \/ \E l \in {"protect", "clear", "set", "hooked", "copied"} : Goto(t, l)
  PROVE  IInv'
<1>1. CASE pc' = pc
  BY <1>1, ElsewhereStep
<1>2. ASSUME NEW l \in {"protect", "clear", "set", "hooked", "copied"}, Goto(t, l)
      PROVE  IInv'
  <2>1. l \in Labels
    BY DEF Labels
  <2>2. /\ Unprotecting(t)
        /\ l \in {"patch", "protect", "trap", "clear", "set", "hooked", "copy", "copied"}
    BY DEF Unprotecting
  <2> QED
    BY <1>2, <2>1, <2>2, StaysStep
<1> QED
  BY <1>1, <1>2

\* runinstaller up to kdebugger's entry.
LEMMA KernelSteps ==
  ASSUME IInv, Recorded, NEW i \in Threads,
         Start(i) \/ Unprotect(i) \/ Patch(i) \/ Protect(i) \/ Alloc(i) \/ LoadElf(i) \/ Enter(i)
  PROVE  IInv'
<1>1. CASE Start(i)
  BY <1>1, OutsideStep DEF Start, At, Panic, machine
<1>2. CASE Unprotect(i)
  BY <1>2, DisableStep DEF Unprotect, At, Unprotecting
<1>3. CASE Patch(i)
  BY <1>3, InsideStep DEF Patch, At, IfWritable, Panic, machine
<1>4. CASE Protect(i)
  BY <1>4, EnableStep DEF Protect, At, Unprotecting
<1>5. CASE Alloc(i)
  BY <1>5, OutsideStep DEF Alloc, At, Unless, Return, machine
<1>6. CASE LoadElf(i)
  BY <1>6, OutsideStep DEF LoadElf, At, machine
<1>7. CASE Enter(i)
  BY <1>7, OutsideStep DEF Enter, At, Panic, machine
<1> QED
  BY <1>1, <1>2, <1>3, <1>4, <1>5, <1>6, <1>7

\* install_hooks
LEMMA HookSteps ==
  ASSUME IInv, Recorded, NEW i \in Threads,
         UnprotectHooks(i) \/ HookTrap(i) \/ ClearEntry(i) \/ SetEntry(i) \/ ProtectHooks(i)
  PROVE  IInv'
<1>1. CASE UnprotectHooks(i)
  BY <1>1, DisableStep DEF UnprotectHooks, At, Unprotecting
<1>2. CASE HookTrap(i)
  BY <1>2, InsideStep DEF HookTrap, At, IfWritable, Panic, machine
<1>3. CASE ClearEntry(i)
  BY <1>3, InsideStep DEF ClearEntry, At
<1>4. CASE SetEntry(i)
  BY <1>4, InsideStep DEF SetEntry, At
<1>5. CASE ProtectHooks(i)
  BY <1>5, EnableStep DEF ProtectHooks, At, Unprotecting
<1> QED
  BY <1>1, <1>2, <1>3, <1>4, <1>5

\* load_debugger
LEMMA DebuggerSteps ==
  ASSUME IInv, Recorded, NEW i \in Threads, Find(i) \/ Map(i) \/ Write(i) \/ Create(i) \/ Finish(i)
  PROVE  IInv'
<1>1. CASE Find(i)
  BY <1>1, OutsideStep DEF Find, At, Unless, Return, machine
<1>2. CASE Map(i)
  BY <1>2, OutsideStep DEF Map, At, Return, machine
<1>3. CASE Write(i)
  BY <1>3, OutsideStep DEF Write, At, Unless, Return, machine
<1>4. CASE Create(i)
  BY <1>4, OutsideStep DEF Create, At, Unless, Return, machine
<1>5. CASE Finish(i)
  BY <1>5, OutsideStep DEF Finish, At, Return, machine
<1> QED
  BY <1>1, <1>2, <1>3, <1>4, <1>5

\* sys_kern_rw
LEMMA WriterSteps ==
  ASSUME IInv, Recorded, NEW w \in Threads, KernRw(w)
  PROVE  IInv'
<1>1. CASE KernWrite(w)
  <2>1. CASE Panic
    BY <2>1, ElsewhereStep DEF Panic, machine
  <2>2. CASE DisableWp(w) /\ Goto(w, "copy")
    BY <1>1, <2>2, DisableStep DEF KernWrite, At, Unprotecting
  <2> QED
    BY <1>1, <2>1, <2>2 DEF KernWrite
<1>2. CASE KernCopy(w)
  BY <1>2, InsideStep DEF KernCopy, At, IfWritable, Panic, machine
<1>3. CASE KernProtect(w)
  BY <1>3, EnableStep DEF KernProtect, At, Unprotecting
<1> QED
  BY <1>1, <1>2, <1>3 DEF KernRw

\* The invariant holds of every state that is reached.
THEOREM Inductive == HSafeSpec => []IInv
<1>1. IInv /\ [HNext]_hvars => IInv'
  <2> SUFFICES ASSUME IInv, [HNext]_hvars PROVE IInv'
    OBVIOUS
  <2>1. ASSUME NEW i \in Installers, Recorded, Install(i) PROVE IInv'
    <3>1. i \in Threads
      BY DEF Threads
    <3> QED
      BY <2>1, <3>1, KernelSteps, HookSteps, DebuggerSteps DEF Install
  <2>2. ASSUME NEW w \in Writers, Recorded, KernRw(w) PROVE IInv'
    <3>1. w \in Threads
      BY DEF Threads
    <3> QED
      BY <2>2, <3>1, WriterSteps
  <2>3. ASSUME NEW t \in Threads, Recorded, Move(t) PROVE IInv'
    BY <2>3, MoveStep
  <2>4. ASSUME NEW k \in DOMAIN TableOf, Recorded, Load(k) PROVE IInv'
    BY <2>4, ElsewhereStep DEF Load, machine
  <2>5. CASE Recorded /\ Resolve
    BY <2>5, ElsewhereStep DEF Resolve, machine
  <2>6. CASE UNCHANGED hvars
    <3>1. UNCHANGED <<pc, cpu, wp, moved, shared>>
      BY <2>6 DEF hvars, history, vars, machine
    <3> QED
      BY <3>1 DEF IInv, MachineType, OnACpu, Alone, Sharing, OffWhereUnprotected,
                  WriteProtected, Unprotecting
  <2> QED
    BY <2>1, <2>2, <2>3, <2>4, <2>5, <2>6 DEF HNext, Next
<1> QED
  BY <1>1, InitInv, PTL DEF HSafeSpec

-----------------------------------------------------------------------------
(* Results                                                                  *)

\* Write protection comes back on every CPU, unless the scheduler moves a thread
\* between its cpu_disable_wp and its cpu_enable_wp: threads that share a CPU cannot
\* lose it, nor failures, nor payloads that are sent again.
THEOREM ProtectionComesBack == HSafeSpec => []WriteProtected
<1>1. IInv => WriteProtected
  BY DEF IInv
<1> QED
  BY <1>1, Inductive, PTL

\* Every patch, hook and CMD_KERN_WRITE finds write protection off, unless a thread
\* was moved or two met on one CPU.
THEOREM EveryWriteGoesThrough == HSafeSpec => []WritesGoThrough
<1>1. IInv => WritesGoThrough
  BY DEF IInv, OffWhereUnprotected, WritesGoThrough, Unprotecting
<1> QED
  BY <1>1, Inductive, PTL

-----------------------------------------------------------------------------
(* What the tables say (kfirmware.c, ksdk.c, installer.c, proc.c)           *)

\* The probes one by one.
LEMMA ProbesAre ==
  /\ Len(Probes) = 25
  /\ Probes[1] = <<505, \h7C7350>>
  /\ Probes[2] = <<672, \h827FB9>>
  /\ Probes[3] = <<700, \h827145>>
  /\ Probes[4] = <<701, \h827145>>
  /\ Probes[5] = <<702, \h827145>>
  /\ Probes[6] = <<750, \h7B5F4C>>
  /\ Probes[7] = <<751, \h7B5F4C>>
  /\ Probes[8] = <<755, \h7B5F4C>>
  /\ Probes[9] = <<800, \h7A0C60>>
  /\ Probes[10] = <<801, \h7A0C60>>
  /\ Probes[11] = <<803, \h7A0C60>>
  /\ Probes[12] = <<850, \h7C8B78>>
  /\ Probes[13] = <<852, \h7C8B78>>
  /\ Probes[14] = <<900, \h7E1127>>
  /\ Probes[15] = <<903, \h7DEF17>>
  /\ Probes[16] = <<904, \h7DEF17>>
  /\ Probes[17] = <<950, \h7A719C>>
  /\ Probes[18] = <<951, \h7A719C>>
  /\ Probes[19] = <<960, \h7A719C>>
  /\ Probes[20] = <<1000, \h7A96F8>>
  /\ Probes[21] = <<1001, \h7A96F8>>
  /\ Probes[22] = <<1050, \h79E4D8>>
  /\ Probes[23] = <<1070, \h79E4D8>>
  /\ Probes[24] = <<1071, \h79E4D8>>
  /\ Probes[25] = <<1100, \h8011AE>>
BY DEF Probes

\* The versions the code knows.
LEMMA SupportedAre == Supported =
  {505, 672, 700, 701, 702, 750, 751, 755, 800, 801, 803, 850, 852, 900, 903, 904, 950,
   951, 960, 1000, 1001, 1050, 1070, 1071, 1100}
BY DEF Supported, Probes, ToSet

\* Each version has one probe, so the word is where its probe looks.
LEMMA WordIsProbed ==
  ASSUME NEW k \in 1..25
  PROVE  Probes[k][1] \in Supported /\ WordAt[Probes[k][1]] = Probes[k][2]
<1> DEFINE p == Probes[k]
<1>1. ToSet(Probes) = {Probes[j] : j \in 1..25}
  BY ProbesAre DEF ToSet
<1>2. p \in ToSet(Probes)
  BY <1>1
<1>3. p[1] \in Supported
  BY <1>2 DEF Supported
<1>4. \A j \in 1..25 : Probes[j][1] = p[1] => j = k
  BY ProbesAre
<1>5. \A q \in ToSet(Probes) : q[1] = p[1] => q = p
  BY <1>1, <1>4
<1>6. (CHOOSE q \in ToSet(Probes) : q[1] = p[1]) = p
  BY <1>2, <1>5
<1> QED
  BY <1>3, <1>6 DEF WordAt

\* A version is found at the first probe that fits.
LEMMA FirstFits ==
  ASSUME NEW v, NEW k \in 1..25, Probed(v, Probes[k]),
         \A j \in 1..25 : Probed(v, Probes[j]) => k <= j
  PROVE  Detect(v) = Probes[k][1]
<1> DEFINE I == {j \in 1..Len(Probes) : Probed(v, Probes[j])}
<1>1. k \in I /\ \A j \in I : k <= j
  BY ProbesAre
<1>2. Min(I) = k
  BY <1>1 DEF Min
<1>3. SelectInSeq(Probes, LAMBDA p : Probed(v, p)) = Min(I)
  BY <1>1, Zenon DEF SelectInSeq
<1>4. k # 0
  OBVIOUS
<1> QED
  BY <1>2, <1>3, <1>4 DEF Detect

\* Probes k to m, and no other, look at a.
LookAt(k, m, a) ==
  /\ k \in 1..25 /\ m \in 1..25
  /\ \A j \in 1..25 : Probes[j][2] = a <=> k <= j /\ j <= m

\* Versions whose kernels have the word at one place are reported as the first of them.
LEMMA NeighboursFound ==
  ASSUME NEW k, NEW m, NEW a, LookAt(k, m, a)
  PROVE  \A l \in k..m : Detect(Probes[l][1]) = Probes[k][1]
<1> USE DEF LookAt
<1> SUFFICES ASSUME NEW l \in k..m PROVE Detect(Probes[l][1]) = Probes[k][1]
  OBVIOUS
<1>1. l \in 1..25 /\ k <= k /\ k <= m
  OBVIOUS
<1>2. Probes[l][1] \in Supported /\ WordAt[Probes[l][1]] = a
  BY <1>1, WordIsProbed
<1>3. \A j \in 1..25 : Probed(Probes[l][1], Probes[j]) <=> k <= j /\ j <= m
  BY <1>2 DEF Probed
<1> QED
  BY <1>1, <1>3, FirstFits

\* A version the code does not know fits nowhere.
LEMMA UnknownFound == ASSUME NEW v, v \notin Supported PROVE Detect(v) = 0
<1>1. {j \in 1..Len(Probes) : Probed(v, Probes[j])} = {}
  BY DEF Probed
<1>2. SelectInSeq(Probes, LAMBDA p : Probed(v, p)) = 0
  BY <1>1, Zenon DEF SelectInSeq
<1> QED
  BY <1>2 DEF Detect

\* The version found is the first one with the same kernel.
LEMMA FoundIs ==
  /\ Detect(505) = 505
  /\ Detect(672) = 672
  /\ Detect(700) = 700
  /\ Detect(701) = 700
  /\ Detect(702) = 700
  /\ Detect(750) = 750
  /\ Detect(751) = 750
  /\ Detect(755) = 750
  /\ Detect(800) = 800
  /\ Detect(801) = 800
  /\ Detect(803) = 800
  /\ Detect(850) = 850
  /\ Detect(852) = 850
  /\ Detect(900) = 900
  /\ Detect(903) = 903
  /\ Detect(904) = 903
  /\ Detect(950) = 950
  /\ Detect(951) = 950
  /\ Detect(960) = 950
  /\ Detect(1000) = 1000
  /\ Detect(1001) = 1000
  /\ Detect(1050) = 1050
  /\ Detect(1070) = 1050
  /\ Detect(1071) = 1050
  /\ Detect(1100) = 1100
<1>1. \A l \in 1..1 : Detect(Probes[l][1]) = Probes[1][1]
  <2>1. LookAt(1, 1, \h7C7350)
    BY ProbesAre, SMT DEF LookAt
  <2> QED
    BY <2>1, NeighboursFound, SMT
<1>2. \A l \in 2..2 : Detect(Probes[l][1]) = Probes[2][1]
  <2>1. LookAt(2, 2, \h827FB9)
    BY ProbesAre, SMT DEF LookAt
  <2> QED
    BY <2>1, NeighboursFound, SMT
<1>3. \A l \in 3..5 : Detect(Probes[l][1]) = Probes[3][1]
  <2>1. LookAt(3, 5, \h827145)
    BY ProbesAre, SMT DEF LookAt
  <2> QED
    BY <2>1, NeighboursFound, SMT
<1>4. \A l \in 6..8 : Detect(Probes[l][1]) = Probes[6][1]
  <2>1. LookAt(6, 8, \h7B5F4C)
    BY ProbesAre, SMT DEF LookAt
  <2> QED
    BY <2>1, NeighboursFound, SMT
<1>5. \A l \in 9..11 : Detect(Probes[l][1]) = Probes[9][1]
  <2>1. LookAt(9, 11, \h7A0C60)
    BY ProbesAre, SMT DEF LookAt
  <2> QED
    BY <2>1, NeighboursFound, SMT
<1>6. \A l \in 12..13 : Detect(Probes[l][1]) = Probes[12][1]
  <2>1. LookAt(12, 13, \h7C8B78)
    BY ProbesAre, SMT DEF LookAt
  <2> QED
    BY <2>1, NeighboursFound, SMT
<1>7. \A l \in 14..14 : Detect(Probes[l][1]) = Probes[14][1]
  <2>1. LookAt(14, 14, \h7E1127)
    BY ProbesAre, SMT DEF LookAt
  <2> QED
    BY <2>1, NeighboursFound, SMT
<1>8. \A l \in 15..16 : Detect(Probes[l][1]) = Probes[15][1]
  <2>1. LookAt(15, 16, \h7DEF17)
    BY ProbesAre, SMT DEF LookAt
  <2> QED
    BY <2>1, NeighboursFound, SMT
<1>9. \A l \in 17..19 : Detect(Probes[l][1]) = Probes[17][1]
  <2>1. LookAt(17, 19, \h7A719C)
    BY ProbesAre, SMT DEF LookAt
  <2> QED
    BY <2>1, NeighboursFound, SMT
<1>10. \A l \in 20..21 : Detect(Probes[l][1]) = Probes[20][1]
  <2>1. LookAt(20, 21, \h7A96F8)
    BY ProbesAre, SMT DEF LookAt
  <2> QED
    BY <2>1, NeighboursFound, SMT
<1>11. \A l \in 22..24 : Detect(Probes[l][1]) = Probes[22][1]
  <2>1. LookAt(22, 24, \h79E4D8)
    BY ProbesAre, SMT DEF LookAt
  <2> QED
    BY <2>1, NeighboursFound, SMT
<1>12. \A l \in 25..25 : Detect(Probes[l][1]) = Probes[25][1]
  <2>1. LookAt(25, 25, \h8011AE)
    BY ProbesAre, SMT DEF LookAt
  <2> QED
    BY <2>1, NeighboursFound, SMT
<1> QED
  BY <1>1, <1>2, <1>3, <1>4, <1>5, <1>6, <1>7, <1>8, <1>9, <1>10, <1>11, <1>12,
     ProbesAre, SMT

\* init_ksdk, version by version.
LEMMA SdkIs ==
  /\ SdkOf(505) = Sdk505
  /\ SdkOf(672) = Sdk672
  /\ SdkOf(700) = Sdk70X /\ SdkOf(701) = Sdk70X /\ SdkOf(702) = Sdk70X
  /\ SdkOf(750) = Sdk75X /\ SdkOf(751) = Sdk75X /\ SdkOf(755) = Sdk75X
  /\ SdkOf(800) = Sdk80X /\ SdkOf(801) = Sdk80X /\ SdkOf(803) = Sdk80X
  /\ SdkOf(850) = Sdk85X /\ SdkOf(852) = Sdk85X
  /\ SdkOf(900) = Sdk900
  /\ SdkOf(903) = Sdk90X /\ SdkOf(904) = Sdk90X
  /\ SdkOf(950) = Sdk9XX /\ SdkOf(951) = Sdk9XX /\ SdkOf(960) = Sdk9XX
  /\ SdkOf(1000) = Sdk100X /\ SdkOf(1001) = Sdk100X
  /\ SdkOf(1050) = Sdk10XX /\ SdkOf(1070) = Sdk10XX /\ SdkOf(1071) = Sdk10XX
  /\ SdkOf(1100) = Sdk1100
<1>1. SdkOf(505) = Sdk505
  BY DEF SdkOf
<1>2. SdkOf(672) = Sdk672
  BY DEF SdkOf
<1>3. SdkOf(700) = Sdk70X /\ SdkOf(701) = Sdk70X /\ SdkOf(702) = Sdk70X
  BY DEF SdkOf
<1>4. SdkOf(750) = Sdk75X /\ SdkOf(751) = Sdk75X /\ SdkOf(755) = Sdk75X
  BY DEF SdkOf
<1>5. SdkOf(800) = Sdk80X /\ SdkOf(801) = Sdk80X /\ SdkOf(803) = Sdk80X
  BY DEF SdkOf
<1>6. SdkOf(850) = Sdk85X /\ SdkOf(852) = Sdk85X
  BY DEF SdkOf
<1>7. SdkOf(900) = Sdk900
  BY DEF SdkOf
<1>8. SdkOf(903) = Sdk90X /\ SdkOf(904) = Sdk90X
  BY DEF SdkOf
<1>9. SdkOf(950) = Sdk9XX /\ SdkOf(951) = Sdk9XX /\ SdkOf(960) = Sdk9XX
  BY DEF SdkOf
<1>10. SdkOf(1000) = Sdk100X /\ SdkOf(1001) = Sdk100X
  BY DEF SdkOf
<1>11. SdkOf(1050) = Sdk10XX /\ SdkOf(1070) = Sdk10XX /\ SdkOf(1071) = Sdk10XX
  BY DEF SdkOf
<1>12. SdkOf(1100) = Sdk1100
  BY DEF SdkOf
<1> QED
  BY <1>1, <1>2, <1>3, <1>4, <1>5, <1>6, <1>7, <1>8, <1>9, <1>10, <1>11, <1>12

\* patch_kernel, version by version.
LEMMA PatchIs ==
  /\ PatchOf(505) = Patch505
  /\ PatchOf(672) = Patch672
  /\ PatchOf(700) = Patch70X /\ PatchOf(701) = Patch70X /\ PatchOf(702) = Patch70X
  /\ PatchOf(750) = NoPatch /\ PatchOf(751) = NoPatch /\ PatchOf(755) = NoPatch
  /\ PatchOf(800) = Patch80X /\ PatchOf(801) = Patch80X /\ PatchOf(803) = Patch80X
  /\ PatchOf(850) = Patch8XX /\ PatchOf(852) = Patch8XX
  /\ PatchOf(900) = Patch900
  /\ PatchOf(903) = Patch90X /\ PatchOf(904) = Patch90X
  /\ PatchOf(950) = Patch9XX /\ PatchOf(951) = Patch9XX /\ PatchOf(960) = Patch9XX
  /\ PatchOf(1000) = Patch100X /\ PatchOf(1001) = Patch100X
  /\ PatchOf(1050) = Patch10XX /\ PatchOf(1070) = Patch10XX /\ PatchOf(1071) = Patch10XX
  /\ PatchOf(1100) = Patch1100
<1>1. PatchOf(505) = Patch505
  BY DEF PatchOf
<1>2. PatchOf(672) = Patch672
  BY DEF PatchOf
<1>3. PatchOf(700) = Patch70X /\ PatchOf(701) = Patch70X /\ PatchOf(702) = Patch70X
  BY DEF PatchOf
<1>4. PatchOf(750) = NoPatch /\ PatchOf(751) = NoPatch /\ PatchOf(755) = NoPatch
  BY DEF PatchOf
<1>5. PatchOf(800) = Patch80X /\ PatchOf(801) = Patch80X /\ PatchOf(803) = Patch80X
  BY DEF PatchOf
<1>6. PatchOf(850) = Patch8XX /\ PatchOf(852) = Patch8XX
  BY DEF PatchOf
<1>7. PatchOf(900) = Patch900
  BY DEF PatchOf
<1>8. PatchOf(903) = Patch90X /\ PatchOf(904) = Patch90X
  BY DEF PatchOf
<1>9. PatchOf(950) = Patch9XX /\ PatchOf(951) = Patch9XX /\ PatchOf(960) = Patch9XX
  BY DEF PatchOf
<1>10. PatchOf(1000) = Patch100X /\ PatchOf(1001) = Patch100X
  BY DEF PatchOf
<1>11. PatchOf(1050) = Patch10XX /\ PatchOf(1070) = Patch10XX /\ PatchOf(1071) = Patch10XX
  BY DEF PatchOf
<1>12. PatchOf(1100) = Patch1100
  BY DEF PatchOf
<1> QED
  BY <1>1, <1>2, <1>3, <1>4, <1>5, <1>6, <1>7, <1>8, <1>9, <1>10, <1>11, <1>12


\* What the patches of a kernel have to be: in their functions, thirteen, apart.
Written(p) == p.others \cup p.kmem_alloc \cup {p.memcpy, p.vm_map_protect, TrapHook}
EightApart(S) == Cardinality(S) = 13 /\ \A a, b \in S : a < b => a + 8 <= b
Fit(p, f) ==
  /\ p # NoPatch
  /\ Takes({p.memcpy}, f.memcpy) /\ Takes(p.kmem_alloc, f.kmem_alloc)
  /\ EightApart(Written(p))

\* Thirteen places in ascending order, each eight bytes or more from the next.
Rising(f) ==
  /\ f \in [1..13 -> Nat]
  /\ \A j, k \in 1..13 : j < k => f[j] + 8 <= f[k]
Places(f) == {f[k] : k \in 1..13}

\* Thirteen different places, then.
LEMMA RisingApart == ASSUME NEW f, Rising(f) PROVE EightApart(Places(f))
<1>1. f \in [1..13 -> Nat] /\ \A j, k \in 1..13 : j < k => f[j] + 8 <= f[k]
  BY DEF Rising
<1>2. \A j, k \in 1..13 : f[j] = f[k] => j = k
  <2> SUFFICES ASSUME NEW j \in 1..13, NEW k \in 1..13, f[j] = f[k], j # k PROVE FALSE
    OBVIOUS
  <2>1. f[j] \in Nat /\ f[k] \in Nat /\ (j < k \/ k < j)
    BY <1>1
  <2> QED
    BY <1>1, <2>1
<1>3. f \in Bijection(1..13, Places(f))
  BY <1>1, <1>2, Fun_IsBij DEF Places
<1>4. Cardinality(Places(f)) = 13
  BY <1>3, FS_CountingElements DEF ExistsBijection
<1>5. \A a, b \in Places(f) : a < b => a + 8 <= b
  <2> SUFFICES ASSUME NEW j \in 1..13, NEW k \in 1..13, f[j] < f[k] PROVE f[j] + 8 <= f[k]
    BY DEF Places
  <2>1. f[j] \in Nat /\ f[k] \in Nat /\ (j < k \/ k < j \/ j = k)
    BY <1>1
  <2>2. ~(k < j)
    BY <1>1, <2>1
  <2> QED
    BY <1>1, <2>1, <2>2
<1> QED
  BY <1>4, <1>5 DEF EightApart

\* The patches of 5.05.
LEMMA Patch505Fits ==
  Fit(Patch505, Sdk505) /\ Takes({Patch505.vm_map_protect}, Sdk505.vm_map_protect)
<1> DEFINE f == <<\h11730, \h117B0, \h117C0, \hFCD48, \hFCD56, \h13F03F, \h1718D8,
                  \h194875, \h1A3C08, \h1EA53D, \h30D9AA, \h30DE01, \h7673E0>>
<1>1. Rising(f) /\ Written(Patch505) = Places(f)
  BY SMT DEF Patch505, Written, TrapHook, Rising, Places
<1> HIDE DEF f
<1>2. EightApart(Written(Patch505))
  BY <1>1, RisingApart
<1> QED
  BY <1>2, SMT DEF Patch505, Sdk505, NoPatch, Fit, Takes, Inside, MaxLength

\* The patches of 6.72.
LEMMA Patch672Fits ==
  Fit(Patch672, Sdk672) /\ Takes({Patch672.vm_map_protect}, Sdk672.vm_map_protect)
<1> DEFINE f == <<\hAD2E4, \h10F879, \h10FD22, \h1718D8, \h233BD0, \h233C40, \h233C50,
                  \h2507F5, \h250803, \h3C15BD, \h3CECE1, \h451DB8, \h784120>>
<1>1. Rising(f) /\ Written(Patch672) = Places(f)
  BY SMT DEF Patch672, Written, TrapHook, Rising, Places
<1> HIDE DEF f
<1>2. EightApart(Written(Patch672))
  BY <1>1, RisingApart
<1> QED
  BY <1>2, SMT DEF Patch672, Sdk672, NoPatch, Fit, Takes, Inside, MaxLength

\* The patches of 7.00, 7.01 and 7.02.
LEMMA Patch70XFits ==
  Fit(Patch70X, Sdk70X)
<1> DEFINE f == <<\h2F04D, \h448D5, \h44DAF, \hC1F9A, \h1171BE, \h1171C6, \h1718D8,
                  \h1CB880, \h1CB8F0, \h1CB910, \h1D40BB, \h264C08, \h7889E0>>
<1>1. Rising(f) /\ Written(Patch70X) = Places(f)
  BY SMT DEF Patch70X, Written, TrapHook, Rising, Places
<1> HIDE DEF f
<1>2. EightApart(Written(Patch70X))
  BY <1>1, RisingApart
<1> QED
  BY <1>2, SMT DEF Patch70X, Sdk70X, NoPatch, Fit, Takes, Inside, MaxLength

\* The patches of 8.00, 8.01 and 8.03.
LEMMA Patch80XFits ==
  Fit(Patch80X, Sdk80X) /\ Takes({Patch80X.vm_map_protect}, Sdk80X.vm_map_protect)
<1> DEFINE f == <<\h1B4BC, \h1B4C4, \hFED61, \h1718D8, \h174155, \h174173, \h1D5710,
                  \h1D5780, \h1D57A0, \h25E1CD, \h2856F4, \h3EC68B, \h766DF0>>
<1>1. Rising(f) /\ Written(Patch80X) = Places(f)
  BY SMT DEF Patch80X, Written, TrapHook, Rising, Places
<1> HIDE DEF f
<1>2. EightApart(Written(Patch80X))
  BY <1>1, RisingApart
<1> QED
  BY <1>2, SMT DEF Patch80X, Sdk80X, NoPatch, Fit, Takes, Inside, MaxLength

\* The patches of 8.50 and 8.52.
LEMMA Patch8XXFits ==
  Fit(Patch8XX, Sdk85X) /\ Takes({Patch8XX.vm_map_protect}, Sdk85X.vm_map_protect)
<1> DEFINE f == <<\h84411, \h132535, \h132A0F, \h14D6DB, \h1718D8, \h215154, \h219A6C,
                  \h219A74, \h2935E0, \h293650, \h293670, \h3A40FD, \h76CEB0>>
<1>1. Rising(f) /\ Written(Patch8XX) = Places(f)
  BY SMT DEF Patch8XX, Written, TrapHook, Rising, Places
<1> HIDE DEF f
<1>2. EightApart(Written(Patch8XX))
  BY <1>1, RisingApart
<1> QED
  BY <1>2, SMT DEF Patch8XX, Sdk85X, NoPatch, Fit, Takes, Inside, MaxLength

\* The patches of 9.00.
LEMMA Patch900Fits ==
  Fit(Patch900, Sdk900) /\ Takes({Patch900.vm_map_protect}, Sdk900.vm_map_protect)
<1> DEFINE f == <<\h5F824, \h80B8B, \h8BC20, \h8BC90, \h8BCB0, \h168051, \h1718D8,
                  \h2714BD, \h37BF3C, \h37BF44, \h41F4E5, \h41F9D1, \h767E30>>
<1>1. Rising(f) /\ Written(Patch900) = Places(f)
  BY SMT DEF Patch900, Written, TrapHook, Rising, Places
<1> HIDE DEF f
<1>2. EightApart(Written(Patch900))
  BY <1>1, RisingApart
<1> QED
  BY <1>2, SMT DEF Patch900, Sdk900, NoPatch, Fit, Takes, Inside, MaxLength

\* The patches of 9.03 and 9.04.
LEMMA Patch90XFits ==
  Fit(Patch90X, Sdk90X) /\ Takes({Patch90X.vm_map_protect}, Sdk90X.vm_map_protect)
<1> DEFINE f == <<\h5F824, \h80B8B, \h8BC20, \h8BC90, \h8BCB0, \h168001, \h1718D8,
                  \h27113D, \h37A13C, \h37A144, \h41D455, \h41D941, \h765DF0>>
<1>1. Rising(f) /\ Written(Patch90X) = Places(f)
  BY SMT DEF Patch90X, Written, TrapHook, Rising, Places
<1> HIDE DEF f
<1>2. EightApart(Written(Patch90X))
  BY <1>1, RisingApart
<1> QED
  BY <1>2, SMT DEF Patch90X, Sdk90X, NoPatch, Fit, Takes, Inside, MaxLength

\* The patches of 9.50, 9.51 and 9.60.
LEMMA Patch9XXFits ==
  Fit(Patch9XX, Sdk9XX) /\ Takes({Patch9XX.vm_map_protect}, Sdk9XX.vm_map_protect)
<1> DEFINE f == <<\h32590, \h32600, \h32620, \h124AA1, \h1718D8, \h188A9C, \h188AA4,
                  \h196D3B, \h201CCD, \h29AE74, \h47A005, \h47A4F1, \h7603C0>>
<1>1. Rising(f) /\ Written(Patch9XX) = Places(f)
  BY SMT DEF Patch9XX, Written, TrapHook, Rising, Places
<1> HIDE DEF f
<1>2. EightApart(Written(Patch9XX))
  BY <1>1, RisingApart
<1> QED
  BY <1>2, SMT DEF Patch9XX, Sdk9XX, NoPatch, Fit, Takes, Inside, MaxLength

\* The patches of 10.00 and 10.01.
LEMMA Patch100XFits ==
  Fit(Patch100X, Sdk100X) /\ Takes({Patch100X.vm_map_protect}, Sdk100X.vm_map_protect)
<1> DEFINE f == <<\hA5C60, \hA5CD0, \hA5CF0, \hEF2C1, \h1718D8, \h33B10C, \h33B114,
                  \h39207B, \h3BF3A4, \h44E625, \h44EB11, \h472D2D, \h765620>>
<1>1. Rising(f) /\ Written(Patch100X) = Places(f)
  BY SMT DEF Patch100X, Written, TrapHook, Rising, Places
<1> HIDE DEF f
<1>2. EightApart(Written(Patch100X))
  BY <1>1, RisingApart
<1> QED
  BY <1>2, SMT DEF Patch100X, Sdk100X, NoPatch, Fit, Takes, Inside, MaxLength

\* The patches of 10.50, 10.70 and 10.71.
LEMMA Patch10XXFits ==
  Fit(Patch10XX, Sdk10XX) /\ Takes({Patch10XX.vm_map_protect}, Sdk10XX.vm_map_protect)
<1> DEFINE f == <<\hD737D, \h1718D8, \h19E151, \h1F4470, \h1F44E0, \h1F4500, \h345E04,
                  \h424E85, \h425371, \h428A2C, \h428A34, \h47B2EC, \h7673D0>>
<1>1. Rising(f) /\ Written(Patch10XX) = Places(f)
  BY SMT DEF Patch10XX, Written, TrapHook, Rising, Places
<1> HIDE DEF f
<1>2. EightApart(Written(Patch10XX))
  BY <1>1, RisingApart
<1> QED
  BY <1>2, SMT DEF Patch10XX, Sdk10XX, NoPatch, Fit, Takes, Inside, MaxLength

\* The patches of 11.00.
LEMMA Patch1100Fits ==
  Fit(Patch1100, Sdk1100) /\ Takes({Patch1100.vm_map_protect}, Sdk1100.vm_map_protect)
<1> DEFINE f == <<\h157F91, \h1718D8, \h245EDC, \h245EE4, \h2DDDFD, \h35C8EC, \h384285,
                  \h384771, \h3B11A4, \h3D0DE0, \h3D0E50, \h3D0E70, \h76D210>>
<1>1. Rising(f) /\ Written(Patch1100) = Places(f)
  BY SMT DEF Patch1100, Written, TrapHook, Rising, Places
<1> HIDE DEF f
<1>2. EightApart(Written(Patch1100))
  BY <1>1, RisingApart
<1> QED
  BY <1>2, SMT DEF Patch1100, Sdk1100, NoPatch, Fit, Takes, Inside, MaxLength


\* Versions with one kernel, but for those of 7.00.
Kin(v, w) ==
  \/ v = 750 /\ w \in {750, 751, 755}
  \/ v = 800 /\ w \in {800, 801, 803}
  \/ v = 850 /\ w \in {850, 852}
  \/ v = 903 /\ w \in {903, 904}
  \/ v = 950 /\ w \in {950, 951, 960}
  \/ v = 1000 /\ w \in {1000, 1001}
  \/ v = 1050 /\ w \in {1050, 1070, 1071}

\* A table that has two versions in the same rows has the same for both.
Alike(table, v, w) == \A row \in table : v \in row.for <=> w \in row.for

\* What is looked up is then the same.
LEMMA AlikeRows ==
  ASSUME NEW table, NEW v, NEW w, Alike(table, v, w)
  PROVE  RowOf(table, v) = RowOf(table, w)
<1>1. (\E row \in table : v \in row.for) <=> (\E row \in table : w \in row.for)
  BY DEF Alike
<1>2. (CHOOSE row \in table : v \in row.for) = (CHOOSE row \in table : w \in row.for)
  BY DEF Alike
<1> QED
  BY <1>1, <1>2 DEF RowOf

\* Versions of one kernel are in the same rows.
LEMMA TablesAlike ==
  ASSUME NEW v, NEW w, Kin(v, w)
  PROVE  Alike(Sprx, v, w) /\ Alike(Web, v, w) /\ Alike(Sys, v, w) /\ Alike(InstallerSys, v, w)
<1>1. Alike(Sprx, v, w)
  BY SMT DEF Sprx, Kin, Alike, Row
<1>2. Alike(Web, v, w)
  BY SMT DEF Web, Kin, Alike, Row
<1>3. Alike(Sys, v, w)
  BY SMT DEF Sys, Kin, Alike, Row
<1>4. Alike(InstallerSys, v, w)
  BY SMT DEF InstallerSys, Kin, Alike, Row
<1> QED
  BY <1>1, <1>2, <1>3, <1>4

\* The table of libkernel_sys.sprx tells 7.01 and 7.02 from 7.00.
LEMMA RowsOfSeven ==
  ASSUME NEW v \in {701, 702}
  PROVE  RowOf(InstallerSys, 700) # RowOf(InstallerSys, v)
<1> DEFINE seven == Row({700, 750, 751, 755}, \h14160, \h145A0, \h8D830)
           later == Row({701, 702}, \h14210, \h14650, \h8D830)
<1>1. /\ seven \in InstallerSys /\ \A row \in InstallerSys : 700 \in row.for <=> row = seven
      /\ later \in InstallerSys /\ \A row \in InstallerSys : v \in row.for <=> row = later
      /\ seven.at # later.at /\ 700 \in seven.for /\ v \in later.for
  BY SMT DEF InstallerSys, Row
<1> HIDE DEF seven, later
<1>2. RowOf(InstallerSys, 700) = seven.at
  BY <1>1 DEF RowOf
<1>3. RowOf(InstallerSys, v) = later.at
  BY <1>1 DEF RowOf
<1> QED
  BY <1>1, <1>2, <1>3

\* What the tables of a kernel are to the version found: those of its own version.
LEMMA NoneIsNone == Detect(0) = 0 /\ SdkOf(0) = NoSdk /\ PatchOf(0) = NoPatch
<1>1. 0 \notin Supported
  BY SupportedAre
<1>2. SdkOf(0) = NoSdk
  BY DEF SdkOf
<1>3. PatchOf(0) = NoPatch
  BY DEF PatchOf
<1> QED
  BY <1>1, <1>2, <1>3, UnknownFound

\* A version is found, or none.
LEMMA FoundKnown == ASSUME NEW v PROVE Detect(v) \in Supported \cup {0}
<1>1. CASE v \in Supported
  BY <1>1, FoundIs, SupportedAre, SMT
<1>2. CASE v \notin Supported
  BY <1>2, UnknownFound
<1> QED
  BY <1>1, <1>2

\* Every kernel in the tables has its functions somewhere.
LEMMA SdksKnown ==
  /\ NoSdk \notin {Sdk505, Sdk672, Sdk70X, Sdk75X, Sdk80X, Sdk85X}
  /\ NoSdk \notin {Sdk900, Sdk90X, Sdk9XX, Sdk100X, Sdk10XX, Sdk1100}
BY SMT DEF NoSdk, Sdk505, Sdk672, Sdk70X, Sdk75X, Sdk80X, Sdk85X, Sdk900, Sdk90X, Sdk9XX,
           Sdk100X, Sdk10XX, Sdk1100

\* The functions of the kernel are where they are in the version found.
LEMMA SdkFound ==
  ASSUME NEW v \in Supported
  PROVE  SdkOf(Detect(v)) = SdkOf(v) /\ SdkOf(v) # NoSdk
BY SupportedAre, FoundIs, SdkIs, SdksKnown, SMT

\* Functions are found only of a version the code knows.
LEMMA SdkUnknown ==
  ASSUME NEW v, SdkOf(Detect(v)) # NoSdk
  PROVE  v \in Supported
BY UnknownFound, NoneIsNone

\* Every version found has its patches, but for 7.50, 7.51 and 7.55.
LEMMA PatchFound ==
  ASSUME NEW v \in Supported
  PROVE  /\ v \in {750, 751, 755} => PatchOf(Detect(v)) = NoPatch
         /\ v \notin {750, 751, 755} => Fit(PatchOf(Detect(v)), SdkOf(v))
         /\ v \notin {700, 701, 702, 750, 751, 755} =>
              Takes({PatchOf(Detect(v)).vm_map_protect}, SdkOf(v).vm_map_protect)
<1> USE FoundIs, SdkIs, PatchIs
<1>1. CASE v \in {505, 672}
  BY <1>1, Patch505Fits, Patch672Fits, SMT
<1>2. CASE v \in {700, 701, 702}
  BY <1>2, Patch70XFits, SMT
<1>3. CASE v \in {750, 751, 755}
  BY <1>3, SMT
<1>4. CASE v \in {800, 801, 803, 850, 852}
  BY <1>4, Patch80XFits, Patch8XXFits, SMT
<1>5. CASE v \in {900, 903, 904}
  BY <1>5, Patch900Fits, Patch90XFits, SMT
<1>6. CASE v \in {950, 951, 960}
  BY <1>6, Patch9XXFits, SMT
<1>7. CASE v \in {1000, 1001, 1050, 1070, 1071}
  BY <1>7, Patch100XFits, Patch10XXFits, SMT
<1>8. CASE v = 1100
  BY <1>8, Patch1100Fits, SMT
<1> QED
  BY <1>1, <1>2, <1>3, <1>4, <1>5, <1>6, <1>7, <1>8, SupportedAre, SMT

\* Versions without a case are not patched.
LEMMA PatchNotFound ==
  ASSUME NEW v \in Supported, PatchOf(Detect(v)) # NoPatch
  PROVE  v \notin {750, 751, 755}
BY PatchFound, SupportedAre

\* A version with patches has those of its kernel.
LEMMA PatchFits ==
  ASSUME NEW v \in Supported, v \notin {750, 751, 755}
  PROVE  PatchOf(Detect(v)) # NoPatch /\ Fit(PatchOf(Detect(v)), SdkOf(v))
<1>1. Fit(PatchOf(Detect(v)), SdkOf(v))
  BY PatchFound, SupportedAre
<1> QED
  BY <1>1 DEF Fit

\* The functions of a process are where they are in the version found, but for
\* 7.01 and 7.02.
LEMMA RowsFound ==
  ASSUME NEW v \in Supported, v \notin {701, 702}
  PROVE  \A table \in {Sprx, Web, Sys, InstallerSys} :
           RowOf(table, Detect(v)) = RowOf(table, v)
<1>1. Detect(v) = v \/ Kin(Detect(v), v)
  BY SupportedAre, FoundIs, SMT DEF Kin
<1> QED
  BY <1>1, TablesAlike, AlikeRows

\* On 7.01 and 7.02 they are not.
LEMMA RowsNotFound ==
  ASSUME NEW v \in {701, 702}
  PROVE  RowOf(InstallerSys, Detect(v)) # RowOf(InstallerSys, v)
BY FoundIs, RowsOfSeven

-----------------------------------------------------------------------------
(* What was found, patched, loaded and hooked                               *)

InKdebugger == {"hooks", "trap", "clear", "set", "hooked", "find", "map", "write",
                "create", "poll"}
PastHooks == {"hooked", "find", "map", "write", "create", "poll"}

\* A payload that has started knows the version, and a kdebugger that was entered
\* found the same one.
Versions ==
  \A i \in Installers :
    /\ pc[i] # "idle" => cached[i] = Found[fw] /\ SdkOf(Found[fw]) # NoSdk
    /\ pc[i] \in InKdebugger => kmem[i] = "rwx" /\ kcached[i] = Found[fw]

\* The kernel is patched for the version found, or not at all; memory is
\* executable only where the patches are in the right place.
Patched ==
  /\ text \in {NoPatch, PatchOf(Found[fw])}
  /\ \A i \in Installers :
       kmem[i] = "rwx" => Takes(text.kmem_alloc, Kernel(fw).kmem_alloc)

\* Entries that were written belong to a kdebugger of the version found; one that
\* is clear is about to be set; those a payload has passed are no longer the kernel's.
Entries ==
  /\ \A k \in Syscalls :
       /\ sysent[k] \in Installers => kcached[sysent[k]] = Found[fw]
       /\ sysent[k] = "clear" => \E i \in Installers : pc[i] = "set" /\ n[i] = k
  /\ \A i \in Installers :
       /\ pc[i] \notin InKdebugger \cup {"returned"} \/ pc[i] \in {"hooks", "trap"} => n[i] = 107
       /\ \A k \in Syscalls :
            \/ pc[i] \in {"clear", "set"} /\ k < n[i]
            \/ pc[i] = "set" /\ k = n[i]
            \/ pc[i] \in PastHooks
            => sysent[k] # "original"

\* The debugger runs only in memory that was mapped and written, once a kdebugger
\* has been hooked behind every entry, on a console whose functions were found.
Begun ==
  /\ \A i \in Installers :
       /\ pc[i] = "write" => payload # "none"
       /\ pc[i] = "create" => payload = "written"
  /\ shell >= 1 =>
       /\ payload = "written"
       /\ \A k \in Syscalls : sysent[k] # "original"
       /\ \E i \in Installers : kmem[i] = "rwx" /\ SdkOf(Found[fw]) # NoSdk
       /\ RowOf(InstallerSys, Found[fw]) = RowOf(InstallerSys, fw)

\* The libraries of the calls it has made are resolved.
Libraries == \A m \in 1..Len(Startup) : m < shell => Startup[m].gives \in resolved

BInv == TypeOK /\ Versions /\ Patched /\ Entries /\ Begun /\ Libraries

\* On a console that is served the patches are there before memory is allocated,
\* hence the memory of kdebugger is executable.
Prepared ==
  \A i \in Installers :
    /\ pc[i] \in {"protect", "alloc"} => text = PatchOf(Found[fw])
    /\ pc[i] \in {"load", "enter"} => kmem[i] = "rwx"
SInv == moved \/ shared \/ called \/ (fw \in Served => down = "no" /\ Prepared)

-----------------------------------------------------------------------------
\* What the invariant says of the kernel and the debugger, and what it is about.
Core == Versions /\ Patched /\ Entries /\ Begun /\ Libraries
told == <<fw, n, cached, kcached, kmem, text, sysent, payload, shell, resolved>>

USE DEF InKdebugger, PastHooks

\* The calls of _main, one by one.
LEMMA StartupIs ==
  /\ Len(Startup) = 8
  /\ Startup[1] = InitKernel /\ Startup[2] = InitLibc /\ Startup[3] = InitPthread
  /\ Startup[4] = InitNetwork /\ Startup[5] = InitSysUtil /\ Startup[6] = Notify
  /\ Startup[7] = Jailbreak /\ Startup[8] = StartServer
BY DEF Startup

\* No patches take effect nowhere.
LEMMA NoneTakes == ASSUME NEW f PROVE ~Takes(NoPatch.kmem_alloc, f)
BY DEF Takes, NoPatch

\* Nothing has begun.
LEMMA InitCore == Init => Core /\ TypeOK
<1> SUFFICES ASSUME Init PROVE Core /\ TypeOK
  OBVIOUS
<1>1. Versions /\ Patched
  BY DEF Init, Versions, Patched, Threads
<1>2. Entries
  BY BootAssumption DEF Init, Entries, Threads, Syscalls
<1>3. Begun /\ Libraries
  <2>1. \A m \in 1..Len(Startup) : ~(m < 0)
    BY StartupIs
  <2> QED
    BY <2>1 DEF Init, Begun, Libraries, Threads
<1>4. TypeOK
  <2>1. text \in Patches
    BY NoneIsNone DEF Init, Patches
  <2> QED
    BY <2>1, StartupIs, BootAssumption DEF Init, TypeOK, Syscalls
<1> QED
  BY <1>1, <1>2, <1>3, <1>4 DEF Core

\* A fault, or a step that only handler threads, CPUs or loads take part in.
LEMMA StillCore ==
  ASSUME TypeOK, Core, UNCHANGED told, \A i \in Installers : pc'[i] = pc[i]
  PROVE  Core'
<1> USE DEF told
<1>1. Versions' /\ Patched'
  BY DEF Core, Versions, Patched
<1>2. Entries'
  BY DEF Core, Entries
<1>3. Begun' /\ Libraries'
  BY DEF Core, Begun, Libraries
<1> QED
  BY <1>1, <1>2, <1>3 DEF Core

\* The statements between which a payload changes nothing the invariant is about.
Moves ==
  {<<"unprotect", "patch">>, <<"patch", "protect">>, <<"protect", "alloc">>,
   <<"alloc", "returned">>, <<"load", "enter">>, <<"hooks", "trap">>, <<"trap", "clear">>,
   <<"hooked", "find">>, <<"find", "map">>, <<"find", "returned">>, <<"map", "returned">>,
   <<"write", "returned">>, <<"create", "returned">>, <<"create", "poll">>,
   <<"poll", "returned">>}

\* Such a move keeps the invariant.
LEMMA MoveCore ==
  ASSUME TypeOK, Core, UNCHANGED told, NEW i \in Installers, NEW l, Goto(i, l),
         <<pc[i], l>> \in Moves
  PROVE  Core'
<1> USE DEF told
<1>1. /\ \A j \in Installers : pc'[j] = IF j = i THEN l ELSE pc[j]
      /\ pc[i] \notin {"idle", "enter", "clear", "set", "returned"}
      /\ l \notin {"idle", "load", "hooks", "set", "hooked", "write", "create"}
      /\ pc[i] = "trap" => l = "clear"
  BY DEF TypeOK, Goto, Threads, Moves
<1>2. l \in InKdebugger => pc[i] \in InKdebugger
  BY DEF Moves
<1>3. Versions' /\ Patched'
  BY <1>1, <1>2 DEF Core, Versions, Patched
<1>4. Entries'
  <2>1. l \in PastHooks => pc[i] \in PastHooks
    BY DEF Moves
  <2>2. l = "clear" => n[i] = 107
    BY DEF Moves, Core, Entries
  <2>3. l \notin InKdebugger \cup {"returned"} => pc[i] \notin InKdebugger \cup {"returned"}
    BY DEF Moves
  <2>4. l \in {"hooks", "trap"} => pc[i] \in {"hooks", "trap"}
    BY DEF Moves
  <2>5. \A k \in Syscalls :
          /\ sysent[k] \in Installers => kcached[sysent[k]] = Found[fw]
          /\ sysent[k] = "clear" => \E j \in Installers : pc'[j] = "set" /\ n[j] = k
    BY <1>1 DEF Core, Entries
  <2>6. ASSUME NEW j \in Installers
        PROVE  pc'[j] \notin InKdebugger \cup {"returned"} \/ pc'[j] \in {"hooks", "trap"}
                 => n[j] = 107
    BY <1>1, <2>3, <2>4 DEF Core, Entries
  <2>7. ASSUME NEW j \in Installers, NEW k \in Syscalls,
               \/ pc'[j] \in {"clear", "set"} /\ k < n[j]
               \/ pc'[j] = "set" /\ k = n[j]
               \/ pc'[j] \in PastHooks
        PROVE  sysent[k] # "original"
    <3>1. CASE j # i
      BY <1>1, <2>7, <3>1 DEF Core, Entries
    <3>2. CASE j = i
      BY <1>1, <2>1, <2>2, <2>7, <3>2 DEF Core, Entries, Syscalls
    <3> QED
      BY <3>1, <3>2
  <2> QED
    BY <2>5, <2>6, <2>7 DEF Entries
<1>5. Begun' /\ Libraries'
  BY <1>1 DEF Core, Begun, Libraries
<1> QED
  BY <1>3, <1>4, <1>5 DEF Core

\* init_ksdk of the payload
LEMMA StartCore ==
  ASSUME TypeOK, Core, NEW i \in Installers, Start(i)
  PROVE  Core'
<1>1. CASE Panic
  BY <1>1, StillCore DEF Panic, Start, told, own, machine, debugger
<1>2. CASE /\ SdkOf(Found[fw]) # NoSdk
           /\ cached' = [cached EXCEPT ![i] = Found[fw]]
           /\ Goto(i, "unprotect")
           /\ UNCHANGED <<n, kcached, kmem, ret, machine, debugger, down>>
  <2>1. /\ \A j \in Installers : pc'[j] = IF j = i THEN "unprotect" ELSE pc[j]
        /\ \A j \in Installers : cached'[j] = IF j = i THEN Found[fw] ELSE cached[j]
        /\ pc[i] = "idle"
        /\ UNCHANGED <<fw, n, kcached, kmem, text, sysent, payload, shell, resolved>>
    BY <1>2 DEF TypeOK, Goto, Threads, Start, At, machine, debugger
  <2>2. Versions' /\ Patched'
    BY <1>2, <2>1 DEF Core, Versions, Patched
  <2>3. Entries'
    BY <2>1 DEF Core, Entries
  <2>4. Begun' /\ Libraries'
    BY <2>1 DEF Core, Begun, Libraries
  <2> QED
    BY <2>2, <2>3, <2>4 DEF Core
<1> QED
  BY <1>1, <1>2 DEF Start

\* patch_kernel: patching again writes the same patches.
LEMMA PatchCore ==
  ASSUME TypeOK, Core, NEW i \in Installers, Patch(i)
  PROVE  Core'
<1>1. pc[i] = "patch" /\ cached[i] = Found[fw]
  BY DEF Patch, At, Core, Versions
<1>2. CASE UNCHANGED text /\ Goto(i, "protect")
  BY <1>1, <1>2, MoveCore DEF Patch, told, own, debugger, Moves
<1>3. CASE Panic
  BY <1>3, StillCore DEF Panic, Patch, told, own, machine, debugger
<1>4. CASE PatchOf(cached[i]) # NoPatch /\ text' = PatchOf(cached[i]) /\ Goto(i, "protect")
  <2>1. /\ \A j \in Installers : pc'[j] = IF j = i THEN "protect" ELSE pc[j]
        /\ UNCHANGED <<fw, n, cached, kcached, kmem, sysent, payload, shell, resolved>>
    BY <1>4 DEF TypeOK, Goto, Threads, Patch, own, debugger
  <2>2. Versions'
    BY <1>1, <2>1 DEF Core, Versions
  <2>3. Patched'
    BY <1>1, <1>4, <2>1, NoneTakes DEF Core, Patched
  <2>4. Entries'
    BY <1>1, <2>1 DEF Core, Entries
  <2>5. Begun' /\ Libraries'
    BY <2>1 DEF Core, Begun, Libraries
  <2> QED
    BY <2>2, <2>3, <2>4, <2>5 DEF Core
<1> QED
  BY <1>2, <1>3, <1>4 DEF Patch, IfWritable

\* rwx_alloc
LEMMA AllocCore ==
  ASSUME TypeOK, Core, NEW i \in Installers, Alloc(i)
  PROVE  Core'
<1>1. CASE Return(i, 1) /\ UNCHANGED kmem
  BY <1>1, MoveCore DEF Alloc, At, Return, told, machine, debugger, Moves
<1>2. CASE /\ kmem' = [kmem EXCEPT ![i] =
                IF Takes(text.kmem_alloc, Kernel(fw).kmem_alloc) THEN "rwx" ELSE "rw"]
           /\ Goto(i, "load")
  <2>1. /\ \A j \in Installers : pc'[j] = IF j = i THEN "load" ELSE pc[j]
        /\ \A j \in Installers : j # i => kmem'[j] = kmem[j]
        /\ kmem'[i] = "rwx" => Takes(text.kmem_alloc, Kernel(fw).kmem_alloc)
        /\ Takes(text.kmem_alloc, Kernel(fw).kmem_alloc) => kmem'[i] = "rwx"
        /\ pc[i] = "alloc"
        /\ UNCHANGED <<fw, n, cached, kcached, text, sysent, payload, shell, resolved>>
    BY <1>2 DEF TypeOK, Goto, Threads, Alloc, At, machine, debugger
  <2>2. Versions' /\ Patched'
    BY <2>1 DEF Core, Versions, Patched
  <2>3. Entries'
    BY <2>1 DEF Core, Entries
  <2>4. Begun' /\ Libraries'
    BY <2>1 DEF Core, Begun, Libraries, Patched
  <2> QED
    BY <2>2, <2>3, <2>4 DEF Core
<1> QED
  BY <1>1, <1>2 DEF Alloc, Unless

\* payload_entry
LEMMA EnterCore ==
  ASSUME TypeOK, Core, NEW i \in Installers, Enter(i)
  PROVE  Core'
<1>1. CASE Panic
  BY <1>1, StillCore DEF Panic, Enter, told, own, machine, debugger
<1>2. CASE /\ kmem[i] = "rwx"
           /\ kcached' = [kcached EXCEPT ![i] = Found[fw]]
           /\ Goto(i, "hooks")
           /\ UNCHANGED <<n, cached, kmem, ret, machine, debugger, down>>
  <2>1. /\ \A j \in Installers : pc'[j] = IF j = i THEN "hooks" ELSE pc[j]
        /\ \A j \in Installers : kcached'[j] = IF j = i THEN Found[fw] ELSE kcached[j]
        /\ pc[i] = "enter"
        /\ UNCHANGED <<fw, n, cached, kmem, text, sysent, payload, shell, resolved>>
    BY <1>2 DEF TypeOK, Goto, Threads, Enter, At, machine, debugger
  <2>2. Versions' /\ Patched'
    BY <1>2, <2>1 DEF Core, Versions, Patched
  <2>3. Entries'
    BY <2>1 DEF Core, Entries
  <2>4. Begun' /\ Libraries'
    BY <2>1 DEF Core, Begun, Libraries
  <2> QED
    BY <2>2, <2>3, <2>4 DEF Core
<1> QED
  BY <1>1, <1>2 DEF Enter

\* install_syscall, first half: an entry is cleared by the one about to set it.
LEMMA ClearCore ==
  ASSUME TypeOK, Core, NEW i \in Installers, ClearEntry(i)
  PROVE  Core'
<1>1. /\ \A j \in Installers : pc'[j] = IF j = i THEN "set" ELSE pc[j]
      /\ \A k \in Syscalls : sysent'[k] = IF k = n[i] THEN "clear" ELSE sysent[k]
      /\ pc[i] = "clear" /\ n[i] \in Syscalls
      /\ UNCHANGED <<fw, n, cached, kcached, kmem, text, payload, shell, resolved>>
  BY DEF TypeOK, Goto, Threads, ClearEntry, At, own, debugger
<1>2. Versions' /\ Patched'
  BY <1>1 DEF Core, Versions, Patched
<1>3. Entries'
  <2>1. "clear" \notin Installers
    BY BootAssumption
  <2>2. ASSUME NEW k \in Syscalls
        PROVE  /\ sysent'[k] \in Installers => kcached[sysent'[k]] = Found[fw]
               /\ sysent'[k] = "clear" => \E j \in Installers : pc'[j] = "set" /\ n[j] = k
    BY <1>1, <2>1 DEF Core, Entries
  <2>3. ASSUME NEW j \in Installers, NEW k \in Syscalls,
               \/ pc'[j] \in {"clear", "set"} /\ k < n[j]
               \/ pc'[j] = "set" /\ k = n[j]
               \/ pc'[j] \in PastHooks
        PROVE  sysent'[k] # "original"
    BY <1>1, <2>3 DEF Core, Entries
  <2> QED
    BY <1>1, <2>2, <2>3 DEF Core, Entries
<1>4. Begun' /\ Libraries'
  BY <1>1 DEF Core, Begun, Libraries
<1> QED
  BY <1>2, <1>3, <1>4 DEF Core

\* install_syscall, second half: the entry is set, and the next one is due.
LEMMA SetCore ==
  ASSUME TypeOK, Core, NEW i \in Installers, SetEntry(i)
  PROVE  Core'
<1>1. /\ pc[i] = "set" /\ n[i] \in 107..112 /\ kcached[i] = Found[fw]
      /\ \A k \in Syscalls : sysent'[k] = IF k = n[i] THEN i ELSE sysent[k]
      /\ UNCHANGED <<fw, cached, kcached, kmem, text, payload, shell, resolved>>
  BY DEF TypeOK, Syscalls, SetEntry, At, debugger, Core, Versions
<1>2. i \notin {"original", "clear"}
  BY BootAssumption
<1>3. \/ /\ n[i] = 112 /\ n' = n
         /\ \A j \in Installers : pc'[j] = IF j = i THEN "hooked" ELSE pc[j]
      \/ /\ n[i] < 112
         /\ \A j \in Installers : n'[j] = IF j = i THEN n[i] + 1 ELSE n[j]
         /\ \A j \in Installers : pc'[j] = IF j = i THEN "clear" ELSE pc[j]
  BY <1>1 DEF TypeOK, Goto, Threads, SetEntry
<1>4. Versions' /\ Patched'
  BY <1>1, <1>3 DEF Core, Versions, Patched
<1>5. Entries'
  <2>1. ASSUME NEW k \in Syscalls
        PROVE  /\ sysent'[k] \in Installers => kcached[sysent'[k]] = Found[fw]
               /\ sysent'[k] = "clear" => \E j \in Installers : pc'[j] = "set" /\ n'[j] = k
    <3>1. CASE k = n[i]
      BY <1>1, <1>2, <3>1
    <3>2. CASE k # n[i]
      <4>1. sysent'[k] = sysent[k]
        BY <1>1, <3>2
      <4>2. ASSUME sysent[k] = "clear"
            PROVE  \E j \in Installers : pc'[j] = "set" /\ n'[j] = k
        <5>1. PICK j \in Installers : pc[j] = "set" /\ n[j] = k
          BY <4>2 DEF Core, Entries
        <5>2. j # i
          BY <3>2, <5>1
        <5> QED
          BY <1>3, <5>1, <5>2
      <4> QED
        BY <4>1, <4>2 DEF Core, Entries
    <3> QED
      BY <3>1, <3>2
  <2>2. ASSUME NEW j \in Installers
        PROVE  pc'[j] \notin InKdebugger \cup {"returned"} \/ pc'[j] \in {"hooks", "trap"}
                 => n'[j] = 107
    BY <1>1, <1>3 DEF Core, Entries
  <2>3. ASSUME NEW j \in Installers, NEW k \in Syscalls,
               \/ pc'[j] \in {"clear", "set"} /\ k < n'[j]
               \/ pc'[j] = "set" /\ k = n'[j]
               \/ pc'[j] \in PastHooks
        PROVE  sysent'[k] # "original"
    <3>1. CASE k = n[i]
      BY <1>1, <1>2, <3>1
    <3>2. CASE k # n[i] /\ j = i
      <4>1. k < n[i]
        BY <1>1, <1>3, <2>3, <3>2 DEF Syscalls
      <4> QED
        BY <1>1, <3>2, <4>1 DEF Core, Entries
    <3>3. CASE k # n[i] /\ j # i
      BY <1>1, <1>3, <2>3, <3>3 DEF Core, Entries
    <3> QED
      BY <3>1, <3>2, <3>3
  <2> QED
    BY <1>1, <2>1, <2>2, <2>3 DEF Entries
<1>6. Begun' /\ Libraries'
  BY <1>1, <1>2, <1>3 DEF Core, Begun, Libraries
<1> QED
  BY <1>4, <1>5, <1>6 DEF Core

\* load_debugger: memory that is mapped is not mapped again, and what is written
\* stays written.
LEMMA MapCore ==
  ASSUME TypeOK, Core, NEW i \in Installers, Map(i) \/ Write(i)
  PROVE  Core'
<1>1. CASE Return(i, 1) /\ UNCHANGED payload
  BY <1>1, MoveCore DEF Map, Write, At, Return, told, machine, Moves
<1>2. CASE \/ pc[i] = "map" /\ payload = "none" /\ payload' = "mapped" /\ Goto(i, "write")
           \/ pc[i] = "write" /\ payload' = "written" /\ Goto(i, "create")
  <2>1. /\ \A j \in Installers : j # i => pc'[j] = pc[j]
        /\ \/ pc[i] = "map" /\ pc'[i] = "write"
           \/ pc[i] = "write" /\ pc'[i] = "create"
        /\ payload' # "none" /\ (payload = "written" => payload' = "written")
        /\ pc'[i] = "create" => payload' = "written"
        /\ UNCHANGED <<fw, n, cached, kcached, kmem, text, sysent, shell, resolved>>
    BY <1>2 DEF TypeOK, Goto, Threads, Map, Write, machine, debugger
  <2>2. Versions' /\ Patched'
    BY <2>1 DEF Core, Versions, Patched
  <2>3. Entries'
    BY <2>1 DEF Core, Entries
  <2>4. Begun' /\ Libraries'
    BY <2>1 DEF Core, Begun, Libraries
  <2> QED
    BY <2>2, <2>3, <2>4 DEF Core
<1> QED
  BY <1>1, <1>2 DEF Map, Write, At, Unless

\* The debugger's thread is made by a payload that has hooked every entry.
LEMMA CreateCore ==
  ASSUME TypeOK, Core, NEW i \in Installers, Create(i)
  PROVE  Core'
<1>1. CASE Return(i, 1) /\ UNCHANGED shell
  BY <1>1, MoveCore DEF Create, At, Return, told, machine, Moves
<1>2. CASE UNCHANGED shell /\ Goto(i, "poll")
  BY <1>2, MoveCore DEF Create, At, Return, told, machine, Moves
<1>3. CASE /\ RowOf(InstallerSys, cached[i]) = RowOf(InstallerSys, fw)
           /\ shell' = 1 /\ Goto(i, "poll")
  <2>1. /\ \A j \in Installers : pc'[j] = IF j = i THEN "poll" ELSE pc[j]
        /\ pc[i] = "create"
        /\ UNCHANGED <<fw, n, cached, kcached, kmem, text, sysent, payload, resolved>>
    BY <1>3 DEF TypeOK, Goto, Threads, Create, At, machine
  <2>2. Versions' /\ Patched'
    BY <2>1 DEF Core, Versions, Patched
  <2>3. Entries'
    BY <2>1 DEF Core, Entries
  <2>4. Begun'
    BY <1>3, <2>1 DEF Core, Begun, Versions, Entries
  <2>5. Libraries'
    <3>1. \A m \in 1..Len(Startup) : ~(m < 1)
      BY StartupIs
    <3> QED
      BY <1>3, <3>1 DEF Libraries
  <2> QED
    BY <2>2, <2>3, <2>4, <2>5 DEF Core
<1> QED
  BY <1>1, <1>2, <1>3 DEF Create, Unless, Launch

\* _main resolves one library after the other.
LEMMA ResolveCore ==
  ASSUME TypeOK, Core, Resolve
  PROVE  Core'
<1>1. CASE UNCHANGED <<shell, resolved>>
  BY <1>1, StillCore DEF Resolve, told, own, machine
<1>2. CASE /\ shell' = shell + 1
           /\ resolved' = resolved \cup {Startup[shell].gives}
  <2>1. shell \in 1..8 /\ UNCHANGED <<fw, pc, n, cached, kcached, kmem, text, sysent, payload>>
    BY StartupIs DEF Resolve, own, machine
  <2>2. Versions' /\ Patched'
    BY <2>1 DEF Core, Versions, Patched
  <2>3. Entries'
    BY <2>1 DEF Core, Entries
  <2>4. Begun'
    BY <1>2, <2>1 DEF Core, Begun
  <2>5. Libraries'
    <3>1. ASSUME NEW m \in 1..Len(Startup), m < shell'
          PROVE  Startup[m].gives \in resolved'
      <4>1. m < shell \/ m = shell
        BY <1>2, <2>1, <3>1, StartupIs
      <4> QED
        BY <1>2, <4>1 DEF Core, Libraries
    <3> QED
      BY <3>1 DEF Libraries
  <2> QED
    BY <2>2, <2>3, <2>4, <2>5 DEF Core
<1> QED
  BY <1>1, <1>2 DEF Resolve

\* The other statements of a payload.
LEMMA MovesCore ==
  ASSUME TypeOK, Core, NEW i \in Installers,
         \/ Unprotect(i) \/ Protect(i) \/ LoadElf(i) \/ UnprotectHooks(i) \/ HookTrap(i)
         \/ ProtectHooks(i) \/ Find(i) \/ Finish(i)
  PROVE  Core'
<1>1. CASE Unprotect(i)
  BY <1>1, MoveCore DEF Unprotect, At, told, own, debugger, Moves
<1>2. CASE Protect(i)
  BY <1>2, MoveCore DEF Protect, At, told, own, debugger, Moves
<1>3. CASE LoadElf(i)
  BY <1>3, MoveCore DEF LoadElf, At, told, own, machine, debugger, Moves
<1>4. CASE UnprotectHooks(i)
  BY <1>4, MoveCore DEF UnprotectHooks, At, told, own, debugger, Moves
<1>5. CASE HookTrap(i)
  <2>1. CASE Panic
    BY <1>5, <2>1, StillCore DEF Panic, HookTrap, told, own, machine, debugger
  <2>2. CASE Goto(i, "clear")
    BY <1>5, <2>2, MoveCore DEF HookTrap, At, told, own, machine, debugger, Moves
  <2> QED
    BY <1>5, <2>1, <2>2 DEF HookTrap, IfWritable
<1>6. CASE ProtectHooks(i)
  BY <1>6, MoveCore DEF ProtectHooks, At, told, own, debugger, Moves
<1>7. CASE Find(i)
  BY <1>7, MoveCore DEF Find, At, Unless, Return, told, machine, debugger, Moves
<1>8. CASE Finish(i)
  BY <1>8, MoveCore DEF Finish, At, Return, told, machine, debugger, Moves
<1> QED
  BY <1>1, <1>2, <1>3, <1>4, <1>5, <1>6, <1>7, <1>8

\* Handler threads, loads into processes.
LEMMA OthersCore ==
  ASSUME TypeOK, Core,
         \/ \E w \in Writers : KernRw(w)
         \/ \E t \in Threads : Move(t)
         \/ \E k \in DOMAIN TableOf : Load(k)
  PROVE  Core'
<1>1. ASSUME NEW w \in Writers, KernRw(w)
      PROVE  Core'
  <2>1. \A j \in Installers : j # w /\ pc'[j] = pc[j]
    BY <1>1, BootAssumption
    DEF TypeOK, Threads, KernRw, KernWrite, KernCopy, KernProtect, IfWritable, Panic, Goto
  <2>2. UNCHANGED told
    BY <1>1 DEF told, KernRw, KernWrite, KernCopy, KernProtect, Panic, own, machine, debugger
  <2> QED
    BY <2>1, <2>2, StillCore
<1>2. ASSUME NEW k \in DOMAIN TableOf, Load(k)
      PROVE  Core'
  <2>1. UNCHANGED told /\ UNCHANGED pc
    BY <1>2 DEF Load, Launch, told, own, machine
  <2> QED
    BY <2>1, StillCore
<1>3. ASSUME NEW t \in Threads, Move(t)
      PROVE  Core'
  BY <1>3, StillCore DEF Move, told, own, debugger
<1> QED
  BY <1>1, <1>2, <1>3

\* Every action keeps the invariant.
LEMMA StepCore ==
  ASSUME TypeOK, Core, [Next]_vars
  PROVE  Core'
<1>1. ASSUME NEW i \in Installers, Install(i)
      PROVE  Core'
  BY <1>1, StartCore, PatchCore, AllocCore, EnterCore, ClearCore, SetCore, MapCore,
     CreateCore, MovesCore DEF Install
<1>2. CASE Resolve
  BY <1>2, ResolveCore
<1>3. CASE UNCHANGED vars
  BY <1>3, StillCore DEF vars, told, own, machine, debugger
<1> QED
  BY <1>1, <1>2, <1>3, OthersCore DEF Next

-----------------------------------------------------------------------------
\* Every action keeps the types.
LEMMA TypeStep ==
  ASSUME TypeOK, Core, [Next]_vars
  PROVE  TypeOK'
<1> USE DEF TypeOK
<1>1. Found[fw] \in Supported \cup {0}
  BY FoundKnown DEF Found
<1>2. ASSUME NEW i \in Installers, Install(i)
      PROVE  TypeOK'
  <2>1. i \in Threads
    BY DEF Threads
  <2> USE DEF Goto, Return, own, machine, debugger, At, Panic, Unless, IfWritable
  <2>2. CASE Start(i)
    BY <1>1, <2>1, <2>2 DEF Start
  <2>3. CASE Unprotect(i)
    BY <2>1, <2>3 DEF Unprotect, DisableWp
  <2>4. CASE Patch(i)
    <3>1. PatchOf(cached[i]) \in Patches
      BY DEF Patches
    <3> QED
      BY <2>1, <2>4, <3>1 DEF Patch
  <2>5. CASE Protect(i)
    BY <2>1, <2>5 DEF Protect, EnableWp
  <2>6. CASE Alloc(i)
    BY <2>1, <2>6 DEF Alloc
  <2>7. CASE LoadElf(i)
    BY <2>1, <2>7 DEF LoadElf
  <2>8. CASE Enter(i)
    BY <1>1, <2>1, <2>8 DEF Enter
  <2>9. CASE UnprotectHooks(i)
    BY <2>1, <2>9 DEF UnprotectHooks, DisableWp
  <2>10. CASE HookTrap(i)
    BY <2>1, <2>10 DEF HookTrap
  <2>11. CASE ClearEntry(i)
    BY <2>1, <2>11 DEF ClearEntry
  <2>12. CASE SetEntry(i)
    <3>1. n[i] \in 107..112
      BY DEF Syscalls
    <3>2. n[i] # 112 => n[i] + 1 \in Syscalls
      BY <3>1 DEF Syscalls
    <3> QED
      BY <2>1, <2>12, <3>2 DEF SetEntry
  <2>13. CASE ProtectHooks(i)
    BY <2>1, <2>13 DEF ProtectHooks, EnableWp
  <2>14. CASE Find(i)
    BY <2>1, <2>14 DEF Find
  <2>15. CASE Map(i)
    BY <2>1, <2>15 DEF Map
  <2>16. CASE Write(i)
    BY <2>1, <2>16 DEF Write
  <2>17. CASE Create(i)
    <3>1. 1 \in 0 .. Len(Startup) + 1
      BY StartupIs
    <3> QED
      BY <2>1, <2>17, <3>1 DEF Create, Launch
  <2>18. CASE Finish(i)
    BY <2>1, <2>18 DEF Finish
  <2> QED
    BY <1>2, <2>2, <2>3, <2>4, <2>5, <2>6, <2>7, <2>8, <2>9, <2>10, <2>11, <2>12, <2>13,
       <2>14, <2>15, <2>16, <2>17, <2>18 DEF Install
<1>3. ASSUME NEW w \in Writers, KernRw(w)
      PROVE  TypeOK'
  <2>1. w \in Threads
    BY DEF Threads
  <2> USE DEF Goto, own, machine, debugger, At, Panic, IfWritable
  <2>2. CASE KernWrite(w)
    <3>1. CASE Panic
      BY <2>2, <3>1 DEF KernWrite
    <3>2. CASE DisableWp(w) /\ Goto(w, "copy") /\ UNCHANGED <<own, text, sysent, debugger, down>>
      BY <2>1, <2>2, <3>2 DEF KernWrite, DisableWp
    <3> QED
      BY <2>2, <3>1, <3>2 DEF KernWrite
  <2>3. CASE KernCopy(w)
    BY <2>1, <2>3 DEF KernCopy
  <2>4. CASE KernProtect(w)
    BY <2>1, <2>4 DEF KernProtect, EnableWp
  <2> QED
    BY <1>3, <2>2, <2>3, <2>4 DEF KernRw
<1>4. ASSUME NEW k \in DOMAIN TableOf, Load(k)
      PROVE  TypeOK'
  BY <1>4 DEF Load, Launch, own, machine
<1>5. CASE Resolve
  <2>1. CASE UNCHANGED <<shell, resolved>>
    BY <1>5, <2>1 DEF Resolve, own, machine
  <2>2. CASE /\ shell' = shell + 1
             /\ resolved' = resolved \cup {Startup[shell].gives}
             /\ UNCHANGED down
    <3>1. shell \in 1..8 /\ Len(Startup) = 8
      BY <1>5, StartupIs DEF Resolve
    <3>2. Startup[shell].gives \in {"kernel", "libc", "pthread", "net", "sysutil"}
      BY <3>1, StartupIs
      DEF InitKernel, InitLibc, InitPthread, InitNetwork, InitSysUtil, Notify, Jailbreak,
          StartServer, Step
    <3>3. shell + 1 \in 0 .. Len(Startup) + 1
      BY <3>1
    <3> QED
      BY <1>5, <2>2, <3>2, <3>3 DEF Resolve, own, machine
  <2> QED
    BY <1>5, <2>1, <2>2 DEF Resolve
<1>6. CASE UNCHANGED vars
  BY <1>6 DEF vars, own, machine, debugger
<1>7. ASSUME NEW t \in Threads, Move(t)
      PROVE  TypeOK'
  BY <1>7 DEF Move, own, debugger
<1> QED
  BY <1>2, <1>3, <1>4, <1>5, <1>6, <1>7 DEF Next

\* The types of the installer, and what it has brought about.
THEOREM BootHolds == SafeSpec => [](TypeOK /\ Core)
<1>1. TypeOK /\ Core /\ [Next]_vars => (TypeOK /\ Core)'
  BY StepCore, TypeStep
<1> QED
  BY <1>1, InitCore, PTL DEF SafeSpec

-----------------------------------------------------------------------------
(* A console that is served                                                 *)

\* A version that is served has its tables, its patches and its functions.
LEMMA ServedFound ==
  ASSUME NEW v \in Served
  PROVE  /\ SdkOf(Detect(v)) # NoSdk
         /\ PatchOf(Detect(v)) # NoPatch
         /\ Takes(PatchOf(Detect(v)).kmem_alloc, Kernel(v).kmem_alloc)
         /\ RowOf(InstallerSys, Detect(v)) = RowOf(InstallerSys, v)
         /\ \A k \in DOMAIN TableOf : RowOf(TableOf[k], Detect(v)) = RowOf(TableOf[k], v)
<1>1. v \in Supported /\ v \notin {701, 702} /\ v \notin {750, 751, 755}
  BY DEF Served, Neglected
<1>2. SdkOf(Detect(v)) # NoSdk
  BY <1>1, SdkFound
<1>3. /\ PatchOf(Detect(v)) # NoPatch
      /\ Takes(PatchOf(Detect(v)).kmem_alloc, Kernel(v).kmem_alloc)
  BY <1>1, PatchFits, SupportedAre DEF Fit, Kernel
<1>4. \A k \in DOMAIN TableOf : TableOf[k] \in {Sprx, Web, Sys, InstallerSys}
  BY DEF TableOf
<1> QED
  BY <1>1, <1>2, <1>3, <1>4, RowsFound

\* While no system call is being hooked, none of them is clear.
LEMMA NothingClear ==
  ASSUME Core, \A i \in Installers : ~Hooking(i), NEW k \in Syscalls
  PROVE  sysent[k] # "clear"
BY DEF Core, Entries, Hooking

\* The libraries a call of _main needs are those the calls before it resolved.
LEMMA NeedsResolved ==
  ASSUME TypeOK, Core, shell \in 1..Len(Startup)
  PROVE  Startup[shell].needs \subseteq resolved /\ Startup[shell].call \in {0} \cup Syscalls
<1>1. \A m \in 1..8 : m < shell => Startup[m].gives \in resolved
  BY StartupIs DEF Core, Libraries
<1>2. /\ shell >= 2 => "kernel" \in resolved
      /\ shell >= 3 => "libc" \in resolved
      /\ shell >= 4 => "pthread" \in resolved
      /\ shell >= 5 => "net" \in resolved
      /\ shell >= 6 => "sysutil" \in resolved
  <2>1. /\ Startup[1].gives = "kernel" /\ Startup[2].gives = "libc"
        /\ Startup[3].gives = "pthread" /\ Startup[4].gives = "net"
        /\ Startup[5].gives = "sysutil"
    BY StartupIs DEF InitKernel, InitLibc, InitPthread, InitNetwork, InitSysUtil, Step
  <2>2. shell \in 1..8
    BY StartupIs
  <2>3. shell >= 2 => "kernel" \in resolved
    BY <1>1, <2>1, <2>2
  <2>4. shell >= 3 => "libc" \in resolved
    BY <1>1, <2>1, <2>2
  <2>5. shell >= 4 => "pthread" \in resolved
    BY <1>1, <2>1, <2>2
  <2>6. shell >= 5 => "net" \in resolved
    BY <1>1, <2>1, <2>2
  <2>7. shell >= 6 => "sysutil" \in resolved
    BY <1>1, <2>1, <2>2
  <2> QED
    BY <2>3, <2>4, <2>5, <2>6, <2>7
<1>3. \/ shell = 1 /\ Startup[shell] = InitKernel
      \/ shell = 2 /\ Startup[shell] = InitLibc
      \/ shell = 3 /\ Startup[shell] = InitPthread
      \/ shell = 4 /\ Startup[shell] = InitNetwork
      \/ shell = 5 /\ Startup[shell] = InitSysUtil
      \/ shell = 6 /\ Startup[shell] = Notify
      \/ shell = 7 /\ Startup[shell] = Jailbreak
      \/ shell = 8 /\ Startup[shell] = StartServer
  BY StartupIs
<1> QED
  BY <1>2, <1>3
  DEF InitKernel, InitLibc, InitPthread, InitNetwork, InitSysUtil, Notify, Jailbreak,
      StartServer, Step, JailbreakCall, Syscalls

\* A payload's own part of Prepared is kept by a step of another thread.
LEMMA StillPrepared ==
  ASSUME Prepared, UNCHANGED <<fw, text, kmem>>, \A i \in Installers : pc'[i] = pc[i]
  PROVE  Prepared'
BY DEF Prepared

\* A payload moves on, outside of what Prepared is about or from one such statement
\* to the next.
LEMMA MovePrepared ==
  ASSUME TypeOK, Prepared, UNCHANGED <<fw, text, kmem>>, NEW i \in Installers, NEW l,
         Goto(i, l),
         l \notin {"protect", "alloc", "load", "enter"}
           \/ <<pc[i], l>> \in {<<"protect", "alloc">>, <<"load", "enter">>}
  PROVE  Prepared'
<1>1. \A j \in Installers : pc'[j] = IF j = i THEN l ELSE pc[j]
  BY DEF TypeOK, Goto, Threads
<1> QED
  BY <1>1 DEF Prepared

\* runinstaller up to the memory of kdebugger
LEMMA KernelServed ==
  ASSUME TypeOK, Core, IInv, ~moved, ~shared, fw \in Served, down = "no", Prepared,
         NEW i \in Installers,
         \/ Start(i) \/ Unprotect(i) \/ Patch(i) \/ Protect(i)
         \/ Alloc(i) \/ LoadElf(i) \/ Enter(i)
  PROVE  fw' = fw /\ down' = "no" /\ Prepared'
<1> USE DEF own, machine, debugger
<1>1. Found[fw] = Detect(fw) /\ i \in Threads
  BY DEF TypeOK, Found, Threads
<1>2. CASE Start(i)
  <2>1. Goto(i, "unprotect") /\ UNCHANGED <<fw, text, kmem, down>>
    BY <1>1, <1>2, ServedFound DEF Start
  <2> QED
    BY <2>1, MovePrepared
<1>3. CASE Unprotect(i)
  <2>1. Goto(i, "patch") /\ UNCHANGED <<fw, text, kmem, down>>
    BY <1>3 DEF Unprotect
  <2> QED
    BY <2>1, MovePrepared
<1>4. CASE Patch(i)
  <2>1. PatchOf(cached[i]) = PatchOf(Found[fw]) /\ PatchOf(Found[fw]) # NoPatch
    BY <1>1, <1>4, ServedFound DEF Patch, At, Core, Versions
  <2>2. ~wp[cpu[i]]
    <3>1. Unprotecting(i)
      BY <1>4 DEF Patch, At, Unprotecting
    <3> QED
      BY <1>1, <3>1 DEF IInv, OffWhereUnprotected
  <2>3. /\ text' = PatchOf(Found[fw]) /\ Goto(i, "protect") /\ UNCHANGED <<fw, kmem, down>>
        /\ pc[i] = "patch"
    BY <1>4, <2>1, <2>2 DEF Patch, IfWritable, At
  <2>4. \A j \in Installers : pc'[j] = IF j = i THEN "protect" ELSE pc[j]
    BY <2>3 DEF TypeOK, Goto, Threads
  <2> QED
    BY <2>3, <2>4 DEF Prepared
<1>5. CASE Protect(i)
  <2>1. pc[i] = "protect" /\ Goto(i, "alloc") /\ UNCHANGED <<fw, text, kmem, down>>
    BY <1>5 DEF Protect, At
  <2> QED
    BY <2>1, MovePrepared
<1>6. CASE Alloc(i)
  <2>1. Takes(text.kmem_alloc, Kernel(fw).kmem_alloc) /\ pc[i] = "alloc"
    BY <1>1, <1>6, ServedFound DEF Alloc, At, Prepared
  <2>2. UNCHANGED <<fw, text, down>>
    BY <1>6 DEF Alloc
  <2>3. CASE Return(i, 1) /\ UNCHANGED kmem
    BY <2>2, <2>3, MovePrepared DEF Return
  <2>4. CASE kmem' = [kmem EXCEPT ![i] = "rwx"] /\ Goto(i, "load")
    <3>1. /\ \A j \in Installers : pc'[j] = IF j = i THEN "load" ELSE pc[j]
          /\ \A j \in Installers : kmem'[j] = IF j = i THEN "rwx" ELSE kmem[j]
      BY <2>4 DEF TypeOK, Goto, Threads
    <3> QED
      BY <2>2, <3>1 DEF Prepared
  <2> QED
    BY <1>6, <2>1, <2>3, <2>4 DEF Alloc, Unless
<1>7. CASE LoadElf(i)
  <2>1. pc[i] = "load" /\ Goto(i, "enter") /\ UNCHANGED <<fw, text, kmem, down>>
    BY <1>7 DEF LoadElf, At
  <2> QED
    BY <2>1, MovePrepared
<1>8. CASE Enter(i)
  <2>1. Goto(i, "hooks") /\ UNCHANGED <<fw, text, kmem, down>>
    BY <1>1, <1>8, ServedFound DEF Enter, At, Prepared
  <2> QED
    BY <2>1, MovePrepared
<1> QED
  BY <1>2, <1>3, <1>4, <1>5, <1>6, <1>7, <1>8

\* install_hooks and load_debugger
LEMMA HooksServed ==
  ASSUME TypeOK, Core, IInv, ~moved, ~shared, fw \in Served, down = "no", Prepared,
         NEW i \in Installers,
         \/ UnprotectHooks(i) \/ HookTrap(i) \/ ClearEntry(i) \/ SetEntry(i) \/ ProtectHooks(i)
         \/ Find(i) \/ Map(i) \/ Write(i) \/ Create(i) \/ Finish(i)
  PROVE  fw' = fw /\ down' = "no" /\ Prepared'
<1> USE DEF own, machine, debugger
<1>1. Found[fw] = Detect(fw) /\ i \in Threads
  BY DEF TypeOK, Found, Threads
<1>2. ASSUME UNCHANGED <<fw, text, kmem, down>>,
             \E l \in {"trap", "clear", "set", "hooked", "find", "map", "write", "create",
                       "poll", "returned"} : Goto(i, l)
      PROVE  fw' = fw /\ down' = "no" /\ Prepared'
  BY <1>2, MovePrepared
<1>3. CASE UnprotectHooks(i)
  BY <1>2, <1>3 DEF UnprotectHooks
<1>4. CASE HookTrap(i)
  <2>1. ~wp[cpu[i]]
    <3>1. Unprotecting(i)
      BY <1>4 DEF HookTrap, At, Unprotecting
    <3> QED
      BY <1>1, <3>1 DEF IInv, OffWhereUnprotected
  <2> QED
    BY <1>2, <1>4, <2>1 DEF HookTrap, IfWritable
<1>5. CASE ClearEntry(i)
  BY <1>2, <1>5 DEF ClearEntry
<1>6. CASE SetEntry(i)
  BY <1>2, <1>6 DEF SetEntry
<1>7. CASE ProtectHooks(i)
  BY <1>2, <1>7 DEF ProtectHooks
<1>8. CASE Find(i)
  BY <1>2, <1>8 DEF Find, Unless, Return
<1>9. CASE Map(i)
  BY <1>2, <1>9 DEF Map, Return
<1>10. CASE Write(i)
  BY <1>2, <1>10 DEF Write, Unless, Return
<1>11. CASE Create(i)
  <2>1. cached[i] = Found[fw]
    BY <1>11 DEF Create, At, Core, Versions
  <2>2. UNCHANGED down
    BY <1>1, <1>11, <2>1, ServedFound DEF Create, Unless, Launch
  <2> QED
    BY <1>2, <1>11, <2>2 DEF Create, Unless, Return
<1>12. CASE Finish(i)
  BY <1>2, <1>12 DEF Finish, Return
<1> QED
  BY <1>3, <1>4, <1>5, <1>6, <1>7, <1>8, <1>9, <1>10, <1>11, <1>12

\* The debugger and its handler threads
LEMMA OthersServed ==
  ASSUME TypeOK, Core, IInv, ~moved, ~shared, fw \in Served, down = "no", Prepared,
         Calling => \A i \in Installers : ~Hooking(i),
         \/ \E w \in Writers : KernRw(w)
         \/ \E t \in Threads : Move(t)
         \/ \E k \in DOMAIN TableOf : Load(k)
         \/ Resolve
  PROVE  fw' = fw /\ down' = "no" /\ Prepared'
<1> USE DEF own, machine, debugger
<1>1. Found[fw] = Detect(fw)
  BY DEF TypeOK, Found
<1>2. ASSUME NEW w \in Writers, KernRw(w)
      PROVE  fw' = fw /\ down' = "no" /\ Prepared'
  <2>1. w \in Threads /\ \A i \in Installers : i # w
    BY BootAssumption DEF Threads
  <2>2. down' = "no" /\ \E l : Goto(w, l)
    <3>1. CASE KernWrite(w)
      <4>1. sysent[WriteCall] # "clear"
        BY <1>2, <3>1, NothingClear DEF Calling, WriteCall, Syscalls
      <4> QED
        BY <3>1, <4>1 DEF KernWrite
    <3>2. CASE KernCopy(w)
      <4>1. Unprotecting(w)
        BY <3>2 DEF KernCopy, At, Unprotecting
      <4>2. ~wp[cpu[w]]
        BY <2>1, <4>1 DEF IInv, OffWhereUnprotected
      <4> QED
        BY <3>2, <4>2 DEF KernCopy, IfWritable
    <3>3. CASE KernProtect(w)
      BY <3>3 DEF KernProtect
    <3> QED
      BY <1>2, <3>1, <3>2, <3>3 DEF KernRw
  <2>3. \A i \in Installers : pc'[i] = pc[i]
    BY <2>1, <2>2 DEF TypeOK, Goto, Threads
  <2>4. UNCHANGED <<fw, text, kmem>>
    BY <1>2 DEF KernRw, KernWrite, KernCopy, KernProtect, Panic
  <2> QED
    BY <2>2, <2>3, <2>4, StillPrepared
<1>3. ASSUME NEW k \in DOMAIN TableOf, Load(k)
      PROVE  fw' = fw /\ down' = "no" /\ Prepared'
  <2>1. PICK i \in Installers :
          sysent[109] = i /\ Launch(RowOf(TableOf[k], kcached[i]), RowOf(TableOf[k], fw),
                                    loaded' = loaded \cup {k} /\ UNCHANGED shell)
    BY <1>3 DEF Load
  <2>2. kcached[i] = Found[fw]
    BY <2>1 DEF Core, Entries, Syscalls
  <2>3. UNCHANGED down
    BY <1>1, <2>1, <2>2, ServedFound DEF Launch
  <2> QED
    BY <1>3, <2>3, StillPrepared DEF Load
<1>4. CASE Resolve
  <2>1. /\ Startup[shell].needs \subseteq resolved
        /\ Startup[shell].call # 0 => sysent[Startup[shell].call] # "clear"
    BY <1>4, NeedsResolved, NothingClear DEF Resolve, Calling
  <2>2. UNCHANGED <<fw, pc, text, kmem, down>>
    BY <1>4, <2>1 DEF Resolve
  <2> QED
    BY <2>2, StillPrepared
<1>5. ASSUME NEW t \in Threads, Move(t)
      PROVE  fw' = fw /\ down' = "no" /\ Prepared'
  BY <1>5, StillPrepared DEF Move
<1> QED
  BY <1>2, <1>3, <1>4, <1>5

\* Every action keeps a console that is served up, or is remembered.
LEMMA StepServed ==
  ASSUME TypeOK, Core, IInv, SInv, [HNext]_hvars
  PROVE  SInv'
<1>1. fw' = fw
  BY DEF HNext, Next, Install, KernRw, Start, Unprotect, Patch, Protect, Alloc, LoadElf,
         Enter, UnprotectHooks, HookTrap, ClearEntry, SetEntry, ProtectHooks, Find, Map,
         Write, Create, Finish, KernWrite, KernCopy, KernProtect, Load, Resolve, Move,
         hvars, vars
<1> SUFFICES ASSUME fw \in Served, ~moved', ~shared', ~called'
             PROVE  down' = "no" /\ Prepared'
  BY <1>1 DEF SInv
<1>2. CASE UNCHANGED hvars
  <2>1. UNCHANGED <<moved, shared, called>> /\ UNCHANGED vars
    BY <1>2 DEF hvars, history
  <2>2. down = "no" /\ Prepared
    BY <2>1 DEF SInv
  <2> QED
    BY <2>1, <2>2, StillPrepared DEF vars, own, machine
<1>3. CASE HNext
  <2>1. ~moved /\ ~shared /\ ~called /\ ~(Calling /\ \E i \in Installers : Hooking(i))
    BY <1>3, Zenon DEF HNext, Recorded
  <2>2. down = "no" /\ Prepared
    BY <2>1 DEF SInv
  <2>3. ASSUME NEW i \in Installers, Install(i)
        PROVE  down' = "no" /\ Prepared'
    BY <2>1, <2>2, <2>3, KernelServed, HooksServed DEF Install
  <2>4. CASE \/ \E w \in Writers : KernRw(w)
             \/ \E t \in Threads : Move(t)
             \/ \E k \in DOMAIN TableOf : Load(k)
             \/ Resolve
    BY <2>1, <2>2, <2>4, OthersServed
  <2> QED
    BY <1>3, <2>3, <2>4 DEF HNext, Next
<1> QED
  BY <1>2, <1>3

-----------------------------------------------------------------------------
(* Results                                                                  *)

\* Every variable of the installer and of the debugger's start keeps its range, for
\* any payloads, threads and consoles, whatever fails.
THEOREM BootTypes == SafeSpec => []TypeOK
BY BootHolds, PTL

\* A console that is served goes down only after the scheduler moved a thread that had
\* write protection off, two such threads met on a CPU, or kdebugger was called while a
\* payload hooked its calls: nothing that fails, and no other order of steps, makes a
\* write fault, calls a function of another version or jumps into memory that is not
\* executable.
THEOREM ConsolesGoDownOfThree == HSafeSpec => []CrashHasCause
<1>1. HInit => SInv
  BY DEF HInit, Init, SInv, Prepared, Threads
<1>2. TypeOK /\ Core /\ IInv /\ SInv /\ [HNext]_hvars => SInv'
  BY StepServed
<1>3. SInv => CrashHasCause
  BY DEF SInv, CrashHasCause
<1>4. HSafeSpec => SafeSpec
  <2>1. HInit => Init
    BY DEF HInit
  <2>2. [HNext]_hvars => [Next]_vars
    BY DEF HNext, hvars
  <2> QED
    BY <2>1, <2>2, PTL DEF HSafeSpec, SafeSpec
<1> QED
  BY <1>1, <1>2, <1>3, <1>4, BootHolds, Inductive, PTL DEF HSafeSpec

\* Once the debugger serves, on whatever console, its memory is what was written,
\* a kdebugger for this kernel is behind each of its system calls, and the patches
\* are in their functions and apart.
THEOREM ServingMeansInstalled == SafeSpec => []ServerHasItsKernel
<1>1. TypeOK /\ Core => ServerHasItsKernel
  <2> SUFFICES ASSUME TypeOK, Core, Serving
               PROVE  ServerHasItsKernel
    BY DEF ServerHasItsKernel
  <2>1. shell >= 1
    BY StartupIs DEF Serving, TypeOK
  <2>2. /\ payload = "written"
        /\ \A k \in Syscalls : sysent[k] # "original"
        /\ RowOf(InstallerSys, Found[fw]) = RowOf(InstallerSys, fw)
        /\ SdkOf(Found[fw]) # NoSdk
        /\ Takes(text.kmem_alloc, Kernel(fw).kmem_alloc)
    BY <2>1 DEF Core, Begun, Patched
  <2>3. Found[fw] = Detect(fw)
    BY DEF TypeOK, Found
  <2>4. fw \in Supported
    BY <2>2, <2>3, SdkUnknown
  <2>5. ASSUME NEW k \in Syscalls
        PROVE  \/ \E i \in Installers : Hooking(i) /\ n[i] = k
               \/ \E i \in Installers : sysent[k] = i /\ SdkOf(kcached[i]) = Kernel(fw)
    <3>1. CASE sysent[k] = "clear"
      BY <3>1 DEF Core, Entries, Hooking
    <3>2. CASE sysent[k] \in Installers
      BY <2>3, <2>4, <3>2, SdkFound DEF Core, Entries, Kernel
    <3> QED
      BY <2>2, <3>1, <3>2 DEF TypeOK
  <2>6. text = PatchOf(Detect(fw)) /\ text # NoPatch
    BY <2>2, <2>3, NoneTakes DEF Core, Patched
  <2>7. fw \notin {701, 702}
    BY <2>2, <2>3, RowsNotFound
  <2>8. fw \notin {750, 751, 755}
    BY <2>4, <2>6, PatchNotFound
  <2>9. /\ Fit(text, Kernel(fw))
        /\ fw # 700 => Takes({text.vm_map_protect}, Kernel(fw).vm_map_protect)
    BY <2>4, <2>6, <2>7, <2>8, PatchFound DEF Kernel
  <2> QED
    BY <2>2, <2>5, <2>9 DEF ServerHasItsKernel, Fit, EightApart, Written
<1> QED
  BY <1>1, BootHolds, PTL

=============================================================================
