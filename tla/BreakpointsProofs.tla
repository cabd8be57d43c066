------------------------- MODULE BreakpointsProofs -------------------------
(***************************************************************************)
(* What Breakpoints promises, for every number of table entries, processes,*)
(* addresses and threads.  The three code properties hold together or not  *)
(* at all: disabling writes back what SavedIsOriginal says was saved, which*)
(* is the original byte only because CodeIntact held when it was read.     *)
(***************************************************************************)
EXTENDS Breakpoints, TLAPS

\* One entry per address, and only an enabled entry has one.
OneEntryEach ==
  attached => \A i, j \in Indices :
    bp[i].address \in Addrs /\ bp[i].address = bp[j].address => i = j

EnabledHasAddress ==
  attached => \A i \in Indices : bp[i].enabled <=> bp[i].address \in Addrs

\* The entry a thread is stepped over stays in the table until it is rearmed.
SteppedIsPlanted == hpc # "loop" => bp[cur.index].address \in Addrs

\* A stop that has yet to be reported was caused by an int3.
PendingTrapped == pending # NoThread => trap[pending] \in Addrs

\* What the table would write back is the byte the process came with.
SavedIsOriginal ==
  attached => \A i \in Indices : bp[i].address \in Addrs =>
    bp[i].original = Code(pid, bp[i].address)

IInv ==
  /\ TypeOK
  /\ OneEntryEach /\ EnabledHasAddress /\ SteppedIsPlanted /\ PendingTrapped
  /\ CodeIntact /\ SavedIsOriginal /\ AllDisabled

-----------------------------------------------------------------------------
\* Writing a byte keeps the shape of memory.
LEMMA PokeType ==
  ASSUME mem \in [Pids -> [Addrs -> Bytes]], NEW p, NEW a, NEW b \in Bytes
  PROVE  Poke(p, a, b) \in [Pids -> [Addrs -> Bytes]]
BY DEF Poke

LEMMA UnsetType ==
  Unset \in [enabled : BOOLEAN, address : Addrs \cup {NoAddr}, original : Bytes]
<1>1. Zero \in Bytes
  BY DEF Bytes
<1>2. QED
  BY <1>1 DEF Unset

LEMMA InitType == Init => TypeOK
<1> SUFFICES ASSUME Init PROVE TypeOK
  OBVIOUS
<1>1. mem \in [Pids -> [Addrs -> Bytes]]
  BY DEF Init, Code, Bytes
<1>2. /\ bp \in [Indices -> [enabled : BOOLEAN, address : Addrs \cup {NoAddr},
                             original : Bytes]]
      /\ cur \in [thread : Threads \cup {NoThread}, index : Indices]
  BY BreakpointsAssumption, UnsetType DEF Init, Idle, Indices
<1>3. QED
  BY <1>1, <1>2 DEF Init, TypeOK, NoTraps

\* Every field keeps its range from one step to the next.
LEMMA StepType == TypeOK /\ [Next]_vars => TypeOK'
<1> SUFFICES ASSUME TypeOK, [Next]_vars PROVE TypeOK'
  OBVIOUS
<1> USE DEF TypeOK, CommandRead
<1>1. ASSUME NEW p \in Pids, Attach(p) PROVE TypeOK'
  BY <1>1, UnsetType DEF Attach, NoTraps
<1>2. ASSUME NEW i \in Indices, NEW a \in Addrs, Enable(i, a) PROVE TypeOK'
  <2>1. mem[pid][a] \in Bytes
    BY <1>2 DEF Enable
  <2>2. mem' \in [Pids -> [Addrs -> Bytes]]
    BY <1>2, PokeType DEF Enable, Bytes
  <2>3. QED
    BY <1>2, <2>1, <2>2 DEF Enable, process
<1>3. ASSUME NEW i \in Indices, Disable(i) PROVE TypeOK'
  <2>1. mem' \in [Pids -> [Addrs -> Bytes]]
    BY <1>3, PokeType DEF Disable
  <2>2. QED
    BY <1>3, <2>1 DEF Disable, process
<1>4. CASE Stop
  BY <1>4 DEF Stop
<1>5. CASE Go
  BY <1>5 DEF Go, Resume, NoTraps
<1>6. ASSUME NEW t \in Threads, Hit(t) PROVE TypeOK'
  BY <1>6 DEF Hit, Trap
<1>7. ASSUME NEW t \in Threads, StepInterrupted(t) PROVE TypeOK'
  BY <1>7 DEF StepInterrupted, Trap
<1>8. CASE StepOver
  <2>1. mem' \in [Pids -> [Addrs -> Bytes]]
    BY <1>8, PokeType DEF StepOver
  <2>2. QED
    BY <1>8, <2>1 DEF StepOver
<1>9. CASE ReportHardware
  BY <1>9 DEF ReportHardware
<1>10. CASE StepDone
  BY <1>10 DEF StepDone
<1>11. CASE Rearm
  <2>1. mem' \in [Pids -> [Addrs -> Bytes]]
    BY <1>11, PokeType DEF Rearm, Bytes
  <2>2. QED
    BY <1>11, <2>1, BreakpointsAssumption DEF Rearm, Idle, Indices
<1>12. CASE Cleanup
  <2>1. PICK last \in [Addrs -> Indices] :
          mem' = [mem EXCEPT ![pid] = [a \in Addrs |->
                   IF Planted(a) THEN bp[last[a]].original ELSE @[a]]]
    BY <1>12 DEF Cleanup
  <2>2. mem' \in [Pids -> [Addrs -> Bytes]]
    BY <2>1
  <2>3. QED
    BY <1>12, <2>2 DEF Cleanup, Resume, NoTraps
<1>13. CASE UNCHANGED vars
  BY <1>13 DEF vars, process
<1>14. QED
  BY <1>1, <1>2, <1>3, <1>4, <1>5, <1>6, <1>7, <1>8, <1>9, <1>10, <1>11,
     <1>12, <1>13 DEF Next

\* Every field of Breakpoints keeps its range.
THEOREM TypeCorrect == Spec => []TypeOK
BY InitType, StepType, PTL DEF Spec

-----------------------------------------------------------------------------
LEMMA InitCode == Init => IInv
<1> SUFFICES ASSUME Init PROVE IInv
  OBVIOUS
<1>1. TypeOK
  BY InitType
<1>2. ~attached /\ hpc = "loop" /\ pending = NoThread
  BY DEF Init
<1>3. AllDisabled
  BY DEF Init, AllDisabled
<1>4. QED
  BY <1>1, <1>2, <1>3 DEF IInv, OneEntryEach, EnabledHasAddress,
     SteppedIsPlanted, PendingTrapped, CodeIntact, SavedIsOriginal

\* A tidy tool plants an int3 only where the code is still original.
LEMMA EnableCode ==
  ASSUME Tidy, IInv, NEW i \in Indices, NEW a \in Addrs, Enable(i, a)
  PROVE  IInv'
<1>1. TypeOK'
  BY StepType DEF IInv, Next
<1> USE DEF IInv
<1>2. /\ attached /\ attached' /\ hpc = "loop" /\ hpc' = "loop"
      /\ pid' = pid /\ pid \in Pids
  BY DEF Enable, CommandRead, TypeOK
<1>3. ~Planted(a) /\ ~bp[i].enabled /\ bp[i].address \notin Addrs
  BY <1>2 DEF Enable, TidyEnable, EnabledHasAddress, Planted
<1>4. mem[pid][a] = Code(pid, a)
  BY <1>2, <1>3 DEF CodeIntact
<1>5. /\ bp'[i].enabled /\ bp'[i].address = a /\ bp'[i].original = Code(pid, a)
      /\ \A j \in Indices \ {i} : bp'[j] = bp[j]
  BY <1>4 DEF Enable, TypeOK
<1>6. /\ mem'[pid][a] = Int3
      /\ \A x \in Addrs \ {a} : mem'[pid][x] = mem[pid][x]
      /\ \A p \in Pids \ {pid} : mem'[p] = mem[p]
  BY <1>2 DEF Enable, Poke, TypeOK
<1>7. OneEntryEach' /\ EnabledHasAddress' /\ SteppedIsPlanted'
  BY <1>2, <1>3, <1>5 DEF OneEntryEach, EnabledHasAddress, SteppedIsPlanted,
     Planted
<1>8. CodeIntact'
  BY <1>2, <1>3, <1>5, <1>6 DEF CodeIntact, Planted, Stepping, Code
<1>9. SavedIsOriginal'
  BY <1>2, <1>5 DEF SavedIsOriginal, Code
<1>10. AllDisabled'
  BY <1>2, <1>6 DEF AllDisabled, Code
<1>11. PendingTrapped'
  BY DEF PendingTrapped, Enable, process
<1>12. QED
  BY <1>1, <1>7, <1>8, <1>9, <1>10, <1>11

\* Disabling an entry puts back the original byte of its address.
LEMMA DisableCode ==
  ASSUME IInv, NEW i \in Indices, Disable(i)
  PROVE  IInv'
<1>1. TypeOK'
  BY StepType DEF IInv, Next
<1> USE DEF IInv
<1>2. /\ attached /\ attached' /\ hpc = "loop" /\ hpc' = "loop"
      /\ pid' = pid /\ pid \in Pids
  BY DEF Disable, CommandRead, TypeOK
<1>3. /\ ~bp'[i].enabled /\ bp'[i].address = NoAddr
      /\ \A j \in Indices \ {i} : bp'[j] = bp[j]
  BY DEF Disable, TypeOK
<1>4. /\ \A x \in Addrs : mem'[pid][x] =
           IF x = bp[i].address THEN bp[i].original ELSE mem[pid][x]
      /\ \A p \in Pids \ {pid} : mem'[p] = mem[p]
  BY <1>2 DEF Disable, Poke, TypeOK
<1>5. OneEntryEach' /\ EnabledHasAddress' /\ SteppedIsPlanted'
  BY <1>2, <1>3, BreakpointsAssumption
     DEF OneEntryEach, EnabledHasAddress, SteppedIsPlanted
<1>6. CodeIntact'
  <2>1. SUFFICES ASSUME NEW x \in Addrs
                 PROVE  mem'[pid][x] =
                          IF Planted(x)' THEN Int3 ELSE Code(pid, x)
    BY <1>2 DEF CodeIntact, Stepping, Code
  <2>2. CASE x = bp[i].address
    <3>1. ~Planted(x)'
      BY <1>2, <1>3, <2>2, BreakpointsAssumption DEF Planted, OneEntryEach
    <3>2. QED
      BY <1>2, <1>4, <2>2, <3>1 DEF SavedIsOriginal
  <2>3. CASE x # bp[i].address
    <3>1. Planted(x)' <=> Planted(x)
      BY <1>3, <2>3, BreakpointsAssumption DEF Planted
    <3>2. QED
      BY <1>2, <1>4, <2>3, <3>1 DEF CodeIntact, Stepping
  <2>4. QED
    BY <2>2, <2>3
<1>7. SavedIsOriginal'
  BY <1>2, <1>3, BreakpointsAssumption DEF SavedIsOriginal, Code
<1>8. AllDisabled'
  BY <1>2, <1>4 DEF AllDisabled, Code
<1>9. PendingTrapped'
  BY DEF PendingTrapped, Disable, process
<1>10. QED
  BY <1>1, <1>5, <1>6, <1>7, <1>8, <1>9

\* Stepping over a breakpoint takes its int3 out, and no other.
LEMMA StepOverCode ==
  ASSUME IInv, StepOver
  PROVE  IInv'
<1>1. TypeOK'
  BY StepType DEF IInv, Next
<1> USE DEF IInv
<1>2. /\ attached /\ attached' /\ hpc = "loop" /\ hpc' = "stepping"
      /\ pid' = pid /\ pid \in Pids /\ bp' = bp
  BY DEF StepOver, CommandRead, TypeOK
<1>3. PICK i \in Indices :
        /\ IsMatch(i, trap[pending])
        /\ mem' = Poke(pid, bp[i].address, bp[i].original)
        /\ cur' = [thread |-> pending, index |-> i]
  BY DEF StepOver
<1>4. /\ \A x \in Addrs : mem'[pid][x] =
           IF x = bp[i].address THEN bp[i].original ELSE mem[pid][x]
      /\ \A p \in Pids \ {pid} : mem'[p] = mem[p]
  BY <1>2, <1>3 DEF Poke, TypeOK
<1>5. cur'.index = i
  BY <1>3
<1>6. bp[i].address \in Addrs
  BY <1>3 DEF StepOver, IsMatch, PendingTrapped
<1>7. OneEntryEach' /\ EnabledHasAddress' /\ SteppedIsPlanted'
  BY <1>2, <1>5, <1>6 DEF OneEntryEach, EnabledHasAddress, SteppedIsPlanted
<1>8. CodeIntact'
  BY <1>2, <1>4, <1>5 DEF CodeIntact, Planted, Stepping, SavedIsOriginal, Code
<1>9. SavedIsOriginal' /\ AllDisabled'
  BY <1>2, <1>4 DEF SavedIsOriginal, AllDisabled, Code
<1>10. PendingTrapped'
  BY DEF PendingTrapped, StepOver
<1>11. QED
  BY <1>1, <1>7, <1>8, <1>9, <1>10

\* The int3 goes back where it was taken out.
LEMMA RearmCode ==
  ASSUME IInv, Rearm
  PROVE  IInv'
<1>1. TypeOK'
  BY StepType DEF IInv, Next
<1> USE DEF IInv
<1>2. /\ attached /\ attached' /\ hpc = "rearm" /\ hpc' = "loop"
      /\ pid' = pid /\ pid \in Pids /\ bp' = bp
  BY DEF Rearm, TypeOK
<1>3. /\ \A x \in Addrs : mem'[pid][x] =
           IF x = bp[cur.index].address THEN Int3 ELSE mem[pid][x]
      /\ \A p \in Pids \ {pid} : mem'[p] = mem[p]
  BY <1>2 DEF Rearm, Poke, TypeOK
<1>4. cur.index \in Indices
  BY DEF TypeOK
<1>5. OneEntryEach' /\ EnabledHasAddress' /\ SteppedIsPlanted'
  BY <1>2 DEF OneEntryEach, EnabledHasAddress, SteppedIsPlanted
<1>6. CodeIntact'
  BY <1>2, <1>3, <1>4 DEF CodeIntact, Planted, Stepping, Code
<1>7. SavedIsOriginal' /\ AllDisabled'
  BY <1>2, <1>3 DEF SavedIsOriginal, AllDisabled, Code
<1>8. PendingTrapped'
  BY DEF PendingTrapped, Rearm
<1>9. QED
  BY <1>1, <1>5, <1>6, <1>7, <1>8

\* debug_cleanup leaves no int3 behind in the process it lets go.
LEMMA CleanupCode ==
  ASSUME IInv, Cleanup
  PROVE  IInv'
<1>1. TypeOK'
  BY StepType DEF IInv, Next
<1> USE DEF IInv
<1>2. /\ attached /\ ~attached' /\ hpc = "loop" /\ hpc' = "loop"
      /\ pid' = pid /\ pid \in Pids
  BY DEF Cleanup, CommandRead, TypeOK
<1>3. PICK last \in [Addrs -> Indices] :
        /\ \A a \in Addrs : Planted(a) => IsLast(last[a], a)
        /\ mem' = [mem EXCEPT ![pid] = [a \in Addrs |->
                     IF Planted(a) THEN bp[last[a]].original ELSE @[a]]]
  BY DEF Cleanup
<1>4. /\ \A a \in Addrs : mem'[pid][a] =
           IF Planted(a) THEN bp[last[a]].original ELSE mem[pid][a]
      /\ \A p \in Pids \ {pid} : mem'[p] = mem[p]
  BY <1>2, <1>3 DEF TypeOK
<1>5. ASSUME NEW a \in Addrs PROVE mem'[pid][a] = Code(pid, a)
  <2>1. CASE Planted(a)
    <3>1. last[a] \in Indices /\ bp[last[a]].address = a
      BY <1>3, <2>1 DEF IsLast
    <3>2. QED
      BY <1>2, <1>4, <2>1, <3>1 DEF SavedIsOriginal
  <2>2. CASE ~Planted(a)
    BY <1>2, <1>4, <2>2 DEF CodeIntact, Stepping
  <2>3. QED
    BY <2>1, <2>2
<1>6. AllDisabled'
  BY <1>2, <1>4, <1>5 DEF AllDisabled, Code
<1>7. PendingTrapped'
  BY DEF PendingTrapped, Cleanup, Resume
<1>8. QED
  BY <1>1, <1>2, <1>6, <1>7 DEF OneEntryEach, EnabledHasAddress,
     SteppedIsPlanted, CodeIntact, SavedIsOriginal

\* A tidy tool begins with an empty table, and the code is original then.
LEMMA AttachCode ==
  ASSUME Tidy, IInv, NEW p \in Pids, Attach(p)
  PROVE  IInv'
<1>1. TypeOK'
  BY StepType DEF IInv, Next
<1> USE DEF IInv
<1>2. /\ ~attached /\ attached' /\ hpc = "loop" /\ hpc' = "loop"
      /\ pid' = p /\ mem' = mem /\ pending' = NoThread
  BY DEF Attach
<1>3. \A i \in Indices : ~bp'[i].enabled /\ bp'[i].address = NoAddr
  BY DEF Attach, Unset
<1>4. \A a \in Addrs : ~Planted(a)'
  BY <1>3, BreakpointsAssumption DEF Planted
<1>5. CodeIntact' /\ AllDisabled'
  BY <1>2, <1>4 DEF CodeIntact, AllDisabled, Stepping, Code
<1>6. OneEntryEach' /\ EnabledHasAddress' /\ SavedIsOriginal'
  BY <1>3, BreakpointsAssumption
     DEF OneEntryEach, EnabledHasAddress, SavedIsOriginal
<1>7. SteppedIsPlanted' /\ PendingTrapped'
  BY <1>2 DEF SteppedIsPlanted, PendingTrapped
<1>8. QED
  BY <1>1, <1>5, <1>6, <1>7

\* A step that leaves code and table alone, and lets no step end, keeps them.
LEMMA QuietCode ==
  ASSUME IInv, TypeOK', UNCHANGED <<mem, bp, pid, attached>>, PendingTrapped',
         UNCHANGED <<hpc, cur>> \/ (hpc # "loop" /\ hpc' # "loop" /\ cur' = cur)
  PROVE  IInv'
<1>1. cur' = cur /\ (hpc' # "loop" <=> hpc # "loop")
  OBVIOUS
<1>2. OneEntryEach' /\ EnabledHasAddress' /\ SteppedIsPlanted'
  BY <1>1 DEF IInv, OneEntryEach, EnabledHasAddress, SteppedIsPlanted
<1>3. \A a \in Addrs : (Stepping(a)' <=> Stepping(a)) /\ (Planted(a)' <=> Planted(a))
  BY <1>1 DEF Stepping, Planted
<1>4. CodeIntact' /\ SavedIsOriginal' /\ AllDisabled'
  BY <1>3 DEF IInv, CodeIntact, SavedIsOriginal, AllDisabled, Code
<1>5. QED
  BY <1>2, <1>4 DEF IInv

LEMMA StepCode == ASSUME Tidy PROVE IInv /\ [Next]_vars => IInv'
<1> SUFFICES ASSUME IInv, [Next]_vars PROVE IInv'
  OBVIOUS
<1>1. TypeOK'
  BY StepType DEF IInv
<1>2. ASSUME NEW p \in Pids, Attach(p) PROVE IInv'
  BY <1>2, AttachCode
<1>3. ASSUME NEW i \in Indices, NEW a \in Addrs, Enable(i, a) PROVE IInv'
  BY <1>3, EnableCode
<1>4. ASSUME NEW i \in Indices, Disable(i) PROVE IInv'
  BY <1>4, DisableCode
<1>5. CASE Stop
  BY <1>1, <1>5, QuietCode DEF Stop, PendingTrapped
<1>6. CASE Go
  BY <1>1, <1>6, QuietCode DEF Go, Resume, PendingTrapped
<1>7. ASSUME NEW t \in Threads, Hit(t) PROVE IInv'
  <2>1. PendingTrapped'
    BY <1>7 DEF Hit, Trap, PendingTrapped, IInv, TypeOK
  <2>2. QED
    BY <1>1, <1>7, <2>1, QuietCode DEF Hit
<1>8. ASSUME NEW t \in Threads, StepInterrupted(t) PROVE IInv'
  <2>1. PendingTrapped'
    BY <1>8 DEF StepInterrupted, Trap, PendingTrapped, IInv, TypeOK
  <2>2. QED
    BY <1>1, <1>8, <2>1, QuietCode DEF StepInterrupted
<1>9. CASE StepOver
  BY <1>9, StepOverCode
<1>10. CASE ReportHardware
  BY <1>1, <1>10, QuietCode DEF ReportHardware, PendingTrapped
<1>11. CASE StepDone
  <2>1. PendingTrapped'
    BY <1>11 DEF StepDone, PendingTrapped, IInv
  <2>2. QED
    BY <1>1, <1>11, <2>1, QuietCode DEF StepDone
<1>12. CASE Rearm
  BY <1>12, RearmCode
<1>13. CASE Cleanup
  BY <1>13, CleanupCode
<1>14. CASE UNCHANGED vars
  <2>1. PendingTrapped'
    BY <1>14 DEF vars, process, PendingTrapped, IInv
  <2>2. QED
    BY <1>1, <1>14, <2>1, QuietCode DEF vars
<1>15. QED
  BY <1>2, <1>3, <1>4, <1>5, <1>6, <1>7, <1>8, <1>9, <1>10, <1>11, <1>12,
     <1>13, <1>14 DEF Next

\* With a tidy tool, the code of the debugged process differs from its own
\* by exactly the int3s of the table, whatever its threads run into.
THEOREM CodeStaysIntact == ASSUME Tidy PROVE Spec => []CodeIntact
<1>1. IInv => CodeIntact
  BY DEF IInv
<1>2. QED
  BY InitCode, StepCode, <1>1, PTL DEF Spec

\* With a tidy tool, every byte debug_cleanup would write is an original one.
THEOREM SavedStaysOriginal == ASSUME Tidy PROVE Spec => []SavedIsOriginal
<1>1. IInv => SavedIsOriginal
  BY DEF IInv
<1>2. QED
  BY InitCode, StepCode, <1>1, PTL DEF Spec

\* With a tidy tool, a process that is let go has no int3 left in it.
THEOREM CleanupRestores == ASSUME Tidy PROVE Spec => []AllDisabled
<1>1. IInv => AllDisabled
  BY DEF IInv
<1>2. QED
  BY InitCode, StepCode, <1>1, PTL DEF Spec

=============================================================================
