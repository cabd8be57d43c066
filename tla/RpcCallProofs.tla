---------------------------- MODULE RpcCallProofs ----------------------------
(***************************************************************************)
(* What RpcCall promises for every number of callers, calls and registers:  *)
(* fields keep their ranges, and when callers take turns each is answered   *)
(* the value of its own call.                                               *)
(***************************************************************************)
EXTENDS RpcCall, TLAPS

USE DEF process, header, stub, caller, Registers

-----------------------------------------------------------------------------
\* A caller that copies has registers left to copy.
TypeInv == TypeOK /\ \A t \in Callers : pc[t] = "copy" => copied[t] < Words

LEMMA InitType == Init => TypeInv
<1> SUFFICES ASSUME Init PROVE TypeInv
  OBVIOUS
<1>1. \A t \in Callers : pc[t] = "idle" /\ cur[t] = Nobody
  BY DEF Init
<1>2. /\ running \in BOOLEAN /\ stopped \in BOOLEAN
      /\ go \in BOOLEAN /\ done \in BOOLEAN
  BY DEF Init
<1>3. /\ stops \in 0..MaxStops /\ rax \in Calls \cup {Nobody, Mixed}
      /\ spc \in {"check", "load", "call", "inside", "ungo", "done", "sleep"}
      /\ regs \in [Registers -> Calls \cup {Nobody}]
      /\ loaded \in [Registers -> Calls \cup {Nobody}]
  BY RpcCallAssumption DEF Init, NoRegisters
<1>4. /\ pc \in [Callers -> {"idle", "copy", "go", "poll", "clear", "rax"}]
      /\ cur \in [Callers -> Calls \cup {Nobody}]
      /\ copied \in [Callers -> 0..Words]
      /\ answer \in [Calls -> Calls \cup {Nobody, Mixed, Zero}]
  BY RpcCallAssumption DEF Init
<1>5. QED
  BY <1>1, <1>2, <1>3, <1>4 DEF TypeInv, TypeOK

LEMMA CallerType ==
  ASSUME TypeInv, NEW t \in Callers, CallerStep(t) PROVE TypeInv'
<1> USE RpcCallAssumption DEF TypeInv, TypeOK, Goto
<1>1. CASE Copy(t)
  <2>1. copied[t] \in 0..Words /\ copied[t] < Words
    BY <1>1 DEF Copy
  <2>2. copied[t] + 1 \in 1..Words
    BY <2>1
  <2>3. regs' \in [1..Words -> Calls \cup {Nobody}]
    BY <1>1, <2>2 DEF Copy
  <2>4. copied' \in [Callers -> 0..Words]
    BY <1>1, <2>2 DEF Copy
  <2>5. \A u \in Callers : pc'[u] = "copy" => copied'[u] < Words
    <3>1. CASE copied[t] + 1 = Words
      BY <1>1, <3>1 DEF Copy
    <3>2. CASE copied[t] + 1 # Words
      BY <1>1, <2>1, <3>2 DEF Copy
    <3>3. QED
      BY <3>1, <3>2
  <2>6. QED
    BY <1>1, <2>3, <2>4, <2>5 DEF Copy
<1>2. CASE Trigger(t)
  BY <1>2 DEF Trigger
<1>3. CASE Poll(t)
  BY <1>3 DEF Poll
<1>4. CASE Clear(t)
  BY <1>4 DEF Clear
<1>5. CASE ReadRax(t)
  BY <1>5 DEF ReadRax, Respond
<1>6. CASE Fail(t)
  BY <1>6 DEF Fail, Respond
<1>7. QED
  BY <1>1, <1>2, <1>3, <1>4, <1>5, <1>6 DEF CallerStep

\* Functions are entered with the registers of some call.
LEMMA CallOfType ==
  ASSUME NEW r \in [Registers -> Calls \cup {Nobody}]
  PROVE  CallOf(r) \in Calls \cup {Nobody, Mixed}
BY RpcCallAssumption DEF CallOf

LEMMA StubType == ASSUME TypeInv, StubStep PROVE TypeInv'
<1> USE RpcCallAssumption DEF TypeInv, TypeOK, AtStub
<1>1. CASE Check
  BY <1>1 DEF Check, NoRegisters
<1>2. CASE Load
  BY <1>2 DEF Load
<1>3. CASE Enter
  BY <1>3 DEF Enter
<1>4. CASE Return
  BY <1>4, CallOfType DEF Return
<1>5. CASE Ungo
  BY <1>5 DEF Ungo
<1>6. CASE Done
  BY <1>6 DEF Done
<1>7. CASE Wake
  BY <1>7 DEF Wake
<1>8. QED
  BY <1>1, <1>2, <1>3, <1>4, <1>5, <1>6, <1>7 DEF StubStep

LEMMA StepType == TypeInv /\ [Next]_vars => TypeInv'
<1> SUFFICES ASSUME TypeInv, [Next]_vars PROVE TypeInv'
  OBVIOUS
<1> USE RpcCallAssumption DEF TypeInv, TypeOK
<1>1. ASSUME NEW t \in Callers, NEW c \in Calls, Call(t, c) PROVE TypeInv'
  BY <1>1 DEF Call, Goto
<1>2. ASSUME NEW t \in Callers, CallerStep(t) PROVE TypeInv'
  BY <1>2, CallerType
<1>3. CASE StubStep
  BY <1>3, StubType
<1>4. CASE End
  BY <1>4 DEF End
<1>5. CASE Stop
  BY <1>5 DEF Stop
<1>6. CASE Resume
  BY <1>6 DEF Resume
<1>7. CASE UNCHANGED vars
  BY <1>7 DEF vars
<1>8. QED
  BY <1>1, <1>2, <1>3, <1>4, <1>5, <1>6, <1>7 DEF Next

\* Every field keeps its range, however many callers share the stub.
THEOREM TypeCorrect == SafeSpec => []TypeOK
<1>1. TypeInv => TypeOK
  BY DEF TypeInv
<1>2. QED
  BY InitType, StepType, <1>1, PTL DEF SafeSpec

-----------------------------------------------------------------------------
\* What the header and the stub look like at each step of the one caller.
Resting == spc \in {"check", "sleep"}

Untouched == ~go /\ ~done /\ Resting

AllOf(r, c) == \A w \in Registers : r[w] = c

\* go is set for c, and the stub has not yet cleared it.
Pending(c) ==
  /\ go /\ ~done
  /\ \/ Resting
     \/ spc = "load" /\ \A w \in Registers : loaded[w] \in {c, Nobody}
     \/ spc \in {"call", "inside"} /\ AllOf(loaded, c)
     \/ spc = "ungo" /\ rax = c

Finished(c) == ~go /\ rax = c /\ Resting /\ done

Unreported(c) == ~go /\ ~done /\ spc = "done" /\ rax = c

Stage(t) ==
  /\ pc[t] = "copy" => Untouched /\ \A w \in 1..copied[t] : regs[w] = cur[t]
  /\ pc[t] = "go" => Untouched /\ AllOf(regs, cur[t])
  /\ pc[t] = "poll" =>
       /\ AllOf(regs, cur[t])
       /\ Pending(cur[t]) \/ Unreported(cur[t]) \/ Finished(cur[t])
  /\ pc[t] = "clear" => Finished(cur[t])
  /\ pc[t] = "rax" => Untouched /\ rax = cur[t]

TurnInv ==
  /\ TypeInv /\ AnswersOwn /\ PolledUntilDone
  /\ \A t, u \in Callers : pc[t] # "idle" /\ pc[u] # "idle" => t = u
  /\ running => \A t \in Callers : Stage(t)
  /\ running /\ (\A t \in Callers : pc[t] = "idle") => Untouched

LEMMA InitTurn == Init => TurnInv
<1> SUFFICES ASSUME Init PROVE TurnInv
  OBVIOUS
<1>1. \A t \in Callers : pc[t] = "idle"
  BY DEF Init
<1>2. \A c \in Calls : answer[c] = Nobody
  BY DEF Init
<1>3. Untouched
  BY DEF Init, Untouched, Resting
<1>4. QED
  BY <1>1, <1>2, <1>3, InitType
     DEF TurnInv, AnswersOwn, PolledUntilDone, Stage

\* A caller that stays in its system call is the only one there.
LEMMA Alone ==
  ASSUME TurnInv, TypeInv', NEW t \in Callers, pc[t] # "idle", running,
         pc'[t] # "idle", \A u \in Callers : u # t => pc'[u] = pc[u],
         UNCHANGED answer, Stage(t)', pc'[t] \in {"clear", "rax"} => rax' = cur'[t]
  PROVE  TurnInv'
<1>1. \A u \in Callers : u # t => pc'[u] = "idle"
  BY DEF TurnInv
<1>2. \A u \in Callers : Stage(u)'
  BY <1>1 DEF Stage
<1>3. AnswersOwn'
  BY DEF TurnInv, AnswersOwn
<1>4. PolledUntilDone'
  BY <1>1 DEF PolledUntilDone
<1>5. QED
  BY <1>1, <1>2, <1>3, <1>4 DEF TurnInv

LEMMA CallTurn ==
  ASSUME TakeTurns, TurnInv, TypeInv', NEW t \in Callers, NEW c \in Calls, Call(t, c)
  PROVE  TurnInv'
<1>1. /\ pc' = [pc EXCEPT ![t] = "copy"] /\ pc[t] = "idle"
      /\ copied' = [copied EXCEPT ![t] = 0]
      /\ UNCHANGED <<running, regs, go, done, rax, spc, answer>>
  BY DEF Call, Goto
<1>2. \A u \in Callers : pc[u] = "idle"
  BY DEF Call
<1>3. pc \in [Callers -> {"idle", "copy", "go", "poll", "clear", "rax"}]
      /\ copied \in [Callers -> 0..Words]
  BY DEF TurnInv, TypeInv, TypeOK
<1>4. \A u \in Callers : pc'[u] = IF u = t THEN "copy" ELSE "idle"
  BY <1>1, <1>2, <1>3
<1>5. AnswersOwn' /\ PolledUntilDone'
  BY <1>1, <1>4 DEF TurnInv, AnswersOwn, PolledUntilDone
<1>6. running' => Untouched'
  BY <1>1, <1>2 DEF TurnInv, Untouched, Resting
<1>7. running' => \A u \in Callers : Stage(u)'
  <2>1. copied'[t] = 0
    BY <1>1, <1>3
  <2>2. QED
    BY <1>4, <1>6, <2>1 DEF Stage
<1>8. QED
  BY <1>4, <1>5, <1>6, <1>7 DEF TurnInv

\* Answers do not disturb the header.
LEMMA RespondTurn ==
  ASSUME TurnInv, TypeInv', NEW t \in Callers, NEW v, pc[t] # "idle", Respond(t, v),
         v \in {cur[t], Zero}, running => Untouched
  PROVE  TurnInv'
<1>1. /\ pc' = [pc EXCEPT ![t] = "idle"]
      /\ answer' = [answer EXCEPT ![cur[t]] = v]
      /\ UNCHANGED <<running, regs, go, done, rax, spc>>
  BY DEF Respond, Goto
<1>2. pc \in [Callers -> {"idle", "copy", "go", "poll", "clear", "rax"}]
      /\ answer \in [Calls -> Calls \cup {Nobody, Mixed, Zero}]
  BY DEF TurnInv, TypeInv, TypeOK
<1>3. \A u \in Callers : pc'[u] = "idle"
  BY <1>1, <1>2 DEF TurnInv
<1>4. AnswersOwn'
  BY <1>1, <1>2 DEF TurnInv, AnswersOwn
<1>5. PolledUntilDone' /\ \A u \in Callers : Stage(u)'
  BY <1>3 DEF PolledUntilDone, Stage
<1>6. running' => Untouched'
  BY <1>1 DEF Untouched, Resting
<1>7. QED
  BY <1>3, <1>4, <1>5, <1>6 DEF TurnInv

LEMMA CallerTurn ==
  ASSUME TurnInv, TypeInv', NEW t \in Callers, CallerStep(t) PROVE TurnInv'
<1>1. /\ pc \in [Callers -> {"idle", "copy", "go", "poll", "clear", "rax"}]
      /\ regs \in [Registers -> Calls \cup {Nobody}]
      /\ copied \in [Callers -> 0..Words] /\ Words \in Nat
      /\ go \in BOOLEAN /\ done \in BOOLEAN
  BY RpcCallAssumption DEF TurnInv, TypeInv, TypeOK
<1>2. running => Stage(t)
  BY DEF TurnInv
<1>3. CASE Copy(t)
  <2>1. copied[t] + 1 \in Registers /\ copied[t] \in Nat
    BY <1>1, <1>3 DEF Copy, TurnInv, TypeInv
  <2>2. \A w \in 1 .. copied[t] + 1 : regs'[w] = cur'[t]
    <3>1. /\ regs' = [regs EXCEPT ![copied[t] + 1] = cur[t]]
          /\ UNCHANGED cur /\ pc[t] = "copy" /\ running
      BY <1>3 DEF Copy
    <3>2. \A w \in 1..copied[t] : regs[w] = cur[t]
      BY <1>2, <3>1 DEF Stage
    <3>3. \A w \in 1 .. copied[t] + 1 : w \in Registers /\ (w = copied[t] + 1 \/ w \in 1..copied[t])
      BY <1>1, <2>1
    <3>4. QED
      BY <1>1, <3>1, <3>2, <3>3
  <2>3. Untouched'
    BY <1>2, <1>3 DEF Copy, Stage, Untouched, Resting
  <2>4. copied'[t] = copied[t] + 1
        /\ pc'[t] = IF copied[t] + 1 = Words THEN "go" ELSE "copy"
    BY <1>1, <1>3 DEF Copy, Goto
  <2>5. Stage(t)'
    BY <2>2, <2>3, <2>4 DEF Stage, AllOf
  <2>6. QED
    BY <1>1, <1>3, <2>4, <2>5, Alone DEF Copy, Goto
<1>4. CASE Trigger(t)
  <2>1. Stage(t)'
    BY <1>1, <1>2, <1>4 DEF Trigger, Goto, Stage, Pending, Untouched, Resting, AllOf
  <2>2. QED
    BY <1>1, <1>4, <2>1, Alone DEF Trigger, Goto
<1>5. CASE Poll(t)
  <2>1. Finished(cur[t])
    BY <1>2, <1>5 DEF Poll, Stage, Pending, Unreported
  <2>2. Stage(t)' /\ rax' = cur'[t]
    BY <1>1, <1>5, <2>1 DEF Poll, Goto, Stage, Finished, Resting
  <2>3. QED
    BY <1>1, <1>5, <2>2, Alone DEF Poll, Goto
<1>6. CASE Clear(t)
  <2>1. Stage(t)' /\ rax' = cur'[t]
    BY <1>1, <1>2, <1>6 DEF Clear, Goto, Stage, Finished, Untouched, Resting
  <2>2. QED
    BY <1>1, <1>6, <2>1, Alone DEF Clear, Goto
<1>7. CASE ReadRax(t)
  BY <1>2, <1>7, RespondTurn DEF ReadRax, Stage
<1>8. CASE Fail(t)
  BY <1>8, RespondTurn DEF Fail
<1>9. QED
  BY <1>3, <1>4, <1>5, <1>6, <1>7, <1>8 DEF CallerStep

\* What the stub does to the header suits the one caller that is waiting.
LEMMA StubStage ==
  ASSUME TurnInv, TypeInv', StubStep, NEW t \in Callers, pc[t] # "idle"
  PROVE  Stage(t)' /\ (pc[t] \in {"clear", "rax"} => UNCHANGED rax)
<1>1. /\ running /\ UNCHANGED <<running, regs, caller>> /\ Stage(t)
      /\ pc[t] \in {"copy", "go", "poll", "clear", "rax"}
      /\ go \in BOOLEAN /\ done \in BOOLEAN
      /\ Words \in Nat \ {0}
      /\ loaded \in [Registers -> Calls \cup {Nobody}]
      /\ cur[t] # Nobody
  BY RpcCallAssumption
     DEF StubStep, Check, Load, Enter, Return, Ungo, Done, Wake, AtStub,
         TurnInv, TypeInv, TypeOK
<1> USE DEF AtStub, Stage, Untouched, Resting, AllOf, Pending, Unreported, Finished
<1>2. CASE Check
  BY <1>1, <1>2 DEF Check, NoRegisters
<1>3. CASE Load
  BY <1>1, <1>3 DEF Load
<1>4. CASE Enter
  BY <1>1, <1>4 DEF Enter
<1>5. CASE Return
  BY <1>1, <1>5 DEF Return, CallOf
<1>6. CASE Ungo
  BY <1>1, <1>6 DEF Ungo
<1>7. CASE Done
  BY <1>1, <1>7 DEF Done
<1>8. CASE Wake
  BY <1>1, <1>8 DEF Wake
<1>9. QED
  BY <1>2, <1>3, <1>4, <1>5, <1>6, <1>7, <1>8 DEF StubStep

LEMMA StubTurn == ASSUME TurnInv, TypeInv', StubStep PROVE TurnInv'
<1>1. running /\ UNCHANGED <<running, regs, caller>>
  BY DEF StubStep, Check, Load, Enter, Return, Ungo, Done, Wake, AtStub
<1>2. CASE \E t \in Callers : pc[t] # "idle"
  <2>1. PICK t \in Callers : pc[t] # "idle"
    BY <1>2
  <2>2. Stage(t)' /\ (pc[t] \in {"clear", "rax"} => UNCHANGED rax)
    BY <2>1, StubStage
  <2>3. pc[t] \in {"clear", "rax"} => rax' = cur'[t]
    BY <1>1, <2>2 DEF TurnInv, PolledUntilDone
  <2>4. QED
    BY <1>1, <2>1, <2>2, <2>3, Alone
<1>3. CASE \A t \in Callers : pc[t] = "idle"
  <2>1. Untouched'
    BY <1>1, <1>3
       DEF TurnInv, Untouched, Resting, StubStep, Check, Load, Enter, Return,
           Ungo, Done, Wake, AtStub
  <2>2. AnswersOwn' /\ PolledUntilDone'
    BY <1>1, <1>3 DEF TurnInv, AnswersOwn, PolledUntilDone
  <2>3. \A t \in Callers : Stage(t)'
    BY <1>1, <1>3 DEF Stage
  <2>4. QED
    BY <1>1, <1>3, <2>1, <2>2, <2>3 DEF TurnInv
<1>4. QED
  BY <1>2, <1>3

LEMMA StepTurn == ASSUME TakeTurns PROVE TurnInv /\ [Next]_vars => TurnInv'
<1> SUFFICES ASSUME TurnInv, [Next]_vars PROVE TurnInv'
  OBVIOUS
<1>1. TypeInv'
  BY StepType DEF TurnInv
<1>2. ASSUME NEW t \in Callers, NEW c \in Calls, Call(t, c) PROVE TurnInv'
  BY <1>1, <1>2, CallTurn
<1>3. ASSUME NEW t \in Callers, CallerStep(t) PROVE TurnInv'
  BY <1>1, <1>3, CallerTurn
<1>4. CASE StubStep
  BY <1>1, <1>4, StubTurn
<1>5. CASE End \/ Stop \/ Resume \/ UNCHANGED vars
  <2>1. UNCHANGED <<header, stub, caller>> /\ (running' => running)
    BY <1>5 DEF End, Stop, Resume, vars
  <2>2. QED
    BY <1>1, <2>1
       DEF TurnInv, AnswersOwn, PolledUntilDone, Stage, Untouched, Resting, AllOf,
           Pending, Unreported, Finished
<1>6. QED
  BY <1>2, <1>3, <1>4, <1>5 DEF Next

\* When callers take turns, sys_proc_call_handle leaves its loop only after the
\* function it asked for has returned, and rax stays that call's until it has
\* been read: however many calls are made, also across the end of the process.
THEOREM LoopWaitsForCall == ASSUME TakeTurns PROVE SafeSpec => []PolledUntilDone
<1>1. TurnInv => PolledUntilDone
  BY DEF TurnInv
<1>2. QED
  BY InitTurn, StepTurn, <1>1, PTL DEF SafeSpec

\* When callers take turns, CMD_PROC_CALL answers the value of its own call or,
\* once the process has ended, zero: never the value of an earlier call.
THEOREM AnswersAreOwn == ASSUME TakeTurns PROVE SafeSpec => []AnswersOwn
<1>1. TurnInv => AnswersOwn
  BY DEF TurnInv
<1>2. QED
  BY InitTurn, StepTurn, <1>1, PTL DEF SafeSpec

-----------------------------------------------------------------------------
\* What the header holds comes from calls that have been made, and rax is not
\* yet that of a call whose function has not returned.
Waiting(t) ==
  \/ pc[t] \in {"copy", "go"}
  \/ pc[t] = "poll" /\ spc \notin {"ungo", "done"} /\ ~done

MadeInv ==
  /\ \A t \in Callers : cur[t] # Nobody => answer[cur[t]] = Nobody
  /\ \A w \in Registers : regs[w] # Nobody => Made(regs[w])
  /\ \A w \in Registers : loaded[w] # Nobody => Made(loaded[w])
  /\ rax \in Calls => Made(rax)
  /\ running => \A t \in Callers : Waiting(t) => rax # cur[t]

CallInv == TurnInv /\ MadeInv

LEMMA InitCall == Init => CallInv
<1> SUFFICES ASSUME Init PROVE CallInv
  OBVIOUS
<1>1. \A t \in Callers : pc[t] = "idle" /\ cur[t] = Nobody
  BY DEF Init
<1>2. rax \notin Calls /\ \A w \in Registers : regs[w] = Nobody /\ loaded[w] = Nobody
  BY RpcCallAssumption DEF Init, NoRegisters
<1>3. QED
  BY <1>1, <1>2, InitTurn DEF CallInv, MadeInv, Waiting

\* A step that neither answers nor begins a call.
LEMMA MadeSame == ASSUME UNCHANGED <<cur, answer>>, NEW c PROVE Made(c)' <=> Made(c)
BY DEF Made, Active

LEMMA CallMade ==
  ASSUME TakeTurns, CallInv, NEW t \in Callers, NEW c \in Calls, Call(t, c)
  PROVE  MadeInv'
<1>1. /\ pc' = [pc EXCEPT ![t] = "copy"] /\ cur' = [cur EXCEPT ![t] = c]
      /\ ~Made(c) /\ UNCHANGED <<running, regs, loaded, rax, spc, done, answer>>
      /\ \A u \in Callers : pc[u] = "idle"
  BY DEF Call, Goto
<1>2. /\ pc \in [Callers -> {"idle", "copy", "go", "poll", "clear", "rax"}]
      /\ cur \in [Callers -> Calls \cup {Nobody}]
      /\ \A u \in Callers : cur[u] = Nobody
  BY <1>1 DEF CallInv, TurnInv, TypeInv, TypeOK
<1>3. \A u \in Callers : /\ cur'[u] = IF u = t THEN c ELSE Nobody
                         /\ pc'[u] = IF u = t THEN "copy" ELSE "idle"
  BY <1>1, <1>2
<1>4. \A d : Made(d) /\ d # Nobody => Made(d)'
  BY <1>1, <1>2 DEF Made, Active
<1>5. answer[c] = Nobody /\ rax # c
  BY <1>1 DEF Made, CallInv, MadeInv
<1>6. rax' \in Calls => Made(rax)'
  BY <1>1, <1>4, RpcCallAssumption DEF CallInv, MadeInv
<1>7. \A w \in Registers : /\ regs'[w] # Nobody => Made(regs[w])'
                           /\ loaded'[w] # Nobody => Made(loaded[w])'
  BY <1>1, <1>4 DEF CallInv, MadeInv
<1>8. \A u \in Callers : cur'[u] # Nobody => answer'[cur'[u]] = Nobody
  BY <1>1, <1>3, <1>5
<1>9. \A u \in Callers : Waiting(u)' => rax' # cur'[u]
  BY <1>1, <1>3, <1>5 DEF Waiting
<1>10. QED
  BY <1>6, <1>7, <1>8, <1>9 DEF MadeInv

LEMMA RespondMade ==
  ASSUME CallInv, NEW t \in Callers, NEW v, pc[t] # "idle", Respond(t, v), v # Nobody
  PROVE  MadeInv'
<1>1. /\ pc' = [pc EXCEPT ![t] = "idle"] /\ cur' = [cur EXCEPT ![t] = Nobody]
      /\ answer' = [answer EXCEPT ![cur[t]] = v]
      /\ UNCHANGED <<running, regs, loaded, rax>>
  BY DEF Respond, Goto
<1>2. /\ pc \in [Callers -> {"idle", "copy", "go", "poll", "clear", "rax"}]
      /\ cur \in [Callers -> Calls \cup {Nobody}] /\ cur[t] \in Calls
      /\ answer \in [Calls -> Calls \cup {Nobody, Mixed, Zero}]
  BY DEF CallInv, TurnInv, TypeInv, TypeOK
<1>3. \A u \in Callers : cur'[u] = Nobody /\ pc'[u] = "idle"
  BY <1>1, <1>2 DEF CallInv, TurnInv, TypeInv, TypeOK
<1>4. \A d \in Calls : Made(d) => Made(d)'
  <2>1. ASSUME NEW d \in Calls, Made(d) PROVE answer'[d] # Nobody
    <3>1. CASE d = cur[t]
      BY <1>1, <1>2, <3>1
    <3>2. CASE d # cur[t]
      <4>1. ~Active(d)
        BY <3>2, RpcCallAssumption DEF Active, CallInv, TurnInv, TypeInv, TypeOK
      <4>2. QED
        BY <1>1, <1>2, <2>1, <3>2, <4>1 DEF Made
    <3>3. QED
      BY <3>1, <3>2
  <2>2. QED
    BY <2>1 DEF Made
<1>5. \A w \in Registers : regs[w] \in Calls \cup {Nobody} /\ loaded[w] \in Calls \cup {Nobody}
  BY DEF CallInv, TurnInv, TypeInv, TypeOK
<1>6. /\ rax' \in Calls => Made(rax)'
      /\ \A w \in Registers : /\ regs'[w] # Nobody => Made(regs[w])'
                              /\ loaded'[w] # Nobody => Made(loaded[w])'
  BY <1>1, <1>4, <1>5 DEF CallInv, MadeInv
<1>7. \A u \in Callers : cur'[u] = Nobody /\ ~Waiting(u)'
  BY <1>3 DEF Waiting
<1>8. QED
  BY <1>6, <1>7 DEF MadeInv

LEMMA CallerMade ==
  ASSUME CallInv, NEW t \in Callers, CallerStep(t) PROVE MadeInv'
<1>1. /\ pc \in [Callers -> {"idle", "copy", "go", "poll", "clear", "rax"}]
      /\ regs \in [Registers -> Calls \cup {Nobody}] /\ copied[t] \in 0..Words
      /\ cur \in [Callers -> Calls \cup {Nobody}] /\ Words \in Nat
  BY RpcCallAssumption DEF CallInv, TurnInv, TypeInv, TypeOK
<1>2. CASE Copy(t)
  <2>1. /\ regs' = [regs EXCEPT ![copied[t] + 1] = cur[t]]
        /\ pc' = [pc EXCEPT ![t] = IF copied[t] + 1 = Words THEN "go" ELSE "copy"]
        /\ UNCHANGED <<running, done, rax, spc, loaded, cur, answer>> /\ pc[t] = "copy"
    BY <1>2 DEF Copy, Goto
  <2>2. Made(cur[t])
    BY DEF Made, Active
  <2>3. \A w \in Registers : regs'[w] # Nobody => Made(regs'[w])
    BY <1>1, <2>1, <2>2 DEF CallInv, MadeInv
  <2>4. \A u \in Callers : Waiting(u)' => Waiting(u)
    BY <1>1, <2>1 DEF Waiting
  <2>5. QED
    BY <2>1, <2>3, <2>4, MadeSame DEF CallInv, MadeInv
<1>3. CASE Trigger(t)
  <2>1. UNCHANGED <<running, regs, rax, loaded, cur, answer>>
    BY <1>3 DEF Trigger
  <2>2. \A u \in Callers : Waiting(u)' => Waiting(u)
    BY <1>1, <1>3 DEF Trigger, Goto, Waiting
  <2>3. QED
    BY <2>1, <2>2, MadeSame DEF CallInv, MadeInv
<1>4. CASE Poll(t)
  <2>1. UNCHANGED <<running, regs, rax, loaded, cur, answer>>
    BY <1>4 DEF Poll
  <2>2. \A u \in Callers : Waiting(u)' => Waiting(u)
    BY <1>1, <1>4 DEF Poll, Goto, Waiting
  <2>3. QED
    BY <2>1, <2>2, MadeSame DEF CallInv, MadeInv
<1>5. CASE Clear(t)
  <2>1. UNCHANGED <<running, regs, rax, loaded, cur, answer>>
    BY <1>5 DEF Clear
  <2>2. \A u \in Callers : ~Waiting(u)'
    BY <1>1, <1>5 DEF Clear, Goto, Waiting, CallInv, TurnInv
  <2>3. QED
    BY <2>1, <2>2, MadeSame DEF CallInv, MadeInv
<1>6. CASE ReadRax(t)
  <2>1. rax = cur[t] /\ cur[t] # Nobody
    BY <1>6 DEF ReadRax, CallInv, TurnInv, PolledUntilDone, TypeInv, TypeOK
  <2>2. QED
    BY <1>6, <2>1, RespondMade DEF ReadRax
<1>7. CASE Fail(t)
  BY <1>7, RespondMade, RpcCallAssumption DEF Fail
<1>8. QED
  BY <1>2, <1>3, <1>4, <1>5, <1>6, <1>7 DEF CallerStep

LEMMA StubMade == ASSUME CallInv, StubStep PROVE MadeInv'
<1>1. /\ running /\ UNCHANGED <<running, regs, pc, cur, answer>>
      /\ loaded \in [Registers -> Calls \cup {Nobody}] /\ 1 \in Registers
  BY RpcCallAssumption
     DEF StubStep, Check, Load, Enter, Return, Ungo, Done, Wake, AtStub,
         CallInv, TurnInv, TypeInv, TypeOK
<1>2. \A w \in Registers : loaded'[w] \in {Nobody, loaded[w], regs[w]}
  BY <1>1
     DEF StubStep, Check, NoRegisters, Load, Enter, Return, Ungo, Done, Wake
<1>3. \A w \in Registers : loaded'[w] # Nobody => Made(loaded'[w])
  BY <1>1, <1>2 DEF CallInv, MadeInv
<1>4. CASE Return
  <2>1. rax' \in Calls => Made(rax')
    BY <1>1, <1>4, RpcCallAssumption DEF Return, CallOf, CallInv, MadeInv
  <2>2. \A u \in Callers : ~Waiting(u)'
    BY <1>1, <1>4 DEF Return, AtStub, Waiting, CallInv, TurnInv, Stage, Untouched, Resting
  <2>3. QED
    BY <1>1, <1>3, <2>1, <2>2, MadeSame DEF CallInv, MadeInv
<1>5. CASE ~Return
  <2>1. UNCHANGED rax
    BY <1>5 DEF StubStep, Check, Load, Enter, Ungo, Done, Wake
  <2>2. \A u \in Callers : Waiting(u)' => Waiting(u)
    BY <1>1, <1>5 DEF StubStep, Check, Load, Enter, Ungo, Done, Wake, AtStub, Waiting
  <2>3. QED
    BY <1>1, <1>3, <2>1, <2>2, MadeSame DEF CallInv, MadeInv
<1>6. QED
  BY <1>4, <1>5

LEMMA StepCall == ASSUME TakeTurns PROVE CallInv /\ [Next]_vars => CallInv'
<1> SUFFICES ASSUME CallInv, [Next]_vars PROVE CallInv'
  OBVIOUS
<1>1. TurnInv'
  BY StepTurn DEF CallInv
<1>2. ASSUME NEW t \in Callers, NEW c \in Calls, Call(t, c) PROVE CallInv'
  BY <1>1, <1>2, CallMade DEF CallInv
<1>3. ASSUME NEW t \in Callers, CallerStep(t) PROVE CallInv'
  BY <1>1, <1>3, CallerMade DEF CallInv
<1>4. CASE StubStep
  BY <1>1, <1>4, StubMade DEF CallInv
<1>5. CASE End \/ Stop \/ Resume \/ UNCHANGED vars
  <2>1. UNCHANGED <<header, stub, caller>> /\ (running' => running)
    BY <1>5 DEF End, Stop, Resume, vars
  <2>2. QED
    BY <1>1, <2>1 DEF CallInv, MadeInv, Made, Active, Waiting
<1>6. QED
  BY <1>2, <1>3, <1>4, <1>5 DEF Next

-----------------------------------------------------------------------------
\* How each step of RpcCall appears to the callers.
LEMMA InitPromise == Init => Promise!Init
<1> SUFFICES ASSUME Init PROVE Promise!Init
  OBVIOUS
<1>1. \A c \in Calls : answer[c] = Nobody /\ Nobody # Zero /\ ~Active(c)
  BY RpcCallAssumption DEF Init, Active
<1>2. Inside = Nobody
  BY DEF Init, Inside
<1>3. QED
  BY <1>1, <1>2 DEF Promise!Init, Status

\* Callers see only answers, rax, and the function being executed.
LEMMA Unseen ==
  ASSUME UNCHANGED <<rax, cur, answer>>, UNCHANGED Inside
  PROVE  UNCHANGED Promise!promise
BY DEF Promise!promise, Status, Progress, Active

LEMMA CallPromise ==
  ASSUME CallInv, TakeTurns, NEW t \in Callers, NEW c \in Calls, Call(t, c)
  PROVE  Promise!Ask(c)
<1>1. /\ cur' = [cur EXCEPT ![t] = c] /\ ~Made(c)
      /\ UNCHANGED <<rax, spc, loaded, answer>>
      /\ \A u \in Callers : pc[u] = "idle"
  BY DEF Call
<1>2. \A u \in Callers : cur[u] = Nobody /\ cur'[u] = IF u = t THEN c ELSE Nobody
  BY <1>1 DEF CallInv, TurnInv, TypeInv, TypeOK
<1>3. \A d \in Calls : ~Active(d) /\ (Active(d)' <=> d = c)
  BY <1>2, RpcCallAssumption DEF Active
<1>4. answer[c] = Nobody /\ rax # c /\ Inside # c /\ 1 \in Registers
  BY <1>1, RpcCallAssumption DEF Made, Inside, CallOf, CallInv, MadeInv
<1>5. UNCHANGED Inside
  BY <1>1 DEF Inside, CallOf
<1>6. Status[c] = "new" /\ Status' = [Status EXCEPT ![c] = "asked"]
  BY <1>1, <1>3, <1>4, <1>5, RpcCallAssumption DEF Status, Progress
<1>7. QED
  BY <1>5, <1>6 DEF Promise!Ask, Promise!Move

LEMMA RespondPromise ==
  ASSUME CallInv, NEW t \in Callers, NEW v \in {Zero, cur[t]}, pc[t] # "idle",
         Respond(t, v), v = cur[t] => rax = cur[t]
  PROVE  Promise!Next
<1> DEFINE c == cur[t]
<1>1. /\ cur' = [cur EXCEPT ![t] = Nobody] /\ answer' = [answer EXCEPT ![c] = v]
      /\ UNCHANGED <<rax, spc, loaded>>
  BY DEF Respond
<1>2. /\ c \in Calls /\ answer[c] = Nobody /\ c # Nobody /\ c # Zero
      /\ cur \in [Callers -> Calls \cup {Nobody}]
      /\ answer \in [Calls -> Calls \cup {Nobody, Mixed, Zero}]
      /\ \A u \in Callers : u # t => cur[u] = Nobody
  BY RpcCallAssumption DEF CallInv, TurnInv, TypeInv, TypeOK, MadeInv
<1>3. \A d \in Calls : (Active(d) <=> d = c) /\ ~Active(d)'
  BY <1>1, <1>2, RpcCallAssumption DEF Active
<1>4. UNCHANGED Inside
  BY <1>1 DEF Inside, CallOf
<1>5. Status[c] = Progress(c) /\ \A d \in Calls : d # c => Status'[d] = Status[d]
  BY <1>1, <1>2, <1>3, RpcCallAssumption DEF Status
<1>6. Status'[c] = IF v = Zero THEN "failed" ELSE "answered"
  BY <1>1, <1>2, RpcCallAssumption DEF Status
<1>7. Status' = [Status EXCEPT ![c] = IF v = Zero THEN "failed" ELSE "answered"]
  BY <1>5, <1>6 DEF Status
<1>8. CASE v = Zero
  <2>1. Promise!Fail(c)
    BY <1>4, <1>5, <1>7, <1>8 DEF Promise!Fail, Promise!Move, Progress
  <2>2. QED
    BY <1>2, <2>1 DEF Promise!Next
<1>9. CASE v # Zero
  <2>1. Promise!Answer(c)
    BY <1>4, <1>5, <1>7, <1>9 DEF Promise!Answer, Promise!Move, Progress
  <2>2. QED
    BY <1>2, <2>1 DEF Promise!Next
<1>10. QED
  BY <1>8, <1>9

LEMMA CallerPromise ==
  ASSUME CallInv, NEW t \in Callers, CallerStep(t)
  PROVE  Promise!Next \/ UNCHANGED Promise!promise
<1>1. CASE Copy(t) \/ Trigger(t) \/ Poll(t) \/ Clear(t)
  <2>1. UNCHANGED <<rax, spc, loaded, cur, answer>>
    BY <1>1 DEF Copy, Trigger, Poll, Clear
  <2>2. UNCHANGED Inside
    BY <2>1 DEF Inside, CallOf
  <2>3. QED
    BY <2>1, <2>2, Unseen
<1>2. CASE ReadRax(t)
  <2>1. pc[t] # "idle" /\ rax = cur[t] /\ Respond(t, rax)
    BY <1>2 DEF ReadRax, CallInv, TurnInv, PolledUntilDone
  <2>2. QED
    BY <2>1, RespondPromise
<1>3. CASE Fail(t)
  <2>1. pc[t] # "idle" /\ Respond(t, Zero) /\ Zero # cur[t]
    BY <1>3, RpcCallAssumption DEF Fail, CallInv, TurnInv, TypeInv, TypeOK
  <2>2. QED
    BY <2>1, RespondPromise
<1>4. QED
  BY <1>1, <1>2, <1>3 DEF CallerStep

\* A stub that enters or leaves the function works for the waiting caller.
LEMMA StubServes ==
  ASSUME CallInv, running, spc \in {"call", "inside"}
  PROVE  \E t \in Callers : /\ pc[t] = "poll" /\ AllOf(loaded, cur[t])
                            /\ rax # cur[t] /\ cur[t] \in Calls
                            /\ answer[cur[t]] = Nobody
                            /\ \A u \in Callers : u # t => cur[u] = Nobody
<1>1. PICK t \in Callers : pc[t] # "idle"
  BY DEF CallInv, TurnInv, Untouched, Resting
<1>2. /\ pc[t] \in {"copy", "go", "poll", "clear", "rax"} /\ Stage(t)
      /\ cur[t] \in Calls /\ cur[t] # Nobody /\ answer[cur[t]] = Nobody
      /\ \A u \in Callers : u # t => cur[u] = Nobody
  BY <1>1, RpcCallAssumption DEF CallInv, TurnInv, TypeInv, TypeOK, MadeInv
<1>3. pc[t] = "poll" /\ AllOf(loaded, cur[t]) /\ ~done
  BY <1>2 DEF Stage, Untouched, Resting, Pending, Unreported, Finished
<1>4. Waiting(t)
  BY <1>3 DEF Waiting
<1>5. rax # cur[t]
  BY <1>4 DEF CallInv, MadeInv
<1>6. QED
  BY <1>2, <1>3, <1>5

LEMMA StubPromise ==
  ASSUME CallInv, StubStep PROVE Promise!Next \/ UNCHANGED Promise!promise
<1>1. /\ running /\ UNCHANGED <<cur, answer>>
      /\ 1 \in Registers
  BY RpcCallAssumption
     DEF StubStep, Check, Load, Enter, Return, Ungo, Done, Wake, AtStub
<1>2. CASE Check \/ Load \/ Ungo \/ Done \/ Wake
  <2>1. UNCHANGED rax /\ spc # "inside" /\ spc' # "inside"
    BY <1>2 DEF Check, Load, Ungo, Done, Wake, AtStub
  <2>2. QED
    BY <1>1, <2>1, Unseen DEF Inside
<1>3. CASE Enter
  <2>1. spc = "call" /\ spc' = "inside" /\ UNCHANGED <<rax, loaded>>
    BY <1>3 DEF Enter, AtStub
  <2>2. PICK t \in Callers :
          /\ AllOf(loaded, cur[t]) /\ rax # cur[t] /\ cur[t] \in Calls
          /\ answer[cur[t]] = Nobody /\ \A u \in Callers : u # t => cur[u] = Nobody
    BY <1>1, <2>1, StubServes
  <2> DEFINE c == cur[t]
  <2>3. Inside = Nobody /\ Inside' = c
    BY <1>1, <2>1, <2>2 DEF Inside, CallOf, AllOf
  <2>4. \A d \in Calls : (Active(d) <=> d = c) /\ (Active(d)' <=> d = c)
    BY <1>1, <2>2, RpcCallAssumption DEF Active
  <2>5. Status[c] = "asked" /\ Status' = [Status EXCEPT ![c] = "entered"]
    BY <1>1, <2>1, <2>2, <2>3, <2>4, RpcCallAssumption DEF Status, Progress
  <2>6. Promise!Enter(c)
    BY <2>3, <2>5 DEF Promise!Enter, Promise!Move
  <2>7. QED
    BY <2>2, <2>6 DEF Promise!Next
<1>4. CASE Return
  <2>1. spc = "inside" /\ spc' # "inside" /\ rax' = CallOf(loaded)
    BY <1>4 DEF Return, AtStub
  <2>2. PICK t \in Callers :
          /\ AllOf(loaded, cur[t]) /\ rax # cur[t] /\ cur[t] \in Calls
          /\ answer[cur[t]] = Nobody /\ \A u \in Callers : u # t => cur[u] = Nobody
    BY <1>1, <2>1, StubServes
  <2> DEFINE c == cur[t]
  <2>3. Inside = c /\ Inside' = Nobody /\ rax' = c
    BY <1>1, <2>1, <2>2 DEF Inside, CallOf, AllOf
  <2>4. \A d \in Calls : (Active(d) <=> d = c) /\ (Active(d)' <=> d = c)
    BY <1>1, <2>2, RpcCallAssumption DEF Active
  <2>5. Status[c] = "entered" /\ Status' = [Status EXCEPT ![c] = "returned"]
    BY <1>1, <2>2, <2>3, <2>4, RpcCallAssumption DEF Status, Progress
  <2>6. Promise!Return(c)
    BY <2>3, <2>5 DEF Promise!Return, Promise!Move
  <2>7. QED
    BY <2>2, <2>6 DEF Promise!Next
<1>5. QED
  BY <1>2, <1>3, <1>4 DEF StubStep

LEMMA StepPromise ==
  ASSUME TakeTurns PROVE CallInv /\ [Next]_vars => [Promise!Next]_Promise!promise
<1> SUFFICES ASSUME CallInv, [Next]_vars
             PROVE  Promise!Next \/ UNCHANGED Promise!promise
  OBVIOUS
<1>1. ASSUME NEW t \in Callers, NEW c \in Calls, Call(t, c) PROVE Promise!Next
  BY <1>1, CallPromise DEF Promise!Next
<1>2. ASSUME NEW t \in Callers, CallerStep(t)
      PROVE  Promise!Next \/ UNCHANGED Promise!promise
  BY <1>2, CallerPromise
<1>3. CASE StubStep
  BY <1>3, StubPromise
<1>4. CASE End \/ Stop \/ Resume \/ UNCHANGED vars
  <2>1. UNCHANGED <<rax, cur, answer, spc, loaded>>
    BY <1>4 DEF End, Stop, Resume, vars
  <2>2. UNCHANGED Inside
    BY <2>1 DEF Inside, CallOf
  <2>3. QED
    BY <2>1, <2>2, Unseen
<1>5. QED
  BY <1>1, <1>2, <1>3, <1>4 DEF Next

\* When callers take turns, the shared header implements an atomic call: a
\* function is entered at most once, with the registers of one call that has
\* asked for it, and answered after it has returned.
THEOREM CallsImplementPromise == ASSUME TakeTurns PROVE SafeSpec => CallsAreAtomic
<1>1. SafeSpec => []CallInv
  BY InitCall, StepCall, PTL DEF SafeSpec
<1>2. QED
  BY InitPromise, StepPromise, <1>1, PTL DEF SafeSpec, CallsAreAtomic, Promise!Spec

=============================================================================
