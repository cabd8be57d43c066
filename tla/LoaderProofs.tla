---------------------------- MODULE LoaderProofs ----------------------------
(***************************************************************************)
(* What Loader promises for any number of requests and for every image:     *)
(* nothing temporary is left behind, and no thread loses its code.          *)
(***************************************************************************)
EXTENDS Loader, FiniteSetTheorems, TLAPS

USE DEF server, loader, image

ServerStages == {"idle", "code", "write", "protect", "loader", "stack", "rpcldr",
                 "find", "fields", "spawn", "poll", "free", "freeStack", "returned"}
LoaderStages == {"none", "setup", "create", "report", "leave", "exited"}

StageType ==
  /\ kpc \in [Jobs -> ServerStages] /\ lpc \in [Jobs -> LoaderStages]
  /\ ldrdone \in [Jobs -> BOOLEAN]
  /\ started \in [Jobs -> {"no", "yes", "refused"}]

\* The handler waits in its poll loop from the moment the loader runs until
\* ldrdone is set or the process is gone.
Paired(j) ==
  /\ ldrdone[j] => lpc[j] \in {"leave", "exited"}
  /\ lpc[j] # "none" => kpc[j] \in {"poll", "free", "freeStack", "returned"}
  /\ running /\ lpc[j] \in {"setup", "create", "report"} => kpc[j] = "poll"
  /\ started[j] = "yes" => lpc[j] # "none"

\* What is mapped at each stage of the handler.
Memory(j) ==
  /\ kpc[j] \in {"idle", "code", "write", "protect", "loader", "returned"} =>
       <<j, "loader">> \notin mapped /\ <<j, "stack">> \notin mapped
  /\ kpc[j] = "stack" => <<j, "loader">> \in mapped /\ <<j, "stack">> \notin mapped
  /\ kpc[j] = "freeStack" => <<j, "loader">> \notin mapped
  /\ kpc[j] \in {"rpcldr", "find", "fields", "spawn", "poll"} => InPlace(j)
  /\ kpc[j] \notin {"idle", "code", "returned"} => <<j, "code">> \in mapped
  /\ lpc[j] # "none" => <<j, "code">> \in mapped

JobInv(j) == Paired(j) /\ Memory(j)
LoadInv == StageType /\ \A j \in Jobs : JobInv(j)

USE DEF JobInv, Paired, Memory, InPlace

LEMMA InitHolds == Init => LoadInv
<1> SUFFICES ASSUME Init PROVE LoadInv
  OBVIOUS
<1>1. StageType
  BY DEF Init, StageType, ServerStages, LoaderStages
<1>2. \A j \in Jobs : JobInv(j)
  BY DEF Init
<1>3. QED
  BY <1>1, <1>2 DEF LoadInv

\* A step of one request does not touch the fields of another.
Others(k) ==
  /\ running' = running
  /\ \A j \in Jobs \ {k} :
       /\ kpc'[j] = kpc[j] /\ lpc'[j] = lpc[j]
       /\ ldrdone'[j] = ldrdone[j] /\ started'[j] = started[j]
       /\ \A reg \in Regions : <<j, reg>> \in mapped' <=> <<j, reg>> \in mapped

LEMMA OthersKeep ==
  ASSUME NEW k \in Jobs, \A j \in Jobs : JobInv(j), Others(k), JobInv(k)'
  PROVE  \A j \in Jobs : JobInv(j)'
<1> SUFFICES ASSUME NEW j \in Jobs \ {k} PROVE JobInv(j)'
  OBVIOUS
<1>1. /\ kpc'[j] = kpc[j] /\ lpc'[j] = lpc[j] /\ running' = running
      /\ ldrdone'[j] = ldrdone[j] /\ started'[j] = started[j]
  BY DEF Others
<1>2. /\ <<j, "code">> \in mapped' <=> <<j, "code">> \in mapped
      /\ <<j, "loader">> \in mapped' <=> <<j, "loader">> \in mapped
      /\ <<j, "stack">> \in mapped' <=> <<j, "stack">> \in mapped
  BY DEF Others, Regions
<1>3. JobInv(j)
  OBVIOUS
<1>4. QED
  BY <1>1, <1>2, <1>3

LEMMA ServeKeeps ==
  ASSUME LoadInv, NEW j \in Jobs, Serve(j)
  PROVE  StageType' /\ Others(j) /\ JobInv(j)'
<1> USE DEF StageType, ServerStages, LoaderStages, Others, Regions,
            At, Goto, Return, Abandon
<1>0. StageType /\ JobInv(j)
  BY DEF LoadInv
<1>1. CASE AllocateCode(j)
  BY <1>0, <1>1 DEF AllocateCode, Allocate
<1>2. CASE WriteCode(j)
  BY <1>0, <1>2 DEF WriteCode
<1>3. CASE Unprotect(j)
  BY <1>0, <1>3 DEF Unprotect
<1>4. CASE AllocateLoader(j)
  BY <1>0, <1>4 DEF AllocateLoader, Allocate
<1>5. CASE AllocateStack(j)
  BY <1>0, <1>5 DEF AllocateStack, Allocate
<1>6. CASE Write(j, "rpcldr", "find")
  BY <1>0, <1>6 DEF Write
<1>7. CASE FindLibkernel(j)
  BY <1>0, <1>7 DEF FindLibkernel
<1>8. CASE Write(j, "fields", "spawn")
  BY <1>0, <1>8 DEF Write
<1>9. CASE Spawn(j)
  BY <1>0, <1>9 DEF Spawn
<1>10. CASE Poll(j)
  BY <1>0, <1>10 DEF Poll
<1>11. CASE FreeLoader(j)
  BY <1>0, <1>11 DEF FreeLoader, Deallocate
<1>12. CASE FreeStack(j)
  BY <1>0, <1>12 DEF FreeStack, Deallocate
<1>13. QED
  BY <1>1, <1>2, <1>3, <1>4, <1>5, <1>6, <1>7, <1>8, <1>9, <1>10, <1>11, <1>12
     DEF Serve

LEMMA RequestKeeps ==
  ASSUME LoadInv, NEW j \in Jobs, NEW e, Request(j, e)
  PROVE  StageType' /\ Others(j) /\ JobInv(j)'
BY DEF LoadInv, StageType, ServerStages, Others, Regions, At, Goto, Request

LEMMA ThreadKeeps ==
  ASSUME LoadInv, NEW j \in Jobs, Setup(j) \/ Create(j) \/ Report(j) \/ Leave(j)
  PROVE  StageType' /\ Others(j) /\ JobInv(j)'
<1> USE DEF StageType, ServerStages, LoaderStages, Others, Regions,
            LoaderAt, LoaderGoto
<1>0. StageType /\ JobInv(j)
  BY DEF LoadInv
<1>1. CASE Setup(j)
  BY <1>0, <1>1 DEF Setup
<1>2. CASE Create(j)
  BY <1>0, <1>2 DEF Create
<1>3. CASE Report(j)
  BY <1>0, <1>3 DEF Report
<1>4. CASE Leave(j)
  BY <1>0, <1>4 DEF Leave
<1>5. QED
  BY <1>1, <1>2, <1>3, <1>4

\* The end of the process leaves everything else alone.
LEMMA EndKeeps ==
  ASSUME LoadInv, running' = FALSE, UNCHANGED <<mapped, server, loader>>
  PROVE  LoadInv'
<1>1. StageType'
  BY DEF LoadInv, StageType
<1>2. ASSUME NEW j \in Jobs PROVE JobInv(j)'
  BY DEF LoadInv
<1>3. QED
  BY <1>1, <1>2 DEF LoadInv

LEMMA StepKeeps == LoadInv /\ [Next]_vars => LoadInv'
<1> SUFFICES ASSUME LoadInv, [Next]_vars PROVE LoadInv'
  OBVIOUS
<1>1. ASSUME NEW j \in Jobs, StageType', Others(j), JobInv(j)' PROVE LoadInv'
  <2>1. \A k \in Jobs : JobInv(k)
    BY DEF LoadInv
  <2>2. \A k \in Jobs : JobInv(k)'
    BY <1>1, <2>1, OthersKeep
  <2>3. QED
    BY <1>1, <2>2 DEF LoadInv
<1>2. ASSUME NEW j \in Jobs, NEW e \in Elfs \cup {Stub}, Request(j, e) PROVE LoadInv'
  BY <1>1, <1>2, RequestKeeps
<1>3. ASSUME NEW j \in Jobs, Serve(j) PROVE LoadInv'
  BY <1>1, <1>3, ServeKeeps
<1>4. ASSUME NEW j \in Jobs, Load(j) PROVE LoadInv'
  <2>1. CASE Fault(j)
    BY <2>1, EndKeeps DEF Fault
  <2>2. CASE Setup(j) \/ Create(j) \/ Report(j) \/ Leave(j)
    BY <1>1, <2>2, ThreadKeeps
  <2>3. QED
    BY <1>4, <2>1, <2>2 DEF Load
<1>5. CASE End
  BY <1>5, EndKeeps DEF End
<1>6. CASE UNCHANGED vars
  <2>1. StageType'
    BY <1>6 DEF LoadInv, StageType, vars
  <2>2. ASSUME NEW j \in Jobs PROVE JobInv(j)'
    BY <1>6 DEF LoadInv, vars
  <2>3. QED
    BY <2>1, <2>2 DEF LoadInv
<1>7. QED
  BY <1>2, <1>3, <1>4, <1>5, <1>6 DEF Next

LEMMA LoadInvariant == SafeSpec => []LoadInv
<1>1. Init => LoadInv
  BY InitHolds
<1>2. LoadInv /\ [Next]_vars => LoadInv'
  BY StepKeeps
<1>3. QED
  BY <1>1, <1>2, PTL DEF SafeSpec

-----------------------------------------------------------------------------
\* proc_create_thread leaves neither its loader nor its stack behind, on any
\* of its paths.
THEOREM NothingTemporaryStays == Spec => []TemporariesFreed
<1>1. LoadInv => TemporariesFreed
  BY DEF LoadInv, TemporariesFreed
<1>2. QED
  BY <1>1, LoadInvariant, PTL DEF Spec

\* A loader keeps its code and stack until it has set ldrdone, and a thread it
\* has started keeps the image for good.
THEOREM ThreadsKeepTheirCode == Spec => []CodeStays
<1>1. LoadInv => CodeStays
  BY DEF LoadInv, CodeStays
<1>2. QED
  BY <1>1, LoadInvariant, PTL DEF Spec

-----------------------------------------------------------------------------
(* What success means                                                       *)

\* A loader that has come to its report has called scePthreadCreate; so has the
\* loader of a handler that is about to return, or has returned, r = 0.
Earned(j) ==
  /\ lpc[j] \in {"report", "leave", "exited"} => started[j] # "no"
  /\ kpc[j] \in {"free", "freeStack"} /\ r[j] = 0 /\ known => started[j] # "no"
  /\ answer[j] = "success" /\ known => started[j] # "no"

AnswerType == r \in [Jobs -> 0..1] /\ answer \in [Jobs -> {"none", "success", "error"}]

EarnedInv == AnswerType /\ \A j \in Jobs : Earned(j)

\* A step for one request neither answers another nor moves its loader.
Apart(k) ==
  /\ known' = known
  /\ \A j \in Jobs \ {k} :
       /\ kpc'[j] = kpc[j] /\ lpc'[j] = lpc[j] /\ started'[j] = started[j]
       /\ r'[j] = r[j] /\ answer'[j] = answer[j]

LEMMA ServeEarns ==
  ASSUME LoadInv, EarnedInv, NEW j \in Jobs, Serve(j)
  PROVE  AnswerType' /\ Apart(j) /\ Earned(j)'
<1> USE DEF StageType, ServerStages, LoaderStages, AnswerType, Apart, Earned,
            At, Goto, Return, Abandon
<1>0. StageType /\ JobInv(j) /\ AnswerType /\ Earned(j)
  BY DEF LoadInv, EarnedInv
<1>1. CASE AllocateCode(j)
  BY <1>0, <1>1 DEF AllocateCode, Allocate
<1>2. CASE WriteCode(j)
  <2>1. CASE running
    <3>1. PICK l \in {"loader", "protect"} : Goto(j, l)
      BY <1>2, <2>1 DEF WriteCode
    <3>2. UNCHANGED <<known, lpc, started>>
      BY <1>2 DEF WriteCode
    <3>3. QED
      BY <1>0, <3>1, <3>2
  <2>2. CASE ~running
    <3>1. Return(j, 1) \/ Goto(j, "protect")
      BY <1>2, <2>2 DEF WriteCode
    <3>2. UNCHANGED <<known, lpc, started>>
      BY <1>2 DEF WriteCode
    <3>3. QED
      BY <1>0, <3>1, <3>2
  <2>3. QED
    BY <2>1, <2>2
<1>3. CASE Unprotect(j)
  BY <1>0, <1>3 DEF Unprotect
<1>4. CASE AllocateLoader(j)
  BY <1>0, <1>4 DEF AllocateLoader, Allocate
<1>5. CASE AllocateStack(j)
  BY <1>0, <1>5 DEF AllocateStack, Allocate
<1>6. CASE Write(j, "rpcldr", "find")
  BY <1>0, <1>6 DEF Write
<1>7. CASE FindLibkernel(j)
  BY <1>0, <1>7 DEF FindLibkernel
<1>8. CASE Write(j, "fields", "spawn")
  BY <1>0, <1>8 DEF Write
<1>9. CASE Spawn(j)
  BY <1>0, <1>9 DEF Spawn
<1>10. CASE Poll(j)
  BY <1>0, <1>10 DEF Poll
<1>11. CASE FreeLoader(j)
  BY <1>0, <1>11 DEF FreeLoader
<1>12. CASE FreeStack(j)
  BY <1>0, <1>12 DEF FreeStack
<1>13. QED
  BY <1>1, <1>2, <1>3, <1>4, <1>5, <1>6, <1>7, <1>8, <1>9, <1>10, <1>11, <1>12
     DEF Serve

LEMMA RequestEarns ==
  ASSUME LoadInv, EarnedInv, NEW j \in Jobs, NEW e, Request(j, e)
  PROVE  AnswerType' /\ Apart(j) /\ Earned(j)'
<1>1. StageType /\ AnswerType /\ Earned(j)
  BY DEF LoadInv, EarnedInv
<1>2. AnswerType'
  BY <1>1 DEF AnswerType, Request, Goto
<1>3. Apart(j)
  BY <1>1 DEF Apart, Request, Goto, StageType
<1>4. kpc'[j] = "code"
  BY <1>1 DEF StageType, Request, Goto
<1>5. UNCHANGED <<known, lpc, started, r, answer>>
  BY DEF Request, Goto
<1>6. Earned(j)'
  BY <1>1, <1>4, <1>5 DEF Earned
<1>7. QED
  BY <1>2, <1>3, <1>6

LEMMA ThreadEarns ==
  ASSUME LoadInv, EarnedInv, NEW j \in Jobs, Setup(j) \/ Create(j) \/ Report(j) \/ Leave(j)
  PROVE  AnswerType' /\ Apart(j) /\ Earned(j)'
<1> USE DEF StageType, ServerStages, LoaderStages, AnswerType, Apart, Earned,
            LoaderAt, LoaderGoto
<1>0. StageType /\ JobInv(j) /\ AnswerType /\ Earned(j)
  BY DEF LoadInv, EarnedInv
<1>1. CASE Setup(j)
  BY <1>0, <1>1 DEF Setup
<1>2. CASE Create(j)
  BY <1>0, <1>2 DEF Create
<1>3. CASE Report(j)
  BY <1>0, <1>3 DEF Report
<1>4. CASE Leave(j)
  BY <1>0, <1>4 DEF Leave
<1>5. QED
  BY <1>1, <1>2, <1>3, <1>4

LEMMA EarnedStep == LoadInv /\ EarnedInv /\ [Next]_vars => EarnedInv'
<1> SUFFICES ASSUME LoadInv, EarnedInv, [Next]_vars PROVE EarnedInv'
  OBVIOUS
<1>1. ASSUME NEW j \in Jobs, AnswerType', Apart(j), Earned(j)' PROVE EarnedInv'
  <2>1. ASSUME NEW k \in Jobs \ {j} PROVE Earned(k)'
    BY <1>1 DEF EarnedInv, Apart, Earned
  <2>2. QED
    BY <1>1, <2>1 DEF EarnedInv
<1>2. ASSUME UNCHANGED <<known, server, loader>> PROVE EarnedInv'
  <2>1. AnswerType'
    BY <1>2 DEF EarnedInv, AnswerType
  <2>2. ASSUME NEW j \in Jobs PROVE Earned(j)'
    BY <1>2 DEF EarnedInv, Earned
  <2>3. QED
    BY <2>1, <2>2 DEF EarnedInv
<1>3. ASSUME NEW j \in Jobs, NEW e \in Elfs \cup {Stub}, Request(j, e) PROVE EarnedInv'
  BY <1>1, <1>3, RequestEarns
<1>4. ASSUME NEW j \in Jobs, Serve(j) PROVE EarnedInv'
  BY <1>1, <1>4, ServeEarns
<1>5. ASSUME NEW j \in Jobs, Load(j) PROVE EarnedInv'
  <2>1. CASE Fault(j)
    BY <1>2, <2>1 DEF Fault
  <2>2. CASE Setup(j) \/ Create(j) \/ Report(j) \/ Leave(j)
    BY <1>1, <2>2, ThreadEarns
  <2>3. QED
    BY <1>5, <2>1, <2>2 DEF Load
<1>6. CASE End
  BY <1>2, <1>6 DEF End
<1>7. CASE UNCHANGED vars
  BY <1>2, <1>7 DEF vars
<1>8. QED
  BY <1>3, <1>4, <1>5, <1>6, <1>7 DEF Next

-----------------------------------------------------------------------------
(* What is written                                                          *)

\* A finite set of numbers that is not empty has a greatest one: the sets of
\* the numbers above a number are finite, and one of them is smallest.
LEMMA Greatest ==
  ASSUME NEW S, IsFiniteSet(S), S # {}, S \subseteq Nat
  PROVE  Max(S) \in S /\ \A x \in S : x <= Max(S)
<1> DEFINE Above(x) == {y \in S : y > x}
           Tops == {Above(x) : x \in S}
<1>1. IsWellFoundedOn(StrictSubsetOrdering(S), FiniteSubsetsOf(S))
  BY FS_StrictSubsetOrderingWellFounded
<1>2. Tops \subseteq FiniteSubsetsOf(S)
  <2>1. ASSUME NEW x \in S PROVE Above(x) \in FiniteSubsetsOf(S)
    <3>1. Above(x) \in SUBSET S
      OBVIOUS
    <3> QED
      BY <3>1, FS_FiniteSubsetsOfFinite
  <2> QED
    BY <2>1
<1>3. Tops # {}
  OBVIOUS
<1>4. PICK T \in Tops : \A U \in Tops : ~ (<<U, T>> \in StrictSubsetOrdering(S))
  BY <1>1, <1>2, <1>3, WFMin
<1>5. PICK x \in S : T = Above(x)
  BY <1>4
<1>6. \A y \in S : x >= y
  <2>1. SUFFICES ASSUME NEW y \in S, y > x PROVE FALSE
    OBVIOUS
  <2>2. Above(y) \subseteq Above(x) /\ y \in Above(x) /\ y \notin Above(y)
    <3>1. x \in Nat /\ y \in Nat /\ y > x
      BY <2>1
    <3>2. ~(y > y)
      BY <3>1
    <3>3. ASSUME NEW z \in S, z > y PROVE z > x
      BY <3>1, <3>3
    <3> QED
      BY <2>1, <3>1, <3>2, <3>3, Zenon
  <2>3. <<Above(y), Above(x)>> \in StrictSubsetOrdering(S)
    BY <2>2 DEF StrictSubsetOrdering
  <2> QED
    BY <1>4, <1>5, <2>3
<1>7. Max(S) \in S /\ \A y \in S : Max(S) >= y
  BY <1>6 DEF Max
<1> QED
  BY <1>7

\* The memory for an image holds every part of it.
LEMMA SizeCovers ==
  ASSUME NEW e, WellFormed(e)
  PROVE  /\ MappedSize(e) \in Nat
         /\ \A s \in e.parts : s.at + s.mem <= MappedSize(e)
<1> DEFINE E == {s.at + s.mem : s \in e.parts}
<1>1. IsFiniteSet(E)
  <2> DEFINE f == [s \in e.parts |-> s.at + s.mem]
  <2>1. f \in Surjection(e.parts, E)
    BY DEF Surjection
  <2> QED
    BY <2>1, FS_Surjection DEF WellFormed
<1>2. IsFiniteSet(E \cup {0})
  BY <1>1, FS_AddElement
<1>3. E \cup {0} \subseteq Nat
  BY DEF WellFormed
<1>4. E \cup {0} # {}
  OBVIOUS
<1>5. Max(E \cup {0}) \in E \cup {0} /\ \A x \in E \cup {0} : x <= Max(E \cup {0})
  BY <1>2, <1>3, <1>4, Greatest
<1>6. MappedSize(e) = Max(E \cup {0})
  BY DEF MappedSize
<1> QED
  BY <1>3, <1>5, <1>6

LEMMA PaddedIsMore ==
  ASSUME NEW n \in Nat PROVE Padded(n) \in Nat /\ n < Padded(n)
<1>1. n % Page \in 0 .. Page - 1
  BY LoaderAssumption
<1> QED
  BY <1>1, LoaderAssumption DEF Padded

\* It is a number of whole pages.
LEMMA PaddedIsWhole ==
  ASSUME NEW n \in Nat PROVE Padded(n) % Page = 0
<1> DEFINE q == n \div Page
<1>1. Page \in Nat /\ Page > 0
  BY LoaderAssumption
<1>2. q \in Nat /\ n = Page * q + (n % Page)
  BY <1>1
<1> HIDE DEF q
<1>3. Padded(n) = Page * (q + 1)
  BY <1>1, <1>2 DEF Padded
<1>4. \A k \in Nat : (Page * k) % Page = 0
  BY <1>1
<1> QED
  BY <1>2, <1>3, <1>4

\* What is written to an image that is well formed.
Bytes(e) == Copied(e) \cup Relocated(e)
Holds(e, n) == n \in Nat /\ n % Page = 0 /\ Bytes(e) \subseteq 0 .. n - 1

LEMMA BytesFit ==
  ASSUME NEW e \in Elfs \cup {Stub}
  PROVE  Holds(e, Padded(MappedSize(e)))
<1>1. WellFormed(e)
  BY LoaderAssumption
<1> DEFINE m == MappedSize(e)
<1>2. m \in Nat /\ \A s \in e.parts : s.at + s.mem <= m
  BY <1>1, SizeCovers
<1>3. Padded(m) \in Nat /\ m < Padded(m) /\ Padded(m) % Page = 0
  BY <1>2, PaddedIsMore, PaddedIsWhole
<1> HIDE DEF m
<1>4. ASSUME NEW s \in e.parts, NEW a \in s.at .. s.at + s.mem - 1
      PROVE  a \in 0 .. Padded(m) - 1
  <2>1. s.at \in Nat /\ s.mem \in Nat /\ s.at + s.mem <= m
    BY <1>1, <1>2 DEF WellFormed
  <2> QED
    BY <2>1, <1>2, <1>3
<1>5. Copied(e) \subseteq 0 .. Padded(m) - 1
  <2>1. SUFFICES ASSUME NEW s \in e.parts, NEW a \in s.at .. s.at + s.file - 1
                 PROVE  a \in 0 .. Padded(m) - 1
    BY DEF Copied
  <2>2. s.at \in Nat /\ s.mem \in Nat /\ s.file \in 0 .. s.mem
    BY <1>1 DEF WellFormed
  <2>3. a \in s.at .. s.at + s.mem - 1
    BY <2>2
  <2> QED
    BY <1>4, <2>3
<1>6. Relocated(e) \subseteq 0 .. Padded(m) - 1
  <2>1. SUFFICES ASSUME NEW b \in e.rels, NEW a \in b .. b + Pointer - 1
                 PROVE  a \in 0 .. Padded(m) - 1
    BY DEF Relocated
  <2>2. PICK s \in e.parts : s.at <= b /\ b + Pointer <= s.at + s.mem
    BY <1>1 DEF WellFormed
  <2>3. b \in Nat /\ s.at \in Nat /\ s.mem \in Nat /\ Pointer \in Nat
    BY <1>1, LoaderAssumption DEF WellFormed
  <2>4. a \in s.at .. s.at + s.mem - 1
    BY <2>2, <2>3
  <2> QED
    BY <1>4, <2>4
<1> QED
  BY <1>3, <1>5, <1>6 DEF Holds, Bytes, m

-----------------------------------------------------------------------------
(* Types, and where the code is written                                     *)

SpaceType ==
  /\ running \in BOOLEAN /\ known \in BOOLEAN /\ opened \in BOOLEAN
  /\ mapped \subseteq Jobs \X Regions
  /\ work \in [Jobs -> Elfs \cup {Stub}]
  /\ size \in [Jobs -> {n \in Nat : n % Page = 0}] /\ written \in [Jobs -> SUBSET Nat]

\* Nothing is written before memory for the whole image has been allocated.
Sized(j) ==
  /\ kpc[j] \in {"idle", "code"} => written[j] = {}
  /\ kpc[j] = "write" => Holds(work[j], size[j]) /\ written[j] = {}
  /\ written[j] \subseteq 0 .. size[j] - 1

SpaceInv == SpaceType /\ \A j \in Jobs : Sized(j)

LEMMA InitSpace == Init => SpaceInv
<1> SUFFICES ASSUME Init PROVE SpaceInv
  OBVIOUS
<1>0. 0 % Page = 0
  BY LoaderAssumption
<1>1. SpaceType
  BY <1>0 DEF Init, SpaceType
<1>2. \A j \in Jobs : Sized(j)
  BY DEF Init, Sized
<1> QED
  BY <1>1, <1>2 DEF SpaceInv

\* A step that leaves the images alone, and does not take a request back to the
\* time before its write.
Past(j) ==
  /\ UNCHANGED image
  /\ \A k \in Jobs \ {j} : kpc'[k] = kpc[k]
  /\ kpc'[j] = kpc[j] \/ kpc'[j] \notin {"idle", "code", "write"}

LEMMA PastKeeps ==
  ASSUME SpaceInv, NEW j \in Jobs, Past(j)
  PROVE  \A k \in Jobs : Sized(k)'
<1> SUFFICES ASSUME NEW k \in Jobs PROVE Sized(k)'
  OBVIOUS
<1>1. Sized(k)
  BY DEF SpaceInv
<1>2. UNCHANGED <<work, size, written>>
  BY DEF Past
<1>3. kpc'[k] = kpc[k] \/ kpc'[k] \notin {"idle", "code", "write"}
  BY DEF Past
<1>4. CASE kpc'[k] = kpc[k]
  BY <1>1, <1>2, <1>4 DEF Sized, Holds
<1>5. CASE kpc'[k] \notin {"idle", "code", "write"}
  BY <1>1, <1>2, <1>5 DEF Sized
<1> QED
  BY <1>3, <1>4, <1>5

\* proc_create_thread touches no image.
ThreadMade(j) ==
  \/ AllocateLoader(j) \/ AllocateStack(j)
  \/ Write(j, "rpcldr", "find") \/ FindLibkernel(j) \/ Write(j, "fields", "spawn")
  \/ Spawn(j) \/ Poll(j) \/ FreeLoader(j) \/ FreeStack(j)

LEMMA ThreadMadeIsPast ==
  ASSUME LoadInv, SpaceInv, NEW j \in Jobs, ThreadMade(j)
  PROVE  SpaceType' /\ Past(j)
<1> USE DEF SpaceType, StageType, ServerStages, Past, At, Goto, Return, Abandon, Regions
<1>0. SpaceType /\ StageType
  BY DEF LoadInv, SpaceInv
<1>1. CASE AllocateLoader(j)
  BY <1>0, <1>1 DEF AllocateLoader, Allocate
<1>2. CASE AllocateStack(j)
  BY <1>0, <1>2 DEF AllocateStack, Allocate
<1>3. CASE Write(j, "rpcldr", "find")
  BY <1>0, <1>3 DEF Write
<1>4. CASE FindLibkernel(j)
  BY <1>0, <1>4 DEF FindLibkernel
<1>5. CASE Write(j, "fields", "spawn")
  BY <1>0, <1>5 DEF Write
<1>6. CASE Spawn(j)
  BY <1>0, <1>6 DEF Spawn
<1>7. CASE Poll(j)
  BY <1>0, <1>7 DEF Poll
<1>8. CASE FreeLoader(j)
  BY <1>0, <1>8 DEF FreeLoader, Deallocate
<1>9. CASE FreeStack(j)
  BY <1>0, <1>9 DEF FreeStack, Deallocate
<1> QED
  BY <1>1, <1>2, <1>3, <1>4, <1>5, <1>6, <1>7, <1>8, <1>9 DEF ThreadMade

\* Nor does the loader, nor the end of the process.
LEMMA LoadIsPast ==
  ASSUME LoadInv, SpaceInv, NEW j \in Jobs, Load(j) \/ End \/ UNCHANGED vars
  PROVE  SpaceType' /\ Past(j)
<1>0. SpaceType
  BY DEF SpaceInv
<1>1. UNCHANGED <<known, mapped, image, server>> /\ (running' = running \/ running' = FALSE)
  BY DEF Load, Setup, Create, Report, Leave, Fault, End, vars
<1>2. SpaceType'
  BY <1>0, <1>1 DEF SpaceType
<1>3. Past(j)
  BY <1>1 DEF Past
<1> QED
  BY <1>2, <1>3

\* A step for request j leaves the image of every other alone.
ElsewhereAlone(j) ==
  \A k \in Jobs \ {j} :
    /\ kpc'[k] = kpc[k] /\ work'[k] = work[k]
    /\ size'[k] = size[k] /\ written'[k] = written[k]

LEMMA ElsewhereKeeps ==
  ASSUME SpaceInv, NEW j \in Jobs, ElsewhereAlone(j), Sized(j)'
  PROVE  \A k \in Jobs : Sized(k)'
<1> SUFFICES ASSUME NEW k \in Jobs \ {j} PROVE Sized(k)'
  OBVIOUS
<1>1. Sized(k)
  BY DEF SpaceInv
<1>2. /\ kpc'[k] = kpc[k] /\ work'[k] = work[k]
      /\ size'[k] = size[k] /\ written'[k] = written[k]
  BY DEF ElsewhereAlone
<1> QED
  BY <1>1, <1>2 DEF Sized, Holds

LEMMA RequestSizes ==
  ASSUME LoadInv, SpaceInv, NEW j \in Jobs, NEW e \in Elfs \cup {Stub}, Request(j, e)
  PROVE  SpaceType' /\ \A k \in Jobs : Sized(k)'
<1>0. SpaceType /\ StageType /\ Sized(j)
  BY DEF LoadInv, SpaceInv
<1>1. SpaceType'
  BY <1>0 DEF SpaceType, Request
<1>2. ElsewhereAlone(j)
  BY <1>0 DEF Request, Goto, ElsewhereAlone, SpaceType, StageType
<1>3. kpc[j] = "idle" /\ kpc'[j] = "code" /\ UNCHANGED <<size, written>>
  BY <1>0 DEF Request, At, Goto, StageType
<1>4. Sized(j)'
  BY <1>0, <1>3 DEF Sized
<1> QED
  BY <1>1, <1>2, <1>4, ElsewhereKeeps

\* elf_mapped_size, rounded up, is enough for what is written.
LEMMA AllocateCodeSizes ==
  ASSUME LoadInv, SpaceInv, NEW j \in Jobs, AllocateCode(j)
  PROVE  SpaceType' /\ \A k \in Jobs : Sized(k)'
<1> DEFINE n == Padded(MappedSize(work[j]))
<1>0. SpaceType /\ StageType /\ Sized(j)
  BY DEF LoadInv, SpaceInv
<1>1. Holds(work[j], n)
  BY <1>0, BytesFit DEF SpaceType
<1>2. n \in Nat /\ n % Page = 0
  BY <1>1 DEF Holds
<1>3. kpc[j] = "code" /\ UNCHANGED <<running, known, work, written, opened>>
  BY DEF AllocateCode, At
<1>4. CASE Allocate(j, "code", "write") /\ size' = [size EXCEPT ![j] = n]
  <2> HIDE DEF n
  <2>1. SpaceType'
    BY <1>0, <1>2, <1>3, <1>4 DEF SpaceType, Allocate, Regions
  <2>2. ElsewhereAlone(j)
    BY <1>0, <1>3, <1>4 DEF Allocate, Goto, ElsewhereAlone, SpaceType, StageType
  <2>3. kpc'[j] = "write" /\ size'[j] = n /\ work'[j] = work[j] /\ written'[j] = {}
    BY <1>0, <1>3, <1>4 DEF Allocate, Goto, SpaceType, StageType, Sized
  <2>4. Sized(j)'
    BY <1>1, <2>3 DEF Sized, Holds
  <2> QED
    BY <2>1, <2>2, <2>4, ElsewhereKeeps
<1>5. CASE Return(j, 1) /\ UNCHANGED <<mapped, size>>
  <2>1. SpaceType'
    BY <1>0, <1>3, <1>5 DEF SpaceType
  <2>2. Past(j)
    BY <1>0, <1>3, <1>5 DEF Past, Return, StageType
  <2> QED
    BY <2>1, <2>2, PastKeeps
<1> QED
  BY <1>4, <1>5 DEF AllocateCode

LEMMA WriteCodeSizes ==
  ASSUME LoadInv, SpaceInv, NEW j \in Jobs, WriteCode(j)
  PROVE  SpaceType' /\ \A k \in Jobs : Sized(k)'
<1> DEFINE w == Bytes(work[j])
<1>0. SpaceType /\ StageType /\ Sized(j)
  BY DEF LoadInv, SpaceInv
<1>1. kpc[j] = "write" /\ UNCHANGED <<running, known, mapped, work, size, opened>>
  BY DEF WriteCode, At
<1>2. w \subseteq 0 .. size[j] - 1 /\ size[j] \in Nat
  BY <1>0, <1>1 DEF Sized, Holds
<1>3. CASE running
  <2>1. written' = [written EXCEPT ![j] = w]
    BY <1>3 DEF WriteCode, Bytes
  <2>2. PICK l \in {"loader", "protect"} : Goto(j, l)
    BY <1>3 DEF WriteCode
  <2> HIDE DEF w
  <2>3. w \subseteq Nat
    BY <1>2
  <2>4. SpaceType'
    BY <1>0, <1>1, <2>1, <2>3 DEF SpaceType
  <2>5. ElsewhereAlone(j)
    BY <1>0, <1>1, <2>1, <2>2 DEF Goto, ElsewhereAlone, SpaceType, StageType
  <2>6. kpc'[j] = l /\ size'[j] = size[j] /\ written'[j] = w
    BY <1>0, <1>1, <2>1, <2>2 DEF Goto, SpaceType, StageType
  <2>7. Sized(j)'
    BY <1>2, <2>2, <2>6 DEF Sized
  <2> QED
    BY <2>4, <2>5, <2>7, ElsewhereKeeps
<1>4. CASE ~running
  <2>1. (Return(j, 1) \/ Goto(j, "protect")) /\ UNCHANGED written
    BY <1>4 DEF WriteCode
  <2>2. SpaceType'
    BY <1>0, <1>1, <2>1 DEF SpaceType
  <2>3. Past(j)
    BY <1>0, <1>1, <2>1 DEF Past, Return, Goto, StageType
  <2> QED
    BY <2>2, <2>3, PastKeeps
<1> QED
  BY <1>3, <1>4

LEMMA UnprotectSizes ==
  ASSUME LoadInv, SpaceInv, NEW j \in Jobs, Unprotect(j)
  PROVE  SpaceType' /\ \A k \in Jobs : Sized(k)'
<1>0. SpaceType /\ StageType /\ Sized(j)
  BY DEF LoadInv, SpaceInv
<1>1. SpaceType'
  BY <1>0 DEF SpaceType, Unprotect
<1>2. ElsewhereAlone(j)
  BY <1>0 DEF Unprotect, Goto, ElsewhereAlone, SpaceType, StageType
<1>3. kpc'[j] = "loader" /\ UNCHANGED <<size, written>>
  BY <1>0 DEF Unprotect, Goto, StageType
<1>4. Sized(j)'
  BY <1>0, <1>3 DEF Sized
<1> QED
  BY <1>1, <1>2, <1>4, ElsewhereKeeps

LEMMA SpaceStep == LoadInv /\ SpaceInv /\ [Next]_vars => SpaceInv'
<1> SUFFICES ASSUME LoadInv, SpaceInv, [Next]_vars PROVE SpaceInv'
  OBVIOUS
<1>1. ASSUME NEW j \in Jobs, NEW e \in Elfs \cup {Stub}, Request(j, e) PROVE SpaceInv'
  BY <1>1, RequestSizes DEF SpaceInv
<1>2. ASSUME NEW j \in Jobs, Serve(j) PROVE SpaceInv'
  <2>1. CASE AllocateCode(j)
    BY <2>1, AllocateCodeSizes DEF SpaceInv
  <2>2. CASE WriteCode(j)
    BY <2>2, WriteCodeSizes DEF SpaceInv
  <2>3. CASE Unprotect(j)
    BY <2>3, UnprotectSizes DEF SpaceInv
  <2>4. CASE ThreadMade(j)
    BY <2>4, ThreadMadeIsPast, PastKeeps DEF SpaceInv
  <2> QED
    BY <1>2, <2>1, <2>2, <2>3, <2>4 DEF Serve, ThreadMade
<1>3. ASSUME NEW j \in Jobs, Load(j) PROVE SpaceInv'
  BY <1>3, LoadIsPast, PastKeeps DEF SpaceInv
<1>4. CASE End \/ UNCHANGED vars
  <2>1. ASSUME NEW j \in Jobs PROVE Sized(j)'
    BY <1>4, <2>1, LoadIsPast, PastKeeps
  <2>2. SpaceType'
    BY <1>4 DEF SpaceInv, SpaceType, End, vars
  <2> QED
    BY <2>1, <2>2 DEF SpaceInv
<1> QED
  BY <1>1, <1>2, <1>3, <1>4 DEF Next

LEMMA SpaceInvariant == SafeSpec => []SpaceInv
<1>1. LoadInv /\ SpaceInv /\ [Next]_vars => SpaceInv'
  BY SpaceStep
<1> QED
  BY <1>1, InitSpace, LoadInvariant, PTL DEF SafeSpec

LEMMA EarnedInvariant == Spec => []EarnedInv
<1>1. Init => EarnedInv
  <2> SUFFICES ASSUME Init PROVE EarnedInv
    OBVIOUS
  <2>1. AnswerType
    BY DEF Init, AnswerType
  <2>2. \A j \in Jobs : Earned(j)
    BY DEF Init, Earned
  <2>3. QED
    BY <2>1, <2>2 DEF EarnedInv
<1>2. QED
  BY <1>1, EarnedStep, LoadInvariant, PTL DEF Spec, SafeSpec

\* A request answered with success has had its thread created, whatever fails and
\* however requests overlap, where the tables know the libkernel.
THEOREM SuccessIsEarned == Spec => []SuccessMeansLoaderRan
<1>1. EarnedInv => SuccessMeansLoaderRan
  BY DEF EarnedInv, Earned, SuccessMeansLoaderRan
<1>2. QED
  BY <1>1, EarnedInvariant, PTL

\* proc_map_elf, proc_relocate_elf and the write of the stub stay inside the
\* memory allocated for the image, for every image whose relocations are in its
\* parts, whatever its size.
THEOREM WritesStayInside == Spec => []WritesInside
<1>1. SpaceInv => WritesInside
  <2> SUFFICES ASSUME SpaceInv, NEW j \in Jobs, NEW a \in written[j]
               PROVE  a < size[j]
    BY DEF WritesInside
  <2>1. Sized(j) /\ size[j] \in Nat
    BY DEF SpaceInv, SpaceType
  <2> QED
    BY <2>1 DEF Sized
<1>2. QED
  BY <1>1, SpaceInvariant, PTL DEF Spec

\* Every field keeps its range, and the memory allocated for an image is whole
\* pages, for any number of requests and every image.
THEOREM LoaderTypes == Spec => []TypeOK
<1>1. LoadInv /\ EarnedInv /\ SpaceInv => TypeOK
  BY DEF LoadInv, EarnedInv, SpaceInv, StageType, ServerStages, LoaderStages,
         AnswerType, SpaceType, TypeOK
<1>2. QED
  BY <1>1, LoadInvariant, EarnedInvariant, SpaceInvariant, PTL DEF Spec

=============================================================================
