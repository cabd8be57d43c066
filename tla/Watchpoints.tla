---------------------------- MODULE Watchpoints ----------------------------
(***************************************************************************)
(* Hardware watchpoints of a debugging session: debug_watchpt_handle keeps  *)
(* the debug registers it wants in the client's context (watchdata), and    *)
(* copies them to every thread of the process, in four calls of the kernel  *)
(* between which threads come and go; debug_setdbregs_handle writes those   *)
(* of one thread; debug_cleanup ends the session.  The control register dr7 *)
(* is the set of its bits that are 1.                                       *)
(***************************************************************************)
EXTENDS Integers, SequencesExt

CONSTANTS
  MaxWatchpoints,  \* MAX_WATCHPOINTS
  ThreadIds,       \* threads the process may have
  Addrs, Null,
  Lengths,         \* DBREG_DR7_LEN_1 and so on
  BreakTypes,      \* DBREG_DR7_EXEC and so on
  Given,           \* registers a tool sends with CMD_DEBUG_SETDBREGS
  Tidy             \* a tool makes a new connection for each session

ASSUME WatchAssumption ==
  /\ MaxWatchpoints \in 1..4
  /\ Lengths \subseteq 0..3 /\ BreakTypes \subseteq {0, 1, 3}
  /\ Null \notin Addrs /\ Tidy \in BOOLEAN

Indices == 0 .. MaxWatchpoints - 1

\* The places of the bits that are 1 in a field of two bits.
Bits(x) == {b \in 0..1 : IF b = 0 THEN x % 2 = 1 ELSE x \div 2 = 1}
Shifted(bits, by) == {b + by : b \in bits}

\* The two bits of d at this place, as a number.
Field(d, by) == (IF by \in d THEN 1 ELSE 0) + (IF by + 1 \in d THEN 2 ELSE 0)

\* DBREG_DR7_LOCAL_ENABLE | DBREG_DR7_GLOBAL_ENABLE
Enable == 3

\* Variation: the length and type of the index are not cleared.
MaskEnable(i) == Shifted(Bits(3), i * 2)

\* DBREG_DR7_MASK and DBREG_DR7_SET
Mask(i) == Shifted(0..3, i * 4 + 16) \cup Shifted(0..1, i * 2)
SetBits(i, len, access, enable) ==
  Shifted(Shifted(Bits(len), 2) \cup Bits(access), i * 4 + 16) \cup
  Shifted(Bits(enable), i * 2)

Cleared == [dr |-> [i \in Indices |-> Null], dr7 |-> {}]

\* What a tool asks for: a watchpoint, or none at its index.
Off == [addr |-> Null, len |-> 0, type |-> 0, enabled |-> FALSE]
Asks ==
  {Off} \cup [addr : Addrs, len : Lengths, type : BreakTypes, enabled : {TRUE}]

\* What the processor does with index i of the registers d
\* (DBREG_DR7_LEN, DBREG_DR7_ACCESS, DBREG_DR7_ENABLED).
Watched(d, i) ==
  [addr |-> d.dr[i],
   len |-> Field(d.dr7, i * 4 + 18),
   type |-> Field(d.dr7, i * 4 + 16),
   enabled |-> Field(d.dr7, i * 2) # 0]

Registers ==
  [dr : [Indices -> Addrs \cup {Null}], dr7 : SUBSET (0 .. 4 * MaxWatchpoints + 15)]

ASSUME GivenAssumption == Given \subseteq Registers

NoRequest == [i |-> 0, ask |-> Off]

VARIABLES
  threads,    \* of the process, oldest first
  regs,       \* regs[t], the debug registers of t
  attached,
  watchdata,  \* of the context
  asked,      \* asked[i], what the session's tool last had recorded for i
  pc,         \* of the handler
  request,    \* [i, ask], the request it serves
  nlwps, lwpids, k,
  late,       \* threads created since PT_GETNUMLWPS
  answer

locals == <<request, nlwps, lwpids, k>>
handler == <<pc, answer, locals>>
vars == <<threads, regs, attached, watchdata, asked, late, handler>>

Init ==
  /\ \E t \in ThreadIds : threads = <<t>>
  /\ regs = [t \in ThreadIds |-> Cleared]
  /\ attached = FALSE /\ watchdata = Cleared
  /\ asked = [i \in Indices |-> Off]
  /\ pc = "idle" /\ request = NoRequest /\ nlwps = 0 /\ lwpids = <<>> /\ k = 1
  /\ late = {} /\ answer = "none"

Alive == ToSet(threads)

-----------------------------------------------------------------------------
(* The process                                                              *)

\* A new thread has no watchpoints; an identifier is used again only for one
\* that had none either.
Spawn(t) ==
  /\ t \notin Alive /\ regs[t] = Cleared
  /\ threads' = Append(threads, t)
  /\ late' = IF pc # "idle" \/ answer = "success" THEN late \cup {t} ELSE late
  /\ UNCHANGED <<regs, attached, watchdata, asked, handler>>

\* The thread at this place of the process's list ends.
Exit(m) ==
  /\ m \in DOMAIN threads /\ Len(threads) > 1
  /\ threads' = RemoveAt(threads, m)
  /\ UNCHANGED <<regs, attached, watchdata, asked, late, handler>>

-----------------------------------------------------------------------------
(* The session                                                              *)

\* start_server clears the context of a connection, not of a session.
Attach ==
  /\ ~attached /\ pc = "idle"
  /\ attached' = TRUE
  /\ \/ watchdata' = Cleared
     \/ ~Tidy /\ UNCHANGED watchdata
  /\ asked' = [i \in Indices |-> Off]
  /\ answer' = "other" /\ late' = {}
  /\ UNCHANGED <<threads, regs, pc, locals>>

\* PT_GETLWPLIST returns the number of threads it lists.
LwpList(n) == SubSeq(threads, 1, IF n < Len(threads) THEN n ELSE Len(threads))

\* debug_cleanup: the registers are reset when the call returns 0.
Detach ==
  /\ attached /\ pc = "idle"
  /\ attached' = FALSE
  /\ regs' = IF Len(LwpList(Len(threads))) = 0
             THEN [t \in ThreadIds |-> IF t \in Alive THEN Cleared ELSE regs[t]]
             ELSE regs
  /\ answer' = "other" /\ late' = {}
  /\ UNCHANGED <<threads, watchdata, asked, pc, locals>>

\* debug_setdbregs_handle: PT_SETDBREGS of the process reaches its first thread.
SetDbregs(d) ==
  /\ attached /\ pc = "idle"
  /\ regs' = [regs EXCEPT ![Head(threads)] = d]
  /\ answer' = "other" /\ late' = {}
  /\ UNCHANGED <<threads, attached, watchdata, asked, pc, locals>>

-----------------------------------------------------------------------------
(* debug_watchpt_handle                                                     *)

\* Variation: the index one past the last is let through.
IndexFitsLoosely(i) == i <= MaxWatchpoints

IndexFits(i) == i < MaxWatchpoints

\* The variables of the handler end with it.
Answer(a) ==
  /\ pc' = "idle" /\ answer' = a
  /\ request' = NoRequest /\ nlwps' = 0 /\ lwpids' = <<>> /\ k' = 1

\* pid is set while attached; the index is checked.
Watch(i, ask) ==
  /\ attached /\ pc = "idle"
  /\ late' = {}
  /\ \/ /\ IndexFits(i)
        /\ pc' = "count" /\ request' = [i |-> i, ask |-> ask]
        /\ UNCHANGED <<nlwps, lwpids, k, answer>>
     \/ ~IndexFits(i) /\ Answer("invalid index")
  /\ UNCHANGED <<threads, regs, attached, watchdata, asked>>

\* PT_GETNUMLWPS and pfmalloc
Count ==
  /\ pc = "count"
  /\ late' = {}
  /\ \/ nlwps' = Len(threads) /\ pc' = "list" /\ UNCHANGED <<request, lwpids, k, answer>>
     \/ Answer("null")
  /\ UNCHANGED <<threads, regs, attached, watchdata, asked>>

\* PT_GETLWPLIST
List ==
  /\ pc = "list"
  /\ \/ lwpids' = LwpList(nlwps) /\ pc' = "record" /\ UNCHANGED <<request, nlwps, k, answer>>
     \/ Answer("error")
  /\ UNCHANGED <<threads, regs, attached, watchdata, asked, late>>

WithRequest(d, i, ask) ==
  [dr |-> [d.dr EXCEPT ![i] = ask.addr],
   dr7 |-> (d.dr7 \ Mask(i)) \cup
           SetBits(i, ask.len, ask.type, IF ask.enabled THEN Enable ELSE 0)]

Record ==
  /\ pc = "record"
  /\ watchdata' = WithRequest(watchdata, request.i, request.ask)
  /\ asked' = [asked EXCEPT ![request.i] = request.ask]
  /\ pc' = "set" /\ k' = 1
  /\ UNCHANGED <<threads, regs, attached, late, request, nlwps, lwpids, answer>>

\* Variation: the last thread is left out.
MoreBeforeLast == k < nlwps

More == k <= nlwps

\* PT_SETDBREGS of the next thread, which may be gone; the call may fail for any
\* thread.  An entry PT_GETLWPLIST did not fill names no thread of the process.
SetThread ==
  /\ pc = "set" /\ More
  /\ \/ /\ k <= Len(lwpids) /\ lwpids[k] \in Alive
        /\ regs' = [regs EXCEPT ![lwpids[k]] = watchdata]
        /\ k' = k + 1 /\ UNCHANGED <<pc, answer, request, nlwps, lwpids>>
     \/ /\ k > Len(lwpids)
        /\ k' = k + 1 /\ UNCHANGED <<regs, pc, answer, request, nlwps, lwpids>>
     \/ Answer("error") /\ UNCHANGED regs
  /\ UNCHANGED <<threads, attached, watchdata, asked, late>>

Succeed ==
  /\ pc = "set" /\ ~More /\ Answer("success")
  /\ UNCHANGED <<threads, regs, attached, watchdata, asked, late>>

-----------------------------------------------------------------------------
Handle == Count \/ List \/ Record \/ SetThread \/ Succeed

Next ==
  \/ \E t \in ThreadIds : Spawn(t)
  \/ \E m \in DOMAIN threads : Exit(m)
  \/ Attach \/ Detach
  \/ \E d \in Given : SetDbregs(d)
  \/ \E i \in 0 .. MaxWatchpoints, ask \in Asks : Watch(i, ask)
  \/ Handle

Spec == Init /\ [][Next]_vars

-----------------------------------------------------------------------------
(* Properties                                                               *)

TypeOK ==
  /\ threads \in Seq(ThreadIds)
  /\ regs \in [ThreadIds -> Registers]
  /\ attached \in BOOLEAN
  /\ watchdata \in Registers
  /\ asked \in [Indices -> Asks]
  /\ pc \in {"idle", "count", "list", "record", "set"}
  /\ request \in [i : 0 .. MaxWatchpoints, ask : Asks]
  /\ nlwps \in Nat /\ lwpids \in Seq(ThreadIds) /\ k \in Nat /\ k > 0
  /\ late \subseteq ThreadIds
  /\ answer \in {"none", "other", "invalid index", "null", "error", "success"}

\* The registers of the context are, index by index, what the tool has asked for
\* in this session: setting, moving or clearing one watchpoint leaves the others
\* as they were, also when the copy to the threads failed (debug_watchpt_handle,
\* DBREG_DR7_MASK, DBREG_DR7_SET).
ContextIsAsked ==
  attached => \A i \in Indices : Watched(watchdata, i) = asked[i]

\* A tool that is answered CMD_SUCCESS can rely on it: from the answer to its next
\* command, every thread of the process holds exactly the watchpoints asked for,
\* except those created since the threads were counted.
ThreadsWatchWhatWasAsked ==
  attached /\ pc = "idle" /\ answer = "success" =>
    \A t \in Alive \ late : \A i \in Indices : Watched(regs[t], i) = asked[i]

\* After the session no thread has a watchpoint left.
NoTrapLeft ==
  ~attached => \A t \in Alive : \A i \in Indices : ~Watched(regs[t], i).enabled

=============================================================================
