------------------------------ MODULE ProcScan ------------------------------
(***************************************************************************)
(* A process scan on the console (proc_scan_handle): the handler takes the  *)
(* map of the process in two calls, then goes through every readable        *)
(* section value by value and collects the addresses whose value compares    *)
(* as the request asks.  The process may lose or gain sections in between.  *)
(* Bytes have Byte values; integers are 1, 2 or 4 of them, little-endian.   *)
(* Floating point types and the fuzzy comparison they have are left out.    *)
(***************************************************************************)
EXTENDS Integers, FiniteSets, SequencesExt

CONSTANTS
  Requests,    \* what tools ask: [cmp, type, data], data the bytes they send
  Processes,   \* memories: sequences of sections [start, readable, cells]
  Byte,        \* 256
  Page,        \* PAGE_SIZE
  InitMax,     \* INIT_MAX_ADDR_COUNT
  Faults       \* what may fail: "map", "alloc", "read"

Types == {"UInt8", "Int8", "UInt16", "Int16", "UInt32", "Int32", "ArrBytes"}
Stateless == {"Exact", "Fuzzy", "Bigger", "Smaller", "Unknown"}
WithExtra == {"Between", "Increased", "IncreasedBy", "Decreased", "DecreasedBy",
              "Changed", "Unchanged"}

\* GetSizeOfProcScanValue, and lenData for the types it has no size for.
SizeOf(req) ==
  CASE req.type \in {"UInt8", "Int8"}   -> 1
    [] req.type \in {"UInt16", "Int16"} -> 2
    [] req.type \in {"UInt32", "Int32"} -> 4
    [] OTHER                            -> Len(req.data)

\* What the handler does not check of a request: the value is there, it has a byte
\* at least, and the second one is there when the comparison uses it.
WellFormed(req) ==
  /\ req.type \in Types /\ req.cmp \in Stateless \cup WithExtra
  /\ req.data \in Seq(0 .. Byte - 1)
  /\ SizeOf(req) > 0
  /\ Len(req.data) >= SizeOf(req)
  /\ req.cmp \in WithExtra /\ req.type # "ArrBytes" => Len(req.data) = 2 * SizeOf(req)

Section == [start : Nat, readable : BOOLEAN, cells : Seq(0 .. Byte - 1)]

\* Sections are whole pages and do not overlap.
IsProcess(p) ==
  /\ p \in Seq(Section)
  /\ \A k \in DOMAIN p :
       /\ Len(p[k].cells) > 0 /\ Len(p[k].cells) % Page = 0
       /\ \A l \in DOMAIN p : k < l => p[k].start + Len(p[k].cells) <= p[l].start

ASSUME ScanAssumption ==
  /\ InitMax \in Nat /\ InitMax > 0 /\ Page \in Nat /\ Page > 0 /\ Byte \in Nat /\ Byte > 0
  /\ \A req \in Requests : WellFormed(req)
  /\ \A p \in Processes : IsProcess(p)

-----------------------------------------------------------------------------
(* CompareProcScanValues                                                    *)

Unsigned(cells) == FoldRight(LAMBDA c, rest : c + Byte * rest, cells, 0)
Signed(type) == type \in {"Int8", "Int16", "Int32"}

\* The value of these bytes, or of this many bits of a number.
Narrow(type, size, x) ==
  LET m == Byte ^ size
      u == x % m
  IN  IF Signed(type) /\ 2 * u >= m THEN u - m ELSE u
ValueOf(type, cells) == Narrow(type, Len(cells), Unsigned(cells))

\* The sum in C: an int for the types shorter than int, the type itself for others.
Promoted(type, x) == IF type \in {"UInt32", "Int32"} THEN Narrow(type, 4, x) ELSE x

\* A difference of less than 1.0, of floating point types.
IsClose(type) == FALSE

IsExact(data, cells) == SubSeq(data, 1, Len(cells)) = cells
IsBigger(m, s) == m > s
IsSmaller(m, s) == m < s
IsBetween(m, s, e) == IF e > s THEN m > s /\ m < e ELSE m < s /\ m > e
IsIncreased(m, e) == m > e
IsIncreasedBy(type, m, s, e) == m = Promoted(type, e + s)
IsDecreased(m, e) == m < e
IsDecreasedBy(type, m, s, e) == m = Promoted(type, e - s)
IsChanged(m, e) == m # e
IsUnchanged(m, e) == m = e

Compare(req, cells) ==
  LET size == SizeOf(req)
      m == ValueOf(req.type, cells)
      s == ValueOf(req.type, SubSeq(req.data, 1, size))
      e == ValueOf(req.type, SubSeq(req.data, size + 1, 2 * size))
  IN  IF req.cmp = "Exact" THEN IsExact(req.data, cells)
      ELSE IF req.cmp = "Unknown" THEN TRUE
      ELSE IF req.cmp = "Fuzzy" THEN IsClose(req.type)
      ELSE IF req.type = "ArrBytes" THEN FALSE
      ELSE CASE req.cmp = "Bigger"      -> IsBigger(m, s)
             [] req.cmp = "Smaller"     -> IsSmaller(m, s)
             [] req.cmp = "Between"     -> IsBetween(m, s, e)
             [] req.cmp = "Increased"   -> IsIncreased(m, e)
             [] req.cmp = "IncreasedBy" -> IsIncreasedBy(req.type, m, s, e)
             [] req.cmp = "Decreased"   -> IsDecreased(m, e)
             [] req.cmp = "DecreasedBy" -> IsDecreasedBy(req.type, m, s, e)
             [] req.cmp = "Changed"     -> IsChanged(m, e)
             [] req.cmp = "Unchanged"   -> IsUnchanged(m, e)

-----------------------------------------------------------------------------
VARIABLES
  req,        \* the request
  memory,     \* the sections of the process
  pc,
  num,        \* args.num
  maps,       \* args.maps, the entries that have been filled
  i, j,       \* section, and offset in it
  scanBuffer,
  missed,     \* sections whose first read failed
  list,       \* valid_addresses, the entries written
  room,       \* how many entries valid_addresses has
  status      \* the statuses sent

vars == <<req, memory, pc, num, maps, i, j, scanBuffer, missed, list, room, status>>

Init ==
  /\ req \in Requests /\ memory \in Processes
  /\ pc = "received" /\ status = <<>>
  /\ num = 0 /\ maps = <<>>
  /\ i = 1 /\ j = 0
  /\ scanBuffer \in {[k \in 1..Page |-> 0], [k \in 1..Page |-> Byte - 1]} /\ missed = {}
  /\ list = <<>> /\ room = 0

Send(s) == status' = Append(status, s)
Fail(s) == pc' = "done" /\ Send(s)

\* The data arrives after the first CMD_SUCCESS; pfmalloc may fail before it.
Receive ==
  /\ pc = "received"
  /\ \/ pc' = "count" /\ Send("success")
     \/ "alloc" \in Faults /\ Fail("null")
  /\ UNCHANGED <<req, memory, num, maps, i, j, scanBuffer, missed, list, room>>

\* SYS_PROC_VM_MAP without a buffer, then pfmalloc of the buffer.
CountMap ==
  /\ pc = "count"
  /\ \/ pc' = "fill" /\ num' = Len(memory) /\ UNCHANGED status
     \/ "map" \in Faults /\ Fail("error") /\ UNCHANGED num
     \/ "alloc" \in Faults /\ Fail("null") /\ num' = Len(memory)
  /\ UNCHANGED <<req, memory, maps, i, j, scanBuffer, missed, list, room>>

\* The process maps or unmaps a section.
ChangeMap ==
  /\ pc \in {"count", "fill"}
  /\ \E p \in Processes :
       /\ \/ IsStrictPrefix(p, memory)
          \/ IsStrictPrefix(memory, p)
       /\ memory' = p
  /\ UNCHANGED <<req, pc, num, maps, i, j, scanBuffer, missed, list, room, status>>

Least(a, b) == IF a < b THEN a ELSE b

\* SYS_PROC_VM_MAP with the buffer fills no more entries than there are.
FillMap ==
  /\ pc = "fill"
  /\ \/ /\ maps' = SubSeq(memory, 1, Least(num, Len(memory)))
        /\ pc' = "alloc" /\ Send("success")
     \/ "map" \in Faults /\ Fail("error") /\ UNCHANGED maps
  /\ UNCHANGED <<req, memory, num, i, j, scanBuffer, missed, list, room>>

\* pfmalloc of scanBuffer and valid_addresses.
Allocate ==
  /\ pc = "alloc"
  /\ \/ pc' = "scan" /\ room' = InitMax /\ UNCHANGED status
     \/ "alloc" \in Faults /\ Fail("null") /\ UNCHANGED room
  /\ UNCHANGED <<req, memory, num, maps, i, j, scanBuffer, missed, list>>

-----------------------------------------------------------------------------
(* The scan                                                                 *)

Finished == i > num
Filled(k) == k <= Len(maps)

\* Variation: the loop does not go on to the next entry.
SkipForgotten ==
  /\ pc = "scan" /\ ~Finished
  /\ Filled(i) => ~maps[i].readable
  /\ UNCHANGED vars

\* An entry that was not filled holds what pfmalloc found: here, one that is not
\* readable or is empty, or an entry of a process that is gone.
SkipSection ==
  /\ pc = "scan" /\ ~Finished
  /\ Filled(i) => ~maps[i].readable
  /\ i' = i + 1
  /\ UNCHANGED <<req, memory, pc, num, maps, j, scanBuffer, missed, list, room, status>>

\* Variation: the page is read once for the whole scan.
BoundaryOnce == j = 0 /\ i = 1

AtBoundary == j % Page = 0

\* Variation: sys_proc_rw is asked for the length of the section.
ReadSection(k, buf) == buf = maps[k].cells

\* sys_proc_rw of PAGE_SIZE bytes at sectionStartAddr.
ReadPage(k, buf) == buf = SubSeq(maps[k].cells, 1, Page)

\* The read at a page boundary; when it fails, scanBuffer stays as it was.
Read ==
  \/ AtBoundary /\ ReadPage(i, scanBuffer') /\ UNCHANGED missed
  \/ /\ AtBoundary /\ "read" \in Faults /\ UNCHANGED scanBuffer
     /\ missed' = IF j = 0 THEN missed \cup {i} ELSE missed
  \/ ~AtBoundary /\ UNCHANGED <<scanBuffer, missed>>

\* Variation: the list is grown when it is full and one more is needed.
NearlyFullLate(count) == count > InitMax

NearlyFull(count) == count + 1 >= InitMax

\* How a value at an offset of scanBuffer may compare. Where it reaches past the
\* end of the buffer, the bytes are somebody else's: either way.
Outcomes(at, buf) ==
  IF at + SizeOf(req) <= Page
  THEN {Compare(req, SubSeq(buf, at + 1, at + SizeOf(req)))}
  ELSE BOOLEAN

\* One turn of the inner loop.
ScanValue ==
  /\ pc = "scan" /\ ~Finished /\ Filled(i) /\ maps[i].readable
  /\ j < Len(maps[i].cells)
  /\ Read
  /\ \E hit \in Outcomes(j % Page, scanBuffer') :
       \/ ~hit /\ j' = j + SizeOf(req) /\ UNCHANGED <<list, room, pc, status>>
       \/ /\ hit /\ j' = j + SizeOf(req)
          /\ list' = Append(list, maps[i].start + j)
          /\ room' = IF NearlyFull(Len(list)) THEN room + InitMax ELSE room
          /\ UNCHANGED <<pc, status>>
       \/ /\ hit /\ NearlyFull(Len(list)) /\ "alloc" \in Faults /\ Fail("null")
          /\ UNCHANGED <<j, list, room>>
  /\ UNCHANGED <<req, memory, num, maps, i>>

EndSection ==
  /\ pc = "scan" /\ ~Finished /\ Filled(i) /\ maps[i].readable
  /\ j >= Len(maps[i].cells)
  /\ i' = i + 1 /\ j' = 0
  /\ UNCHANGED <<req, memory, pc, num, maps, scanBuffer, missed, list, room, status>>

\* The addresses and the end flag.
SendList ==
  /\ pc = "scan" /\ Finished
  /\ pc' = "done" /\ Send("list")
  /\ UNCHANGED <<req, memory, num, maps, i, j, scanBuffer, missed, list, room>>

Handle ==
  \/ Receive \/ CountMap \/ FillMap \/ Allocate
  \/ SkipSection \/ ScanValue \/ EndSection \/ SendList

Next == Handle \/ ChangeMap

\* The handler's thread runs.
Spec == Init /\ [][Next]_vars /\ WF_vars(Handle)

-----------------------------------------------------------------------------
(* Properties                                                               *)

TypeOK ==
  /\ req \in Requests /\ memory \in Processes
  /\ pc \in {"received", "count", "fill", "alloc", "scan", "done"}
  /\ num \in Nat /\ i \in Nat /\ i > 0 /\ j \in Nat /\ room \in Nat
  /\ maps \in Seq(Section) /\ missed \subseteq DOMAIN maps
  /\ scanBuffer \in [1..Page -> 0 .. Byte - 1]
  /\ list \in Seq(Nat)
  /\ Len(status) <= 3

\* A value that begins at this offset ends in the first n bytes.
Whole(o, n) == o % SizeOf(req) = 0 => o + SizeOf(req) <= n

\* The value at offset o of section k compares as asked.
Hit(k, o) == Compare(req, SubSeq(maps[k].cells, o + 1, o + SizeOf(req)))

\* Of the addresses in the first n bytes of section k those are listed whose
\* values compare as asked, but for a value that ends behind them.
Reports(k, n) ==
  \A o \in 0 .. n - 1 : Whole(o, n) =>
    (maps[k].start + o \in ToSet(list) <=> o % SizeOf(req) = 0 /\ Hit(k, o))

Scanned == {k \in DOMAIN maps : maps[k].readable /\ k \notin missed}
Reported == pc = "done" /\ status = <<"success", "success", "list">>

\* A finished scan has reported, in order and once each, exactly the addresses in
\* the first pages of the readable sections whose values compare as asked, of
\* every section the process kept and whose memory could be read: no hit of one
\* section is made in the bytes of another, and none is lost when the list grows
\* (proc_scan_handle). A value that ends behind the page is not spoken of.
FirstPagesExact ==
  Reported =>
    /\ \A k \in Scanned : Reports(k, Page)
    /\ \A a, b \in DOMAIN list : a < b => list[a] < list[b]

\* The same of every page.
EveryPageExact == Reported => \A k \in Scanned : Reports(k, Len(maps[k].cells))

\* No address is written past the end of valid_addresses, and no entry of the map
\* is filled past the ones counted, whatever the length of a value; only a value
\* whose length does not divide the page is compared past the end of scanBuffer,
\* which the handler does not check (proc_scan_handle).
InsideItsBuffers ==
  /\ Len(list) <= room
  /\ Len(maps) <= num
  /\ Page % SizeOf(req) = 0 => (j % Page) + SizeOf(req) <= Page

\* Every scan is answered: it ends, whatever fails and however the map changes.
EveryScanEnds == <>(pc = "done")

=============================================================================
