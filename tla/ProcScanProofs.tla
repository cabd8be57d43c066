-------------------------- MODULE ProcScanProofs --------------------------
(* What holds of ProcScan for every process, request, page and list size. *)
EXTENDS ProcScan, SequenceTheorems, TLAPS

-----------------------------------------------------------------------------
(* Arithmetic                                                               *)

\* Division with a remainder.
LEMMA DivMod ==
  ASSUME NEW a \in Nat, NEW b \in Nat, b > 0
  PROVE  \E q \in Nat, r \in 0 .. b - 1 : r = a % b /\ a = q * b + r
<1>1. a \div b \in Nat
  OBVIOUS
<1>2. a % b \in 0 .. b - 1
  OBVIOUS
<1>3. a = (a \div b) * b + (a % b)
  OBVIOUS
<1> QED
  BY <1>1, <1>2, <1>3, Zenon

\* A slot that starts inside a row of slots is inside it.
LEMMA Slots ==
  ASSUME NEW s \in Nat, s > 0, NEW z \in Int, NEW y \in Int, s * z < s * y
  PROVE  s * z + s <= s * y
<1>1. z < y
  <2>1. ASSUME z >= y PROVE FALSE
    <3>1. z - y \in Nat
      BY <2>1
    <3>2. s * (z - y) >= 0
      BY <3>1
    <3>3. s * (z - y) = s * z - s * y
      OBVIOUS
    <3> QED
      BY <3>2, <3>3
  <2> QED
    BY <2>1
<1>2. y - z - 1 \in Nat
  BY <1>1
<1>3. s * (y - z - 1) >= 0
  BY <1>2
<1>4. s * (y - z - 1) = s * y - s * z - s
  OBVIOUS
<1> QED
  BY <1>3, <1>4

LEMMA Multiple ==
  ASSUME NEW a \in Nat, NEW b \in Nat, b > 0, a % b = 0
  PROVE  \E q \in Nat : a = q * b
<1>1. PICK q \in Nat, r \in 0 .. b - 1 : r = a % b /\ a = q * b + r
  BY DivMod
<1> QED
  BY <1>1

\* A value at a multiple of its size does not cross a page.
LEMMA FitsPage ==
  ASSUME NEW s \in Nat, s > 0, NEW x \in Nat, NEW y \in Nat, y > 0
  PROVE  ((x * s) % (y * s)) + s <= y * s
<1>1. y * s \in Nat /\ y * s > 0 /\ x * s \in Nat
  OBVIOUS
<1>2. PICK q \in Nat, r \in 0 .. y * s - 1 :
        r = (x * s) % (y * s) /\ x * s = q * (y * s) + r
  BY <1>1, DivMod
<1>3. r = s * (x - y * q)
  BY <1>2
<1>4. s * (x - y * q) < s * y
  BY <1>1, <1>2, <1>3
<1>5. x - y * q \in Int
  BY <1>2
<1>6. s * (x - y * q) + s <= s * y
  BY <1>4, <1>5, Slots
<1> QED
  BY <1>2, <1>3, <1>6

-----------------------------------------------------------------------------
(* Requests and processes                                                   *)

\* A value has a byte at least.
LEMMA SizeFits ==
  ASSUME req \in Requests
  PROVE  SizeOf(req) \in Nat /\ SizeOf(req) > 0
<1>1. WellFormed(req)
  BY ScanAssumption
<1>2. SizeOf(req) \in Nat
  <2>1. Len(req.data) \in Nat
    <3>1. req.data \in Seq(0 .. Byte - 1)
      BY <1>1 DEF WellFormed
    <3> QED
      BY <3>1, LenProperties
  <2> QED
    BY <2>1 DEF SizeOf
<1>3. SizeOf(req) > 0
  BY <1>1 DEF WellFormed
<1> QED
  BY <1>2, <1>3

\* A section has a first page.
HasFirstPage(section) == Len(section.cells) >= Page

LEMMA SectionsHaveFirstPages ==
  ASSUME NEW p \in Processes
  PROVE  p \in Seq(Section) /\ \A k \in DOMAIN p : HasFirstPage(p[k])
<1>1. IsProcess(p)
  BY ScanAssumption
<1>2. p \in Seq(Section)
  BY <1>1 DEF IsProcess
<1>3. ASSUME NEW k \in DOMAIN p
      PROVE  Len(p[k].cells) >= Page
  <2> DEFINE len == Len(p[k].cells)
  <2>1. len > 0 /\ len % Page = 0
    BY <1>1, <1>3 DEF IsProcess
  <2>2. p[k] \in Section
    BY <1>2, <1>3, LenProperties, ElementOfSeq
  <2>3. len \in Nat
    BY <2>2, LenProperties DEF Section
  <2> HIDE DEF len
  <2>4. PICK q \in Nat : len = q * Page
    BY <2>1, <2>3, Multiple, ScanAssumption
  <2>5. q > 0
    BY <2>1, <2>4, ScanAssumption
  <2>6. q * Page >= Page
    <3>1. (q - 1) * Page >= 0
      BY <2>5, ScanAssumption
    <3> QED
      BY <3>1, ScanAssumption
  <2>7. len >= Page
    BY <2>4, <2>6
  <2> QED
    BY <2>7 DEF len
<1> QED
  BY <1>2, <1>3 DEF HasFirstPage

-----------------------------------------------------------------------------
(* The inductive invariant                                                  *)

\* How many statuses have been sent.
StatusCount ==
  /\ pc = "received" => Len(status) = 0
  /\ pc \in {"count", "fill"} => Len(status) = 1
  /\ pc \in {"alloc", "scan"} => Len(status) = 2
  /\ pc = "done" => Len(status) <= 3

\* The entries of the map are those of a process, and no more than were counted.
MapFits ==
  /\ Len(maps) <= num
  /\ pc \in {"received", "count", "fill"} => maps = <<>>
  /\ \A k \in DOMAIN maps : HasFirstPage(maps[k])

\* The list is grown before it is full.
ListFits ==
  /\ pc \in {"received", "count", "fill", "alloc"} => list = <<>>
  /\ pc = "scan" => room >= InitMax /\ Len(list) < room
  /\ Len(list) <= room

\* The scan is at a value.
Aligned == \E x \in Nat : j = x * SizeOf(req)

IInv ==
  /\ TypeOK
  /\ status \in Seq({"success", "null", "error", "list"})
  /\ StatusCount /\ MapFits /\ ListFits /\ Aligned

LEMMA InitInv == Init => IInv
<1> SUFFICES ASSUME Init PROVE IInv
  OBVIOUS
<1>1. req \in Requests /\ memory \in Processes /\ pc = "received" /\ status = <<>>
  BY DEF Init
<1>2. num = 0 /\ maps = <<>> /\ i = 1 /\ j = 0 /\ missed = {} /\ list = <<>> /\ room = 0
  BY DEF Init
<1>3. scanBuffer \in [1..Page -> 0 .. Byte - 1]
  <2>1. 0 \in 0 .. Byte - 1 /\ Byte - 1 \in 0 .. Byte - 1
    BY ScanAssumption
  <2> QED
    BY <2>1 DEF Init
<1>4. /\ maps \in Seq(Section) /\ list \in Seq(Nat)
      /\ status \in Seq({"success", "null", "error", "list"})
      /\ Len(maps) = 0 /\ Len(list) = 0 /\ Len(status) = 0
  BY <1>1, <1>2
<1>5. i \in Nat /\ i > 0
  BY <1>2
<1>6. TypeOK
  BY <1>1, <1>2, <1>3, <1>4, <1>5 DEF TypeOK
<1>7. StatusCount
  BY <1>1, <1>4 DEF StatusCount
<1>8. MapFits
  BY <1>2, <1>4 DEF MapFits
<1>9. ListFits
  BY <1>1, <1>2, <1>4 DEF ListFits
<1>10. Aligned
  <2>1. 0 = 0 * SizeOf(req)
    BY <1>1, SizeFits
  <2> QED
    BY <1>2, <2>1 DEF Aligned
<1> QED
  BY <1>4, <1>6, <1>7, <1>8, <1>9, <1>10 DEF IInv

\* One more status.
LEMMA SendCounts ==
  ASSUME status \in Seq({"success", "null", "error", "list"}),
         NEW s \in {"success", "null", "error", "list"}, Send(s)
  PROVE  /\ status' \in Seq({"success", "null", "error", "list"})
         /\ Len(status') = Len(status) + 1 /\ Len(status) \in Nat
BY AppendProperties, LenProperties DEF Send

LEMMA AtMostThree ==
  ASSUME NEW a, NEW b, b = a + 1, a = 0 \/ a = 1 \/ a = 2
  PROVE  b <= 3
OBVIOUS

\* A handler that fails leaves the rest alone.
LEMMA FailStep ==
  ASSUME IInv, NEW s \in {"null", "error"}, Fail(s), pc # "done",
         num' \in Nat, num' >= Len(maps),
         UNCHANGED <<req, memory, maps, i, j, list, room>>,
         scanBuffer' \in [1..Page -> 0 .. Byte - 1], missed' \subseteq DOMAIN maps
  PROVE  IInv'
<1>1. /\ status' \in Seq({"success", "null", "error", "list"})
      /\ Len(status') = Len(status) + 1 /\ Len(status) \in Nat
  BY SendCounts DEF Fail, IInv
<1>2. pc' = "done"
  BY DEF Fail
<1>3. TypeOK'
  <2>1. Len(status') <= 3
    <3>1. pc \in {"received", "count", "fill", "alloc", "scan"}
      BY DEF IInv, TypeOK
    <3>2. Len(status) = 0 \/ Len(status) = 1 \/ Len(status) = 2
      BY <3>1, Zenon DEF IInv, StatusCount
    <3> QED
      BY <1>1, <3>2, AtMostThree, Zenon
  <2> QED
    BY <1>2, <2>1 DEF IInv, TypeOK
<1>4. StatusCount'
  BY <1>2, <1>3 DEF StatusCount, TypeOK
<1>5. MapFits'
  BY <1>2 DEF IInv, TypeOK, MapFits, HasFirstPage
<1>6. ListFits'
  BY <1>2 DEF IInv, ListFits
<1>7. Aligned'
  BY DEF IInv, Aligned
<1> QED
  BY <1>1, <1>3, <1>4, <1>5, <1>6, <1>7 DEF IInv

LEMMA ReceiveStep == IInv /\ Receive => IInv'
<1> SUFFICES ASSUME IInv, Receive PROVE IInv'
  OBVIOUS
<1> USE DEF IInv
<1>1. CASE Fail("null")
  BY <1>1, FailStep DEF Receive, TypeOK, MapFits
<1>2. CASE pc' = "count" /\ Send("success")
  <2>1. /\ status' \in Seq({"success", "null", "error", "list"})
        /\ Len(status') = 1
    BY <1>2, SendCounts DEF Receive, StatusCount
  <2>2. TypeOK' /\ StatusCount'
    BY <1>2, <2>1 DEF Receive, TypeOK, StatusCount
  <2>3. MapFits' /\ ListFits' /\ Aligned'
    BY <1>2 DEF Receive, MapFits, HasFirstPage, ListFits, Aligned
  <2> QED
    BY <2>1, <2>2, <2>3
<1> QED
  BY <1>1, <1>2 DEF Receive

LEMMA CountStep == IInv /\ CountMap => IInv'
<1> SUFFICES ASSUME IInv, CountMap PROVE IInv'
  OBVIOUS
<1> USE DEF IInv
<1>1. Len(memory) \in Nat /\ maps = <<>> /\ Len(maps) = 0
  <2>1. memory \in Seq(Section)
    BY SectionsHaveFirstPages DEF TypeOK
  <2> QED
    BY <2>1, LenProperties DEF CountMap, MapFits
<1>2. CASE Fail("error") /\ UNCHANGED num
  BY <1>2, FailStep DEF CountMap, TypeOK, MapFits
<1>3. CASE Fail("null") /\ num' = Len(memory)
  BY <1>1, <1>3, FailStep DEF CountMap, TypeOK
<1>4. CASE pc' = "fill" /\ num' = Len(memory) /\ UNCHANGED status
  <2>1. TypeOK' /\ StatusCount'
    BY <1>1, <1>4 DEF CountMap, TypeOK, StatusCount
  <2>2. MapFits'
    BY <1>1, <1>4 DEF CountMap, MapFits, HasFirstPage
  <2>3. ListFits' /\ Aligned'
    BY <1>4 DEF CountMap, ListFits, Aligned
  <2> QED
    BY <1>4, <2>1, <2>2, <2>3
<1> QED
  BY <1>2, <1>3, <1>4 DEF CountMap

LEMMA ChangeStep == IInv /\ ChangeMap => IInv'
<1> SUFFICES ASSUME IInv, ChangeMap PROVE IInv'
  OBVIOUS
<1>1. memory' \in Processes
  BY DEF ChangeMap
<1>2. UNCHANGED <<req, pc, num, maps, i, j, scanBuffer, missed, list, room, status>>
  BY DEF ChangeMap
<1>3. TypeOK' /\ StatusCount'
  BY <1>1, <1>2 DEF IInv, TypeOK, StatusCount
<1>4. MapFits' /\ ListFits' /\ Aligned'
  BY <1>2 DEF IInv, MapFits, HasFirstPage, ListFits, Aligned
<1> QED
  BY <1>2, <1>3, <1>4 DEF IInv

LEMMA FillStep == IInv /\ FillMap => IInv'
<1> SUFFICES ASSUME IInv, FillMap PROVE IInv'
  OBVIOUS
<1> USE DEF IInv
<1>1. CASE Fail("error") /\ UNCHANGED maps
  BY <1>1, FailStep DEF FillMap, TypeOK, MapFits
<1>2. CASE maps' = SubSeq(memory, 1, Least(num, Len(memory))) /\ pc' = "alloc" /\ Send("success")
  <2> DEFINE l == Least(num, Len(memory))
  <2>1. /\ memory \in Seq(Section) /\ Len(memory) \in Nat /\ num \in Nat
        /\ DOMAIN memory = 1 .. Len(memory)
        /\ \A k \in DOMAIN memory : HasFirstPage(memory[k])
    BY SectionsHaveFirstPages, LenProperties DEF TypeOK
  <2>2. l \in 0 .. Len(memory) /\ l <= num
    BY <2>1 DEF Least
  <2> HIDE DEF l
  <2>3. /\ SubSeq(memory, 1, l) \in Seq(Section) /\ Len(SubSeq(memory, 1, l)) = l
        /\ \A k \in 1 .. l : SubSeq(memory, 1, l)[k] = memory[k]
    BY <2>1, <2>2, SubSeqProperties
  <2>4. maps' = SubSeq(memory, 1, l)
    BY <1>2 DEF l
  <2>5. maps' \in Seq(Section) /\ Len(maps') = l /\ DOMAIN maps' = 1 .. l
    BY <2>3, <2>4, LenProperties
  <2>6. \A k \in DOMAIN maps' : HasFirstPage(maps'[k])
    BY <2>1, <2>2, <2>3, <2>4, <2>5
  <2>7. missed' \subseteq DOMAIN maps'
    <3>1. maps = <<>> /\ missed' = missed
      BY DEF FillMap, MapFits
    <3>2. DOMAIN maps = {}
      BY <3>1
    <3>3. missed \subseteq DOMAIN maps
      BY DEF TypeOK
    <3> QED
      BY <3>1, <3>2, <3>3, Zenon
  <2>8. /\ status' \in Seq({"success", "null", "error", "list"})
        /\ Len(status') = 2
    <3>1. Len(status) = 1
      BY DEF FillMap, StatusCount
    <3>2. /\ status' \in Seq({"success", "null", "error", "list"})
          /\ Len(status') = Len(status) + 1
      BY <1>2, SendCounts
    <3> HIDE DEF IInv
    <3> QED
      BY <3>1, <3>2
  <2>9. TypeOK' /\ StatusCount'
    BY <1>2, <2>5, <2>7, <2>8 DEF FillMap, TypeOK, StatusCount
  <2>10. MapFits'
    BY <1>2, <2>2, <2>5, <2>6 DEF FillMap, MapFits, HasFirstPage
  <2>11. ListFits' /\ Aligned'
    BY <1>2 DEF FillMap, ListFits, Aligned
  <2> QED
    BY <2>8, <2>9, <2>10, <2>11
<1> QED
  BY <1>1, <1>2 DEF FillMap

LEMMA AllocateStep == IInv /\ Allocate => IInv'
<1> SUFFICES ASSUME IInv, Allocate PROVE IInv'
  OBVIOUS
<1> USE DEF IInv
<1>1. CASE Fail("null") /\ UNCHANGED room
  BY <1>1, FailStep DEF Allocate, TypeOK, MapFits
<1>2. CASE pc' = "scan" /\ room' = InitMax /\ UNCHANGED status
  <2>1. TypeOK' /\ StatusCount'
    BY <1>2, ScanAssumption DEF Allocate, TypeOK, StatusCount
  <2>2. ListFits'
    <3>1. Len(list) = 0
      BY DEF Allocate, ListFits
    <3> QED
      BY <1>2, <3>1, ScanAssumption DEF Allocate, ListFits
  <2>3. MapFits' /\ Aligned'
    BY <1>2 DEF Allocate, MapFits, HasFirstPage, Aligned
  <2> QED
    BY <1>2, <2>1, <2>2, <2>3
<1> QED
  BY <1>1, <1>2 DEF Allocate

LEMMA SkipStep == IInv /\ (SkipSection \/ EndSection) => IInv'
<1> SUFFICES ASSUME IInv, SkipSection \/ EndSection PROVE IInv'
  OBVIOUS
<1>1. /\ i' = i + 1 /\ (j' = j \/ j' = 0)
      /\ UNCHANGED <<req, memory, pc, num, maps, scanBuffer, missed, list, room, status>>
  BY DEF SkipSection, EndSection
<1>2. i' \in Nat /\ i' > 0 /\ j' \in Nat
  <2>1. i \in Nat /\ i > 0 /\ j \in Nat
    BY DEF IInv, TypeOK
  <2> HIDE DEF IInv
  <2> QED
    BY <1>1, <2>1
<1>3. TypeOK' /\ StatusCount'
  BY <1>1, <1>2 DEF IInv, TypeOK, StatusCount
<1>4. MapFits' /\ ListFits'
  BY <1>1 DEF IInv, MapFits, HasFirstPage, ListFits
<1>5. Aligned'
  <2>1. 0 = 0 * SizeOf(req)
    BY SizeFits DEF IInv, TypeOK
  <2> QED
    BY <1>1, <2>1 DEF IInv, Aligned
<1> QED
  BY <1>1, <1>3, <1>4, <1>5 DEF IInv

\* The page that is read has as many bytes as the buffer.
LEMMA ReadType ==
  ASSUME IInv, Filled(i), Read
  PROVE  scanBuffer' \in [1..Page -> 0 .. Byte - 1] /\ missed' \subseteq DOMAIN maps
<1>1. i \in DOMAIN maps
  <2>1. maps \in Seq(Section) /\ i \in Nat /\ i > 0
    BY DEF IInv, TypeOK
  <2>2. DOMAIN maps = 1 .. Len(maps)
    BY <2>1, LenProperties
  <2> QED
    BY <2>1, <2>2 DEF Filled
<1>2. SubSeq(maps[i].cells, 1, Page) \in [1..Page -> 0 .. Byte - 1]
  <2> DEFINE cells == maps[i].cells
  <2>1. maps[i] \in Section
    BY <1>1, LenProperties, ElementOfSeq DEF IInv, TypeOK
  <2>2. cells \in Seq(0 .. Byte - 1) /\ Len(cells) >= Page
    BY <1>1, <2>1 DEF IInv, MapFits, HasFirstPage, Section
  <2> HIDE DEF cells
  <2>3. /\ SubSeq(cells, 1, Page) \in Seq(0 .. Byte - 1)
        /\ Len(SubSeq(cells, 1, Page)) = Page
    BY <2>2, LenProperties, SubSeqProperties, ScanAssumption
  <2>4. SubSeq(cells, 1, Page) \in [1..Page -> 0 .. Byte - 1]
    BY <2>3, LenProperties
  <2> QED
    BY <2>4 DEF cells
<1> QED
  BY <1>1, <1>2 DEF Read, ReadPage, IInv, TypeOK

LEMMA ScanStep == IInv /\ ScanValue => IInv'
<1> SUFFICES ASSUME IInv, ScanValue PROVE IInv'
  OBVIOUS
<1>1. scanBuffer' \in [1..Page -> 0 .. Byte - 1] /\ missed' \subseteq DOMAIN maps
  BY ReadType DEF ScanValue
<1>2. pc = "scan" /\ UNCHANGED <<req, memory, num, maps, i>>
  BY DEF ScanValue
<1>3. CASE Fail("null") /\ UNCHANGED <<j, list, room>>
  BY <1>1, <1>2, <1>3, FailStep DEF IInv, TypeOK, MapFits
<1>4. ASSUME j' = j + SizeOf(req), UNCHANGED <<pc, status>>,
             \/ UNCHANGED <<list, room>>
             \/ /\ list' = Append(list, maps[i].start + j)
                /\ room' = IF NearlyFull(Len(list)) THEN room + InitMax ELSE room
      PROVE  IInv'
  <2>1. /\ SizeOf(req) \in Nat /\ j \in Nat /\ room \in Nat /\ list \in Seq(Nat)
        /\ Len(list) \in Nat /\ room >= InitMax /\ Len(list) < room
        /\ InitMax \in Nat /\ InitMax > 0
    BY <1>2, SizeFits, LenProperties, ScanAssumption DEF IInv, TypeOK, ListFits
  <2>2. j' \in Nat
    BY <1>4, <2>1
  <2>3. Aligned'
    <3>1. PICK x \in Nat : j = x * SizeOf(req)
      BY DEF IInv, Aligned
    <3>2. j' = (x + 1) * SizeOf(req)
      BY <1>4, <2>1, <3>1
    <3>3. x + 1 \in Nat
      OBVIOUS
    <3> QED
      BY <1>2, <3>2, <3>3 DEF Aligned
  <2>4. /\ list' \in Seq(Nat) /\ room' \in Nat
        /\ room' >= InitMax /\ Len(list') < room'
    <3>1. CASE UNCHANGED <<list, room>>
      BY <2>1, <3>1
    <3>2. CASE /\ list' = Append(list, maps[i].start + j)
               /\ room' = IF NearlyFull(Len(list)) THEN room + InitMax ELSE room
      <4>1. maps[i].start + j \in Nat
        <5>1. i \in DOMAIN maps
          BY LenProperties DEF ScanValue, Filled, IInv, TypeOK
        <5>2. maps[i] \in Section
          BY <5>1, LenProperties, ElementOfSeq DEF IInv, TypeOK
        <5>3. maps[i].start \in Nat
          BY <5>2 DEF Section
        <5> QED
          BY <2>1, <5>3
      <4>2. list' \in Seq(Nat) /\ Len(list') = Len(list) + 1
        BY <2>1, <3>2, <4>1, AppendProperties
      <4>3. CASE NearlyFull(Len(list))
        BY <2>1, <3>2, <4>2, <4>3
      <4>4. CASE ~NearlyFull(Len(list))
        BY <2>1, <3>2, <4>2, <4>4 DEF NearlyFull
      <4> QED
        BY <4>3, <4>4
    <3> QED
      BY <1>4, <3>1, <3>2
  <2>5. TypeOK'
    BY <1>1, <1>2, <1>4, <2>2, <2>4 DEF IInv, TypeOK
  <2>6. ListFits'
    <3>1. Len(list') \in Nat
      BY <2>4, LenProperties
    <3> QED
      BY <1>2, <1>4, <2>4, <3>1 DEF ListFits
  <2>7. StatusCount' /\ MapFits'
    BY <1>2, <1>4 DEF IInv, StatusCount, MapFits, HasFirstPage
  <2> QED
    BY <1>4, <2>3, <2>5, <2>6, <2>7 DEF IInv
<1> QED
  BY <1>3, <1>4 DEF ScanValue

LEMMA SendStep == IInv /\ SendList => IInv'
<1> SUFFICES ASSUME IInv, SendList PROVE IInv'
  OBVIOUS
<1> USE DEF IInv
<1>1. /\ status' \in Seq({"success", "null", "error", "list"})
      /\ Len(status') = 3
  <2>1. Len(status) = 2
    BY DEF SendList, StatusCount
  <2>2. /\ status' \in Seq({"success", "null", "error", "list"})
        /\ Len(status') = Len(status) + 1
    BY SendCounts DEF SendList
  <2> HIDE DEF IInv
  <2> QED
    BY <2>1, <2>2
<1>2. TypeOK' /\ StatusCount'
  BY <1>1 DEF SendList, TypeOK, StatusCount
<1>3. MapFits' /\ ListFits' /\ Aligned'
  BY DEF SendList, MapFits, HasFirstPage, ListFits, Aligned
<1> QED
  BY <1>1, <1>2, <1>3

\* The invariant holds of every state that is reached.
THEOREM Inductive == Spec => []IInv
<1>1. IInv /\ [Next]_vars => IInv'
  <2> SUFFICES ASSUME IInv, [Next]_vars PROVE IInv'
    OBVIOUS
  <2>1. CASE UNCHANGED vars
    BY <2>1 DEF vars, IInv, TypeOK, StatusCount, MapFits, HasFirstPage, ListFits, Aligned
  <2> QED
    BY <2>1, ReceiveStep, CountStep, ChangeStep, FillStep, AllocateStep, SkipStep, ScanStep,
       SendStep DEF Next, Handle
<1> QED
  BY <1>1, InitInv, PTL DEF Spec

-----------------------------------------------------------------------------
(* The list                                                                 *)

Early == {"received", "count", "fill", "alloc"}
EndOf(k) == maps[k].start + Len(maps[k].cells)

\* The scan begins at the first section.
Begun == pc \in Early => i = 1 /\ j = 0

\* The entries of the map are in the order of their addresses.
Ordered == \A k, l \in DOMAIN maps : k < l => EndOf(k) <= maps[l].start

\* Only a section that is scanned has an offset.
AtSection == j # 0 => i \in DOMAIN maps /\ maps[i].readable

\* After the first value of a section its first page is in the buffer.
FirstPage(k) == SubSeq(maps[k].cells, 1, Page)
Buffered == 0 < j /\ j < Page /\ i \notin missed => scanBuffer = FirstPage(i)

\* What is listed lies before the offset of the scan, and rises.
Before(a) ==
  \/ \E k \in DOMAIN maps : k < i /\ a < EndOf(k)
  \/ i \in DOMAIN maps /\ a < maps[i].start + j /\ a < EndOf(i)
Behind == \A x \in DOMAIN list : Before(list[x])
Rising == \A a, b \in DOMAIN list : a < b => list[a] < list[b]

\* How far section k has been scanned, and that the list says of its first page,
\* up to there, what its bytes say.
Seen(k) == IF k < i THEN Page ELSE IF k = i THEN j ELSE 0
Listed(k, o) == maps[k].start + o \in ToSet(list)
Found(k, n) ==
  \A o \in 0 .. Page - 1 : Whole(o, Page) =>
    (Listed(k, o) <=> o < n /\ o % SizeOf(req) = 0 /\ Hit(k, o))
Exact == \A k \in Scanned : Found(k, Seen(k))

\* Only a scan that has come to the end sends its list.
Ended == pc = "done" => i > num \/ status[Len(status)] # "list"

ListInv == Ordered /\ AtSection /\ Buffered /\ Behind /\ Rising /\ Exact
EInv == Begun /\ ListInv /\ Ended

\* The next multiple of a size.
LEMMA NextMultiple ==
  ASSUME NEW s \in Nat, s > 0, NEW x \in Nat
  PROVE  /\ (x * s) % s = 0
         /\ \A o \in x * s .. x * s + s - 1 : o % s = 0 => o = x * s
<1>1. x * s \in Nat
  OBVIOUS
<1>2. (x * s) % s = 0
  <2>1. PICK q \in Nat, r \in 0 .. s - 1 : r = (x * s) % s /\ x * s = q * s + r
    BY <1>1, DivMod
  <2>2. r = s * (x - q) /\ s * (x - q) = s * x - s * q
    BY <2>1
  <2>3. ASSUME r > 0 PROVE FALSE
    <3>1. s * q < s * x
      BY <2>2, <2>3
    <3>2. s * q + s <= s * x
      BY <3>1, Slots
    <3> QED
      BY <2>1, <2>2, <3>2
  <2> QED
    BY <2>1, <2>3
<1>3. ASSUME NEW o \in x * s .. x * s + s - 1, o % s = 0 PROVE o = x * s
  <2>1. o \in Nat
    BY <1>1
  <2>2. PICK q \in Nat : o = q * s
    BY <1>3, <2>1, Multiple
  <2>3. ASSUME o # x * s PROVE FALSE
    <3>1. s * x < s * q
      BY <1>1, <2>2, <2>3
    <3>2. s * x + s <= s * q
      BY <3>1, Slots
    <3> QED
      BY <2>2, <3>2
  <2> QED
    BY <2>3
<1> QED
  BY <1>2, <1>3

\* An offset in the first page is its place in the page.
LEMMA FirstOffset ==
  ASSUME NEW a \in Nat, NEW b \in Nat, a < b
  PROVE  a % b = a
<1>1. PICK q \in Nat, r \in 0 .. b - 1 : r = a % b /\ a = q * b + r
  BY DivMod
<1>2. ASSUME q > 0 PROVE FALSE
  <2>1. (q - 1) * b >= 0
    BY <1>2
  <2>2. (q - 1) * b = q * b - b
    OBVIOUS
  <2>3. q * b \in Nat
    OBVIOUS
  <2> QED
    BY <1>1, <2>1, <2>2, <2>3
<1> QED
  BY <1>1, <1>2

\* Where sections and the list lie.
IsSection(k) ==
  /\ maps[k].start \in Nat /\ maps[k].readable \in BOOLEAN
  /\ maps[k].cells \in Seq(0 .. Byte - 1)
  /\ Len(maps[k].cells) \in Nat /\ Len(maps[k].cells) >= Page

LEMMA Sections ==
  ASSUME IInv
  PROVE  /\ Len(maps) \in Nat /\ DOMAIN maps = 1 .. Len(maps)
         /\ \A k \in DOMAIN maps : IsSection(k)
<1>1. Len(maps) \in Nat /\ DOMAIN maps = 1 .. Len(maps) /\ maps \in Seq(Section)
  BY LenProperties DEF IInv, TypeOK
<1>2. ASSUME NEW k \in DOMAIN maps PROVE IsSection(k)
  <2>1. maps[k] \in Section
    BY <1>1, ElementOfSeq
  <2>2. maps[k].start \in Nat /\ maps[k].readable \in BOOLEAN
        /\ maps[k].cells \in Seq(0 .. Byte - 1)
    BY <2>1 DEF Section
  <2>3. Len(maps[k].cells) \in Nat
    BY <2>2, LenProperties
  <2>4. Len(maps[k].cells) >= Page
    BY DEF IInv, MapFits, HasFirstPage
  <2> QED
    BY <2>2, <2>3, <2>4 DEF IsSection
<1> QED
  BY <1>1, <1>2

LEMMA ListOf ==
  ASSUME IInv
  PROVE  /\ Len(list) \in Nat /\ DOMAIN list = 1 .. Len(list)
         /\ \A x \in DOMAIN list : list[x] \in Nat
<1>1. list \in Seq(Nat)
  BY DEF IInv, TypeOK
<1>2. Len(list) \in Nat /\ DOMAIN list = 1 .. Len(list)
  BY <1>1, LenProperties
<1>3. \A x \in DOMAIN list : list[x] \in Nat
  BY <1>1, <1>2, ElementOfSeq
<1> QED
  BY <1>2, <1>3

\* A step that leaves map, place and list alone.
LEMMA ListStays ==
  ASSUME ListInv, UNCHANGED <<req, maps, i, j, scanBuffer, missed, list>>
  PROVE  ListInv'
BY DEF ListInv, Ordered, EndOf, AtSection, Buffered, FirstPage, Behind, Before, Rising,
       Exact, Scanned, Found, Whole, Listed, Hit, Seen

LEMMA FailEnds ==
  ASSUME IInv, NEW s \in {"null", "error"}, Fail(s)
  PROVE  Begun' /\ Ended'
<1>1. pc' = "done" /\ status' = Append(status, s)
  BY DEF Fail, Send
<1>2. Len(status') = Len(status) + 1 /\ Len(status) \in Nat
  BY <1>1, AppendProperties, LenProperties DEF IInv
<1>3. status'[Len(status')] = s
  BY <1>1, <1>2, AppendProperties DEF IInv
<1> QED
  BY <1>1, <1>3 DEF Begun, Early, Ended

\* The steps around the scan.
LEMMA QuietSteps ==
  ASSUME IInv, EInv, Receive \/ CountMap \/ ChangeMap \/ Allocate
  PROVE  EInv'
<1>1. UNCHANGED <<req, maps, i, j, scanBuffer, missed, list>>
  BY DEF Receive, CountMap, ChangeMap, Allocate
<1>2. ListInv'
  BY <1>1, ListStays DEF EInv
<1>3. CASE Fail("null") \/ Fail("error")
  BY <1>2, <1>3, FailEnds DEF EInv
<1>4. CASE pc \in Early /\ pc' # "done"
  <2>1. i' = 1 /\ j' = 0
    BY <1>1, <1>4 DEF EInv, Begun
  <2> QED
    BY <1>2, <1>4, <2>1 DEF EInv, Begun, Ended
<1> QED
  BY <1>3, <1>4 DEF Receive, CountMap, ChangeMap, Allocate, Early

LEMMA SendEnds ==
  ASSUME IInv, EInv, SendList
  PROVE  EInv'
<1>1. ListInv'
  BY ListStays DEF EInv, SendList
<1>2. pc' = "done" /\ i' > num'
  BY DEF SendList, Finished
<1> QED
  BY <1>1, <1>2 DEF EInv, Begun, Early, Ended

\* A map that has just been filled.
LEMMA FillOrders ==
  ASSUME IInv, EInv, FillMap
  PROVE  EInv'
<1>1. i = 1 /\ j = 0 /\ list = <<>> /\ maps = <<>>
  BY DEF FillMap, EInv, Begun, Early, IInv, ListFits, MapFits
<1>2. UNCHANGED <<req, i, j, scanBuffer, missed, list>>
  BY DEF FillMap
<1>3. CASE Fail("error") /\ UNCHANGED maps
  <2>1. ListInv'
    BY <1>2, <1>3, ListStays DEF EInv
  <2> QED
    BY <1>3, <2>1, FailEnds DEF EInv
<1>4. CASE maps' = SubSeq(memory, 1, Least(num, Len(memory))) /\ pc' = "alloc"
  <2> DEFINE l == Least(num, Len(memory))
  <2>1. /\ memory \in Seq(Section) /\ Len(memory) \in Nat /\ num \in Nat
        /\ DOMAIN memory = 1 .. Len(memory) /\ IsProcess(memory)
    BY SectionsHaveFirstPages, LenProperties, ScanAssumption DEF IInv, TypeOK
  <2>2. l \in 0 .. Len(memory)
    BY <2>1 DEF Least
  <2> HIDE DEF l
  <2>3. /\ SubSeq(memory, 1, l) \in Seq(Section) /\ Len(SubSeq(memory, 1, l)) = l
        /\ \A k \in 1 .. l : SubSeq(memory, 1, l)[k] = memory[k]
    BY <2>1, <2>2, SubSeqProperties
  <2>4. maps' = SubSeq(memory, 1, l)
    BY <1>4 DEF l
  <2>5. DOMAIN maps' = 1 .. l /\ \A k \in DOMAIN maps' : maps'[k] = memory[k]
    BY <2>3, <2>4, LenProperties
  <2>6. Ordered'
    <3>1. SUFFICES ASSUME NEW k \in DOMAIN maps', NEW m \in DOMAIN maps', k < m
                   PROVE  maps'[k].start + Len(maps'[k].cells) <= maps'[m].start
      BY DEF Ordered, EndOf
    <3>2. k \in DOMAIN memory /\ m \in DOMAIN memory
      BY <2>1, <2>2, <2>5
    <3> QED
      BY <2>1, <2>5, <3>1, <3>2 DEF IsProcess
  <2>7. AtSection' /\ Buffered' /\ Behind' /\ Rising'
    BY <1>1, <1>2 DEF AtSection, Buffered, Behind, Rising
  <2>8. Exact'
    <3>1. SUFFICES ASSUME NEW k \in DOMAIN maps', NEW o \in 0 .. Page - 1
                   PROVE  ~ Listed(k, o)' /\ ~ (o < Seen(k)')
      BY DEF Exact, Scanned, Found
    <3>2. ToSet(list') = {}
      BY <1>1, <1>2 DEF ToSet
    <3>3. Seen(k)' = 0
      BY <1>1, <1>2, <2>5 DEF Seen
    <3> QED
      BY <3>2, <3>3 DEF Listed
  <2> QED
    BY <1>1, <1>2, <1>4, <2>6, <2>7, <2>8 DEF EInv, ListInv, Begun, Ended
<1> QED
  BY <1>3, <1>4 DEF FillMap

\* The first page is part of its section.
LEMMA InFirstPage ==
  ASSUME IInv, NEW k \in DOMAIN maps, NEW o \in 0 .. Page - 1
  PROVE  /\ maps[k].start \in Nat /\ EndOf(k) \in Nat
         /\ maps[k].start <= maps[k].start + o /\ maps[k].start + o < EndOf(k)
<1> DEFINE n == Len(maps[k].cells)
<1>1. maps[k].start \in Nat /\ n \in Nat /\ n >= Page
  BY Sections DEF IsSection
<1>2. o \in Nat /\ o < Page /\ Page \in Nat
  BY ScanAssumption
<1>3. EndOf(k) = maps[k].start + n
  BY DEF EndOf
<1> HIDE DEF n
<1> QED
  BY <1>1, <1>2, <1>3

\* Two sections share no address.
LEMMA SectionsApart ==
  ASSUME IInv, Ordered, NEW k \in DOMAIN maps, NEW l \in DOMAIN maps, k # l,
         NEW a \in Nat, maps[l].start <= a, a < EndOf(l), NEW o \in 0 .. Page - 1
  PROVE  maps[k].start + o # a
<1> DEFINE b == maps[k].start + o
<1>1. /\ k \in Nat /\ l \in Nat /\ o \in Nat
      /\ maps[k].start \in Nat /\ EndOf(k) \in Nat /\ maps[k].start <= b /\ b < EndOf(k)
      /\ maps[l].start \in Nat /\ EndOf(l) \in Nat
  BY Sections, InFirstPage, ScanAssumption
<1>2. b \in Nat
  BY <1>1
<1>3. EndOf(k) <= maps[l].start \/ EndOf(l) <= maps[k].start
  BY <1>1 DEF Ordered
<1> HIDE DEF b
<1>4. b # a
  BY <1>1, <1>2, <1>3
<1> QED
  BY <1>4 DEF b

\* What is before the offset of a section that is scanned is less than it.
LEMMA BeforeIsLess ==
  ASSUME IInv, Ordered, i \in DOMAIN maps, NEW a \in Nat, Before(a)
  PROVE  a < maps[i].start + j
<1>1. IsSection(i) /\ j \in Nat
  BY Sections DEF IInv, TypeOK
<1>2. ASSUME NEW k \in DOMAIN maps, k < i, a < EndOf(k) PROVE a < maps[i].start + j
  <2>1. EndOf(k) <= maps[i].start
    BY <1>2 DEF Ordered
  <2>2. IsSection(k)
    BY Sections
  <2> QED
    BY <1>1, <1>2, <2>1, <2>2 DEF IsSection, EndOf
<1> QED
  BY <1>2 DEF Before

\* The scan is at a value of its section.
AtValue ==
  /\ pc = "scan" /\ i \in DOMAIN maps /\ maps[i].readable /\ j < Len(maps[i].cells)

LEMMA ScanIsAtValue ==
  ASSUME IInv, ScanValue
  PROVE  AtValue
BY Sections DEF ScanValue, Filled, AtValue, IInv, TypeOK

\* A part of a prefix is a part of the whole.
LEMMA PartOfPrefix ==
  ASSUME NEW S, NEW c \in Seq(S), NEW p \in Nat, p <= Len(c),
         NEW m \in Nat, NEW n \in Nat, 0 < m, m <= n, n <= p
  PROVE  SubSeq(SubSeq(c, 1, p), m, n) = SubSeq(c, m, n)
<1> DEFINE d == SubSeq(c, 1, p)
<1>1. Len(c) \in Nat /\ \A x \in 1 .. Len(c) : c[x] \in S
  BY LenProperties, ElementOfSeq
<1>2. \A x \in 1 .. p : c[x] \in S
  BY <1>1
<1>3. \A x \in 1 .. p : d[x] = c[x]
  BY <1>2, SubSeqProperties
<1> HIDE DEF d
<1>4. \A x \in m .. n : d[x] = c[x] /\ c[x] \in S
  BY <1>2, <1>3
<1>5. /\ SubSeq(d, m, n) \in Seq(S) /\ Len(SubSeq(d, m, n)) = n - m + 1
      /\ \A x \in 1 .. n - m + 1 : SubSeq(d, m, n)[x] = d[m + x - 1]
  BY <1>4, SubSeqProperties
<1>6. /\ SubSeq(c, m, n) \in Seq(S) /\ Len(SubSeq(c, m, n)) = n - m + 1
      /\ \A x \in 1 .. n - m + 1 : SubSeq(c, m, n)[x] = c[m + x - 1]
  BY <1>4, SubSeqProperties
<1>7. \A x \in 1 .. n - m + 1 : m + x - 1 \in m .. n
  OBVIOUS
<1>8. \A x \in 1 .. Len(SubSeq(d, m, n)) : SubSeq(d, m, n)[x] = SubSeq(c, m, n)[x]
  BY <1>4, <1>5, <1>6, <1>7
<1>9. SubSeq(d, m, n) = SubSeq(c, m, n)
  BY <1>5, <1>6, <1>8, SeqEqual
<1> QED
  BY <1>9 DEF d

\* The bytes of a value that lies in the first page are those of the section, unless
\* the page could not be read.
LEMMA ComparesItsBytes ==
  ASSUME IInv, ListInv, AtValue, Read, j + SizeOf(req) <= Page, i \notin missed'
  PROVE  LET at == j % Page
         IN  SubSeq(scanBuffer', at + 1, at + SizeOf(req)) =
               SubSeq(maps[i].cells, j + 1, j + SizeOf(req))
<1> DEFINE s == SizeOf(req)
<1>0. j \in Nat /\ Page \in Nat /\ Page > 0 /\ s \in Nat /\ s > 0
  BY SizeFits, ScanAssumption DEF IInv, TypeOK
<1>1. j < Page
  BY <1>0
<1>2. j % Page = j
  BY <1>0, <1>1, FirstOffset
<1>3. scanBuffer' = FirstPage(i)
  <2>1. CASE j = 0
    <3>1. AtBoundary
      BY <1>2, <2>1 DEF AtBoundary
    <3> QED
      BY <2>1, <3>1 DEF Read, ReadPage, FirstPage
  <2>2. CASE j # 0
    <3>1. ~AtBoundary
      BY <1>2, <2>2 DEF AtBoundary
    <3>2. UNCHANGED <<scanBuffer, missed>>
      BY <3>1 DEF Read
    <3> QED
      BY <1>0, <1>1, <2>2, <3>2 DEF ListInv, Buffered
  <2> QED
    BY <2>1, <2>2
<1>4. s \in Nat /\ s > 0 /\ j + s <= Page
  BY <1>0
<1> HIDE DEF s
<1>5. SubSeq(FirstPage(i), j + 1, j + s) = SubSeq(maps[i].cells, j + 1, j + s)
  <2> DEFINE c == maps[i].cells
  <2>1. c \in Seq(0 .. Byte - 1) /\ Len(c) \in Nat /\ Len(c) >= Page
    BY Sections DEF AtValue, IsSection
  <2> HIDE DEF c
  <2>2. SubSeq(SubSeq(c, 1, Page), j + 1, j + s) = SubSeq(c, j + 1, j + s)
    BY <1>0, <1>4, <2>1, PartOfPrefix
  <2> QED
    BY <2>2 DEF FirstPage, c
<1> QED
  BY <1>2, <1>3, <1>5 DEF s

\* What a read changes.
LEMMA ReadKeeps ==
  ASSUME Read
  PROVE  missed \subseteq missed' /\ missed' \subseteq missed \cup {i}
BY DEF Read

\* A turn of the inner loop that goes on: it moves by one value, and lists the
\* address of a value that compares as asked.
Turn ==
  /\ UNCHANGED <<req, memory, num, maps, i, pc, status>>
  /\ j' = j + SizeOf(req)
  /\ \E hit \in Outcomes(j % Page, scanBuffer') :
       \/ ~hit /\ UNCHANGED list
       \/ hit /\ list' = Append(list, maps[i].start + j)

LEMMA Turns ==
  ASSUME ScanValue
  PROVE  Read /\ (Turn \/ (Fail("null") /\ UNCHANGED <<req, maps, i, j, list>>))
BY DEF ScanValue, Turn

\* The address of the value, and the list with it.
LEMMA TurnLists ==
  ASSUME IInv, AtValue, Turn
  PROVE  LET a == maps[i].start + j
         IN  /\ a \in Nat /\ maps[i].start <= a /\ a < EndOf(i)
             /\ \/ list' = list
                \/ /\ DOMAIN list' = DOMAIN list \cup {Len(list) + 1}
                   /\ list'[Len(list) + 1] = a
                   /\ \A x \in DOMAIN list : list'[x] = list[x]
<1> DEFINE a == maps[i].start + j
<1>1. IsSection(i) /\ j \in Nat
  BY Sections DEF AtValue, IInv, TypeOK
<1>2. a \in Nat /\ maps[i].start <= a /\ a < EndOf(i)
  BY <1>1 DEF AtValue, IsSection, EndOf
<1> HIDE DEF a
<1>3. CASE list' = Append(list, a)
  <2>1. list \in Seq(Nat) /\ Len(list) \in Nat /\ DOMAIN list = 1 .. Len(list)
    BY LenProperties DEF IInv, TypeOK
  <2>2. /\ list' \in Seq(Nat) /\ Len(list') = Len(list) + 1
        /\ \A x \in 1 .. Len(list) : list'[x] = list[x]
        /\ list'[Len(list) + 1] = a
    BY <1>2, <1>3, <2>1, AppendProperties
  <2>3. DOMAIN list' = 1 .. Len(list) + 1
    BY <2>2, LenProperties
  <2>4. DOMAIN list' = DOMAIN list \cup {Len(list) + 1}
    BY <2>1, <2>3
  <2> QED
    BY <1>2, <2>1, <2>2, <2>4 DEF a
<1>4. list' = list \/ list' = Append(list, a)
  BY DEF Turn, a
<1> QED
  BY <1>2, <1>3, <1>4 DEF a

\* What lies before the offset after a turn.
Passed(a) ==
  \/ \E k \in DOMAIN maps : k < i /\ a < EndOf(k)
  \/ i \in DOMAIN maps /\ a < maps[i].start + (j + SizeOf(req)) /\ a < EndOf(i)

LEMMA TurnOrders ==
  ASSUME IInv, ListInv, AtValue, Turn, Read
  PROVE  Ordered' /\ AtSection' /\ Buffered' /\ Behind' /\ Rising'
<1> DEFINE a == maps[i].start + j
<1>1. /\ a \in Nat /\ a < EndOf(i)
      /\ \/ list' = list
         \/ /\ DOMAIN list' = DOMAIN list \cup {Len(list) + 1}
            /\ list'[Len(list) + 1] = a
            /\ \A x \in DOMAIN list : list'[x] = list[x]
  BY TurnLists
<1>2. /\ SizeOf(req) \in Nat /\ SizeOf(req) > 0 /\ j \in Nat /\ i \in Nat /\ IsSection(i)
      /\ j' = j + SizeOf(req) /\ UNCHANGED <<maps, i, req>>
  BY SizeFits, Sections DEF IInv, TypeOK, AtValue, Turn
<1>3. Ordered' /\ AtSection'
  BY <1>2 DEF ListInv, Ordered, EndOf, AtSection, AtValue
<1>4. Buffered'
  <2>1. SUFFICES ASSUME j' < Page, i \notin missed' PROVE scanBuffer' = FirstPage(i)
    BY <1>2 DEF Buffered, FirstPage
  <2>2. j < Page /\ Page \in Nat /\ Page > 0
    BY <1>2, <2>1, ScanAssumption
  <2>3. j % Page = j
    BY <1>2, <2>2, FirstOffset
  <2>4. CASE j = 0
    <3>1. AtBoundary
      BY <2>3, <2>4 DEF AtBoundary
    <3> QED
      BY <2>1, <2>4, <3>1 DEF Read, ReadPage, FirstPage
  <2>5. CASE j # 0
    <3>1. UNCHANGED <<scanBuffer, missed>>
      BY <2>3, <2>5 DEF Read, AtBoundary
    <3> QED
      BY <1>2, <2>1, <2>2, <2>5, <3>1 DEF ListInv, Buffered
  <2> QED
    BY <2>4, <2>5
<1>5. \A b \in Nat : Before(b) => Passed(b)
  <2>1. SUFFICES ASSUME NEW b \in Nat, Before(b) PROVE Passed(b)
    OBVIOUS
  <2>2. b < maps[i].start + j => b < maps[i].start + (j + SizeOf(req))
    BY <1>2 DEF IsSection
  <2> QED
    BY <2>1, <2>2 DEF Before, Passed
<1>6. Passed(a)
  <2>1. a < maps[i].start + (j + SizeOf(req))
    BY <1>2 DEF IsSection
  <2> QED
    BY <1>1, <2>1 DEF Passed, AtValue
<1>7. \A x \in DOMAIN list : list[x] \in Nat /\ list[x] < a /\ Passed(list[x])
  <2>1. SUFFICES ASSUME NEW x \in DOMAIN list
                 PROVE  list[x] \in Nat /\ list[x] < a /\ Passed(list[x])
    OBVIOUS
  <2>2. list[x] \in Nat /\ Before(list[x])
    BY ListOf DEF ListInv, Behind
  <2>3. list[x] < a
    BY <2>2, BeforeIsLess DEF ListInv, AtValue
  <2> QED
    BY <1>5, <2>2, <2>3
<1> HIDE DEF a
<1>8. Behind'
  <2>1. \A x \in DOMAIN list' : Passed(list'[x])
    BY <1>1, <1>6, <1>7
  <2> QED
    BY <1>2, <2>1 DEF Behind, Before, Passed, EndOf
<1>9. Rising'
  <2>1. SUFFICES ASSUME NEW x \in DOMAIN list', NEW y \in DOMAIN list', x < y
                 PROVE  list'[x] < list'[y]
    BY DEF Rising
  <2>2. Len(list) \in Nat /\ DOMAIN list = 1 .. Len(list)
    BY ListOf
  <2>3. CASE list' = list
    BY <2>1, <2>3 DEF ListInv, Rising
  <2>4. CASE /\ DOMAIN list' = DOMAIN list \cup {Len(list) + 1}
             /\ list'[Len(list) + 1] = a
             /\ \A z \in DOMAIN list : list'[z] = list[z]
    <3>1. x \in DOMAIN list
      BY <2>1, <2>2, <2>4
    <3>2. CASE y \in DOMAIN list
      BY <2>1, <2>4, <3>1, <3>2 DEF ListInv, Rising
    <3>3. CASE y = Len(list) + 1
      BY <1>7, <2>4, <3>1, <3>3
    <3> QED
      BY <2>4, <3>2, <3>3
  <2> QED
    BY <1>1, <2>3, <2>4
<1> QED
  BY <1>3, <1>4, <1>8, <1>9

LEMMA TurnIsExact ==
  ASSUME IInv, ListInv, AtValue, Turn, Read
  PROVE  Exact'
<1> DEFINE a == maps[i].start + j
<1>0. PICK hit \in Outcomes(j % Page, scanBuffer') :
        \/ ~hit /\ UNCHANGED list
        \/ hit /\ list' = Append(list, a)
  BY DEF Turn
<1>1. /\ a \in Nat /\ maps[i].start <= a /\ a < EndOf(i)
      /\ \/ list' = list
         \/ /\ DOMAIN list' = DOMAIN list \cup {Len(list) + 1}
            /\ list'[Len(list) + 1] = a
            /\ \A x \in DOMAIN list : list'[x] = list[x]
  BY TurnLists
<1>2. /\ SizeOf(req) \in Nat /\ SizeOf(req) > 0 /\ j \in Nat /\ i \in Nat /\ IsSection(i)
      /\ j' = j + SizeOf(req) /\ UNCHANGED <<maps, i, req>>
  BY SizeFits, Sections DEF IInv, TypeOK, AtValue, Turn
<1>3. ToSet(list') = ToSet(list) \cup (IF hit THEN {a} ELSE {})
  <2>1. CASE hit
    <3>1. list' = Append(list, a)
      BY <1>0, <2>1
    <3>2. list \in Seq(Nat) /\ Len(list) \in Nat /\ DOMAIN list = 1 .. Len(list)
      BY LenProperties DEF IInv, TypeOK
    <3> HIDE DEF a
    <3>3. /\ list' \in Seq(Nat) /\ Len(list') = Len(list) + 1
          /\ \A x \in 1 .. Len(list) : list'[x] = list[x]
          /\ list'[Len(list) + 1] = a
      BY <1>1, <3>1, <3>2, AppendProperties
    <3>4. DOMAIN list' = DOMAIN list \cup {Len(list) + 1}
      <4>1. DOMAIN list' = 1 .. Len(list) + 1
        BY <3>3, LenProperties
      <4> QED
        BY <3>2, <4>1
    <3>5. ToSet(list') = ToSet(list) \cup {a}
      BY <3>2, <3>3, <3>4 DEF ToSet
    <3> QED
      BY <2>1, <3>5
  <2>2. CASE ~hit
    BY <1>0, <2>2
  <2> QED
    BY <2>1, <2>2
<1>4. SUFFICES ASSUME NEW k \in DOMAIN maps, k \in Scanned, k \notin missed',
                      NEW o \in 0 .. Page - 1, Whole(o, Page)
               PROVE  maps[k].start + o \in ToSet(list') <=>
                        o < Seen(k)' /\ o % SizeOf(req) = 0 /\ Hit(k, o)
  <2>1. Scanned' \subseteq Scanned /\ \A k \in Scanned' : k \in DOMAIN maps /\ k \notin missed'
    BY <1>2, ReadKeeps DEF Scanned
  <2> QED
    BY <1>2, <2>1 DEF Exact, Found, Whole, Listed, Hit
<1>5. Listed(k, o) <=> o < Seen(k) /\ o % SizeOf(req) = 0 /\ Hit(k, o)
  BY <1>4 DEF ListInv, Exact, Found
<1>6. CASE k # i
  <2>1. maps[k].start + o # a
    BY <1>1, <1>6, SectionsApart DEF ListInv, AtValue
  <2>2. maps[k].start + o \in ToSet(list') <=> Listed(k, o)
    BY <1>3, <2>1 DEF Listed
  <2>3. Seen(k)' = Seen(k)
    BY <1>2, <1>6 DEF Seen
  <2> QED
    BY <1>5, <2>2, <2>3
<1>7. CASE k = i
  <2>1. Seen(k) = j /\ Seen(k)' = j + SizeOf(req)
    BY <1>2, <1>7 DEF Seen
  <2>2. maps[k].start + o \in ToSet(list') <=> Listed(k, o) \/ (hit /\ o = j)
    <3>1. maps[k].start + o = a <=> o = j
      BY <1>2, <1>7, ScanAssumption DEF IsSection
    <3> QED
      BY <1>3, <3>1 DEF Listed
  <2>3. PICK x \in Nat : j = x * SizeOf(req)
    BY DEF IInv, Aligned
  <2>4. /\ j % SizeOf(req) = 0
        /\ \A p \in j .. j + SizeOf(req) - 1 : p % SizeOf(req) = 0 => p = j
    BY <1>2, <2>3, NextMultiple
  <2>5. o \in Nat /\ o < Page
    BY ScanAssumption
  <2>6. CASE o < j
    BY <1>2, <1>5, <2>1, <2>2, <2>5, <2>6
  <2>7. CASE o = j
    <3>1. hit <=> Hit(k, o)
      <4>1. j + SizeOf(req) <= Page
        BY <1>4, <2>4, <2>7 DEF Whole
      <4>2. SubSeq(scanBuffer', (j % Page) + 1, (j % Page) + SizeOf(req)) =
              SubSeq(maps[i].cells, j + 1, j + SizeOf(req))
        BY <1>4, <1>7, <4>1, ComparesItsBytes
      <4>3. (j % Page) + SizeOf(req) <= Page
        BY <1>2, <4>1, FirstOffset, ScanAssumption
      <4>4. hit = Compare(req, SubSeq(maps[i].cells, j + 1, j + SizeOf(req)))
        BY <1>0, <4>2, <4>3 DEF Outcomes
      <4> QED
        BY <1>7, <2>7, <4>4 DEF Hit
    <3> QED
      BY <1>2, <1>5, <2>1, <2>2, <2>4, <2>7, <3>1
  <2>8. CASE o > j
    <3>1. ASSUME o < j + SizeOf(req), o % SizeOf(req) = 0 PROVE FALSE
      <4>1. o \in j .. j + SizeOf(req) - 1
        BY <1>2, <2>5, <2>8, <3>1
      <4> QED
        BY <1>2, <2>4, <2>5, <2>8, <3>1, <4>1
    <3> QED
      BY <1>2, <1>5, <2>1, <2>2, <2>5, <2>8, <3>1
  <2> QED
    BY <1>2, <2>5, <2>6, <2>7, <2>8
<1> QED
  BY <1>6, <1>7

LEMMA ScanLists ==
  ASSUME IInv, EInv, ScanValue
  PROVE  EInv'
<1>1. AtValue /\ Read
  BY ScanIsAtValue, Turns
<1>2. CASE Turn
  <2>1. ListInv'
    BY <1>1, <1>2, TurnOrders, TurnIsExact DEF EInv, ListInv
  <2>2. pc' = "scan"
    BY <1>1, <1>2 DEF Turn, AtValue
  <2> QED
    BY <2>1, <2>2 DEF EInv, Begun, Early, Ended
<1>3. CASE Fail("null") /\ UNCHANGED <<req, maps, i, j, list>>
  <2>1. Begun' /\ Ended'
    BY <1>3, FailEnds
  <2>2. Ordered' /\ AtSection' /\ Behind' /\ Rising'
    BY <1>3 DEF EInv, ListInv, Ordered, EndOf, AtSection, Behind, Before, Rising
  <2>3. Buffered'
    <3>1. SUFFICES ASSUME 0 < j, j < Page, i \notin missed' PROVE scanBuffer' = FirstPage(i)
      BY <1>3 DEF Buffered, FirstPage
    <3>2. j \in Nat /\ Page \in Nat
      BY ScanAssumption DEF IInv, TypeOK
    <3>3. ~AtBoundary
      BY <3>1, <3>2, FirstOffset DEF AtBoundary
    <3>4. UNCHANGED <<scanBuffer, missed>>
      BY <1>1, <3>3 DEF Read
    <3> QED
      BY <3>1, <3>4 DEF EInv, ListInv, Buffered
  <2>4. Exact'
    <3>1. Scanned' \subseteq Scanned
      BY <1>1, <1>3, ReadKeeps DEF Scanned
    <3>2. \A k \in Scanned : Found(k, Seen(k)) => Found(k, Seen(k))'
      BY <1>3 DEF Found, Whole, Listed, Hit, Seen
    <3> QED
      BY <3>1, <3>2 DEF EInv, ListInv, Exact
  <2> QED
    BY <2>1, <2>2, <2>3, <2>4 DEF EInv, ListInv
<1> QED
  BY <1>2, <1>3, Turns

\* The scan goes on to the next section with offset 0.
LEMMA NextSection ==
  ASSUME IInv, EInv, SkipSection \/ EndSection
  PROVE  EInv'
<1>1. /\ i' = i + 1 /\ pc = "scan"
      /\ UNCHANGED <<req, pc, num, maps, scanBuffer, missed, list, status>>
  BY DEF SkipSection, EndSection
<1>2. i \in Nat /\ i > 0 /\ j \in Nat /\ DOMAIN maps = 1 .. Len(maps) /\ Len(maps) \in Nat
  BY Sections DEF IInv, TypeOK
<1>3. /\ j' = 0
      /\ i \in Scanned => j >= Page
  <2>1. CASE SkipSection
    <3>1. i \in DOMAIN maps => ~maps[i].readable
      BY <1>2, <2>1 DEF SkipSection, Filled
    <3> QED
      BY <2>1, <3>1 DEF SkipSection, EInv, ListInv, AtSection, Scanned
  <2>2. CASE EndSection
    <3>1. j' = 0 /\ j >= Len(maps[i].cells)
      BY <2>2 DEF EndSection
    <3>2. i \in Scanned => Len(maps[i].cells) >= Page /\ Len(maps[i].cells) \in Nat
      BY Sections DEF Scanned, IsSection
    <3> QED
      BY <1>2, <3>1, <3>2, ScanAssumption
  <2> QED
    BY <2>1, <2>2
<1>4. Ordered' /\ AtSection' /\ Buffered' /\ Rising'
  BY <1>1, <1>3 DEF EInv, ListInv, Ordered, EndOf, AtSection, Buffered, Rising
<1>5. Behind'
  <2>1. SUFFICES ASSUME NEW x \in DOMAIN list PROVE Before(list[x])'
    BY <1>1 DEF Behind, Before, EndOf
  <2>2. Before(list[x])
    BY DEF EInv, ListInv, Behind
  <2>3. \E k \in DOMAIN maps : k < i + 1 /\ list[x] < EndOf(k)
    BY <1>2, <2>2 DEF Before
  <2> QED
    BY <1>1, <2>3 DEF Before, EndOf
<1>6. Exact'
  <2>1. SUFFICES ASSUME NEW k \in Scanned, NEW o \in 0 .. Page - 1, Whole(o, Page)
                 PROVE  Listed(k, o) <=> o < Seen(k)' /\ o % SizeOf(req) = 0 /\ Hit(k, o)
    BY <1>1 DEF Exact, Found, Whole, Listed, Hit, Scanned
  <2>2. Listed(k, o) <=> o < Seen(k) /\ o % SizeOf(req) = 0 /\ Hit(k, o)
    BY <2>1 DEF EInv, ListInv, Exact, Found
  <2>3. o < Seen(k) <=> o < Seen(k)'
    <3>1. k \in Nat
      BY <1>2 DEF Scanned
    <3>2. o \in Nat /\ o < Page /\ Page \in Nat
      BY ScanAssumption
    <3>3. CASE k = i
      BY <1>1, <1>2, <1>3, <3>2, <3>3 DEF Seen
    <3>4. CASE k # i
      BY <1>1, <1>2, <1>3, <3>1, <3>2, <3>4 DEF Seen
    <3> QED
      BY <3>3, <3>4
  <2> QED
    BY <2>2, <2>3
<1> QED
  BY <1>1, <1>4, <1>5, <1>6 DEF EInv, ListInv, Begun, Early, Ended

LEMMA InitLists == Init => EInv
<1> SUFFICES ASSUME Init PROVE EInv
  OBVIOUS
<1>1. i = 1 /\ j = 0 /\ list = <<>> /\ maps = <<>> /\ pc = "received"
  BY DEF Init
<1> QED
  BY <1>1 DEF EInv, ListInv, Begun, Ended, Ordered, AtSection, Buffered, Behind, Rising,
              Exact, Scanned

LEMMA ListInvariant == Spec => []EInv
<1>1. IInv /\ EInv /\ [Next]_vars => EInv'
  <2> SUFFICES ASSUME IInv, EInv, [Next]_vars PROVE EInv'
    OBVIOUS
  <2>1. CASE UNCHANGED vars
    <3>1. ListInv'
      BY <2>1, ListStays DEF vars, EInv
    <3> QED
      BY <2>1, <3>1 DEF vars, EInv, Begun, Ended
  <2> QED
    BY <2>1, QuietSteps, FillOrders, ScanLists, NextSection, SendEnds DEF Next, Handle
<1> QED
  BY <1>1, InitLists, Inductive, PTL DEF Spec

-----------------------------------------------------------------------------
(* Results                                                                  *)

\* The variables of proc_scan_handle keep their types: scanBuffer stays one page,
\* the entries of the map stay sections, and no scan is answered more than thrice.
THEOREM TypesHold == Spec => []TypeOK
<1>1. IInv => TypeOK
  BY DEF IInv
<1> QED
  BY <1>1, Inductive, PTL

\* For every process, page and initial size, and for values of any positive length:
\* no address is written past the end of valid_addresses, and no more entries of the
\* map are filled than were counted; and where the length divides the page no value
\* is compared past the end of scanBuffer (proc_scan_handle).
THEOREM BuffersHold == Spec => []InsideItsBuffers
<1>1. IInv => InsideItsBuffers
  <2> SUFFICES ASSUME IInv PROVE InsideItsBuffers
    OBVIOUS
  <2>1. PICK x \in Nat : j = x * SizeOf(req)
    BY DEF IInv, Aligned
  <2>2. SizeOf(req) \in Nat /\ SizeOf(req) > 0 /\ Page \in Nat /\ Page > 0
    BY SizeFits, ScanAssumption DEF IInv, TypeOK
  <2>3. ASSUME Page % SizeOf(req) = 0 PROVE (j % Page) + SizeOf(req) <= Page
    <3>1. PICK y \in Nat : Page = y * SizeOf(req)
      BY <2>2, <2>3, Multiple
    <3>2. y > 0
      BY <2>2, <3>1
    <3> QED
      BY <2>1, <2>2, <3>1, <3>2, FitsPage
  <2> QED
    BY <2>3 DEF IInv, MapFits, ListFits, InsideItsBuffers
<1> QED
  BY <1>1, Inductive, PTL

\* For every process, request, page and list size, whatever fails and however the
\* map changes while it is read: a scan that ended well lists of the first page of
\* each section that was read the addresses whose values compare as asked and no
\* others, in order, but for a value that ends behind the page (proc_scan_handle).
THEOREM FirstPagesAreExact == Spec => []FirstPagesExact
<1>1. IInv /\ EInv => FirstPagesExact
  <2> SUFFICES ASSUME IInv, EInv, Reported PROVE FirstPagesExact
    BY DEF FirstPagesExact
  <2>1. i > num
    <3>1. pc = "done" /\ Len(status) = 3 /\ status[3] = "list"
      BY DEF Reported
    <3> QED
      BY <3>1 DEF EInv, Ended
  <2>2. \A a, b \in DOMAIN list : a < b => list[a] < list[b]
    BY DEF EInv, ListInv, Rising
  <2>3. ASSUME NEW k \in Scanned PROVE Reports(k, Page)
    <3>1. /\ k \in DOMAIN maps /\ IsSection(k) /\ k \in Nat /\ k <= Len(maps)
          /\ Len(maps) \in Nat /\ Len(maps) <= num /\ num \in Nat /\ i \in Nat
      BY Sections DEF Scanned, IInv, MapFits, TypeOK
    <3>2. Seen(k) = Page
      BY <2>1, <3>1 DEF Seen
    <3>3. \A o \in 0 .. Page - 1 : Whole(o, Page) =>
            (Listed(k, o) <=> o % SizeOf(req) = 0 /\ Hit(k, o))
      BY <3>2, ScanAssumption DEF EInv, ListInv, Exact, Found
    <3> QED
      BY <3>3 DEF Reports, Listed
  <2> QED
    BY <2>2, <2>3 DEF FirstPagesExact
<1> QED
  BY <1>1, Inductive, ListInvariant, PTL

=============================================================================
