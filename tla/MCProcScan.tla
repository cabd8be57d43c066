----------------------------- MODULE MCProcScan -----------------------------
(* Small instances of ProcScan for TLC. *)
EXTENDS ProcScan

S(start, readable, cells) == [start |-> start, readable |-> readable, cells |-> cells]

\* Two pages, a section that cannot be read, one page, one page.
MCLong == <<S(0, TRUE, <<0, 3, 2, 1, 3, 0, 1, 2>>), S(8, FALSE, <<0, 0, 0, 0>>),
            S(16, TRUE, <<1, 0, 2, 3>>), S(20, TRUE, <<2, 2, 2, 2>>)>>
MCProcesses == {MCLong, SubSeq(MCLong, 1, 2), SubSeq(MCLong, 1, 3)}

Bytes1 == {<<1>>, <<3>>}
Pairs1 == {<<1, 3>>, <<3, 1>>, <<2, 2>>}
Bytes2 == {<<2, 2>>, <<1, 0>>}
Pairs2 == {<<1, 0, 2, 3>>, <<2, 2, 0, 3>>}
Bytes4 == {<<2, 2, 2, 2>>, <<1, 0, 2, 3>>}
\* Sums and differences that are found in memory, the first one after a carry.
Pairs4 == {<<2, 0, 0, 3, 2, 2, 2, 2>>, <<2, 3, 3, 0, 2, 2, 2, 2>>}

Ask(cmps, types, datas) ==
  {[cmp |-> c, type |-> t, data |-> d] : c \in cmps, t \in types, d \in datas}

MCWhole ==
  Ask(Stateless, {"UInt8", "Int8"}, Bytes1) \cup
  Ask(WithExtra, {"UInt8", "Int8"}, Pairs1) \cup
  Ask(Stateless, {"UInt16", "Int16"}, Bytes2) \cup
  Ask(WithExtra, {"UInt16", "Int16"}, Pairs2) \cup
  Ask(Stateless, {"UInt32", "Int32"}, Bytes4) \cup
  Ask(WithExtra, {"UInt32", "Int32"}, Pairs4) \cup
  Ask(Stateless, {"ArrBytes"}, Bytes2)

\* Lengths that do not divide the page, one of them longer than it.
MCRequests ==
  MCWhole \cup Ask(Stateless, {"ArrBytes"}, {<<0, 3, 2>>, <<2, 2, 2>>, <<2, 2, 2, 2, 2>>})

=============================================================================
