------------------------- MODULE WatchpointsProofs -------------------------
(* What holds of Watchpoints for every process, tool and number of indices. *)
EXTENDS Watchpoints, SequenceTheorems, TLAPS

-----------------------------------------------------------------------------
(* dr7                                                                      *)

\* The bits of a field of two bits.
LEMMA BitsOfField ==
  ASSUME NEW x \in 0..3
  PROVE  /\ 0 \in Bits(x) <=> x \in {1, 3}
         /\ 1 \in Bits(x) <=> x \in {2, 3}
         /\ Bits(x) \subseteq 0..1
<1>1. x \in {0, 1, 2, 3}
  OBVIOUS
<1>2. x \in {1, 3} <=> x % 2 = 1
  BY <1>1
<1>3. x \in {2, 3} <=> x \div 2 = 1
  BY <1>1
<1> QED
  BY <1>2, <1>3 DEF Bits

\* DBREG_DR7_MASK covers the two fields of its index.
LEMMA MaskCovers ==
  ASSUME NEW i \in 0..3, NEW b \in Int
  PROVE  b \in Mask(i) <=> b \in i * 4 + 16 .. i * 4 + 19 \/ b \in i * 2 .. i * 2 + 1
<1>1. b \in Shifted(0..3, i * 4 + 16) <=> b \in i * 4 + 16 .. i * 4 + 19
  <2>1. ASSUME b \in i * 4 + 16 .. i * 4 + 19
        PROVE  b \in Shifted(0..3, i * 4 + 16)
    <3>1. b - (i * 4 + 16) \in 0..3 /\ b = b - (i * 4 + 16) + (i * 4 + 16)
      BY <2>1
    <3> QED
      BY <3>1 DEF Shifted
  <2> QED
    BY <2>1 DEF Shifted
<1>2. b \in Shifted(0..1, i * 2) <=> b \in i * 2 .. i * 2 + 1
  <2>1. ASSUME b \in i * 2 .. i * 2 + 1
        PROVE  b \in Shifted(0..1, i * 2)
    <3>1. b - i * 2 \in 0..1 /\ b = b - i * 2 + i * 2
      BY <2>1
    <3> QED
      BY <3>1 DEF Shifted
  <2> QED
    BY <2>1 DEF Shifted
<1> QED
  BY <1>1, <1>2 DEF Mask

\* DBREG_DR7_SET puts each argument in its field.
LEMMA SetBitsPlaces ==
  ASSUME NEW i \in 0..3, NEW len \in 0..3, NEW access \in 0..3, NEW enable \in 0..3,
         NEW b \in Int
  PROVE  b \in SetBits(i, len, access, enable) <=>
           \/ b = i * 4 + 18 /\ len \in {1, 3}
           \/ b = i * 4 + 19 /\ len \in {2, 3}
           \/ b = i * 4 + 16 /\ access \in {1, 3}
           \/ b = i * 4 + 17 /\ access \in {2, 3}
           \/ b = i * 2 /\ enable \in {1, 3}
           \/ b = i * 2 + 1 /\ enable \in {2, 3}
<1>1. b \in Shifted(Shifted(Bits(len), 2) \cup Bits(access), i * 4 + 16) <=>
        \/ b = i * 4 + 18 /\ 0 \in Bits(len)
        \/ b = i * 4 + 19 /\ 1 \in Bits(len)
        \/ b = i * 4 + 16 /\ 0 \in Bits(access)
        \/ b = i * 4 + 17 /\ 1 \in Bits(access)
  <2>1. \A c : c \in Shifted(Bits(len), 2) <=>
               (c = 2 /\ 0 \in Bits(len)) \/ (c = 3 /\ 1 \in Bits(len))
    <3>1. \A c : c \in Shifted(Bits(len), 2) <=> \E d \in Bits(len) : c = d + 2
      BY Zenon DEF Shifted
    <3>2. \A d \in Bits(len) : d = 0 \/ d = 1
      BY BitsOfField
    <3> QED
      BY <3>1, <3>2
  <2>2. \A d \in Bits(access) : d = 0 \/ d = 1
    BY BitsOfField
  <2>3. b \in Shifted(Shifted(Bits(len), 2) \cup Bits(access), i * 4 + 16) <=>
          \E c \in Shifted(Bits(len), 2) \cup Bits(access) : b = c + (i * 4 + 16)
    BY Zenon DEF Shifted
  <2>4. \A c \in Shifted(Bits(len), 2) \cup Bits(access) :
          \/ c = 2 /\ 0 \in Bits(len)
          \/ c = 3 /\ 1 \in Bits(len)
          \/ c = 0 /\ 0 \in Bits(access)
          \/ c = 1 /\ 1 \in Bits(access)
    BY <2>1, <2>2
  <2>5. /\ 0 \in Bits(len) => 2 \in Shifted(Bits(len), 2)
        /\ 1 \in Bits(len) => 3 \in Shifted(Bits(len), 2)
    BY <2>1
  <2> HIDE DEF Shifted
  <2> QED
    BY <2>3, <2>4, <2>5
<1>2. b \in Shifted(Bits(enable), i * 2) <=>
        \/ b = i * 2 /\ 0 \in Bits(enable)
        \/ b = i * 2 + 1 /\ 1 \in Bits(enable)
  <2>1. \A d \in Bits(enable) : d = 0 \/ d = 1
    BY BitsOfField
  <2>2. b \in Shifted(Bits(enable), i * 2) <=> \E d \in Bits(enable) : b = d + i * 2
    BY Zenon DEF Shifted
  <2> QED
    BY <2>1, <2>2
<1> QED
  BY <1>1, <1>2, BitsOfField DEF SetBits

SetFields(D, i, len, access, enable) ==
  (D \ Mask(i)) \cup SetBits(i, len, access, enable)

\* Setting the fields of an index reads back, and leaves those of the others.
LEMMA FieldsAreApart ==
  ASSUME NEW i \in 0..3, NEW j \in 0..3,
         NEW len \in 0..3, NEW access \in 0..3, NEW enable \in 0..3, NEW D
  PROVE  /\ Field(SetFields(D, i, len, access, enable), j * 4 + 18) =
              IF i = j THEN len ELSE Field(D, j * 4 + 18)
         /\ Field(SetFields(D, i, len, access, enable), j * 4 + 16) =
              IF i = j THEN access ELSE Field(D, j * 4 + 16)
         /\ Field(SetFields(D, i, len, access, enable), j * 2) =
              IF i = j THEN enable ELSE Field(D, j * 2)
<1> DEFINE new == (D \ Mask(i)) \cup SetBits(i, len, access, enable)
<1>1. ASSUME i = j
      PROVE  /\ Field(new, j * 4 + 18) = len
             /\ Field(new, j * 4 + 16) = access
             /\ Field(new, j * 2) = enable
  <2>1. /\ i * 4 + 18 \in new <=> len \in {1, 3}
        /\ i * 4 + 18 + 1 \in new <=> len \in {2, 3}
    BY MaskCovers, SetBitsPlaces
  <2>2. /\ i * 4 + 16 \in new <=> access \in {1, 3}
        /\ i * 4 + 16 + 1 \in new <=> access \in {2, 3}
    BY MaskCovers, SetBitsPlaces
  <2>3. /\ i * 2 \in new <=> enable \in {1, 3}
        /\ i * 2 + 1 \in new <=> enable \in {2, 3}
    BY MaskCovers, SetBitsPlaces
  <2> HIDE DEF new
  <2> QED
    BY <1>1, <2>1, <2>2, <2>3 DEF Field
<1>2. ASSUME i # j
      PROVE  /\ Field(new, j * 4 + 18) = Field(D, j * 4 + 18)
             /\ Field(new, j * 4 + 16) = Field(D, j * 4 + 16)
             /\ Field(new, j * 2) = Field(D, j * 2)
  <2>1. \A b \in j * 4 + 16 .. j * 4 + 19 : b \in new <=> b \in D
    BY <1>2, MaskCovers, SetBitsPlaces
  <2>2. \A b \in j * 2 .. j * 2 + 1 : b \in new <=> b \in D
    BY <1>2, MaskCovers, SetBitsPlaces
  <2>3. /\ j * 4 + 18 \in new <=> j * 4 + 18 \in D
        /\ j * 4 + 18 + 1 \in new <=> j * 4 + 18 + 1 \in D
        /\ j * 4 + 16 \in new <=> j * 4 + 16 \in D
        /\ j * 4 + 16 + 1 \in new <=> j * 4 + 16 + 1 \in D
    BY <2>1
  <2>4. /\ j * 2 \in new <=> j * 2 \in D
        /\ j * 2 + 1 \in new <=> j * 2 + 1 \in D
    BY <2>2
  <2> HIDE DEF new
  <2> QED
    BY <2>3, <2>4 DEF Field
<1> HIDE DEF new
<1>3. QED
  BY <1>1, <1>2 DEF SetFields, new

-----------------------------------------------------------------------------
(* The context                                                              *)

LEMMA IndicesFit == Indices \subseteq 0..3 /\ \A i \in Indices : i < MaxWatchpoints
BY WatchAssumption DEF Indices

LEMMA AsksFit ==
  ASSUME NEW ask \in Asks
  PROVE  /\ ask.len \in 0..3 /\ ask.type \in 0..3 /\ ask.enabled \in BOOLEAN
         /\ ask.addr \in Addrs \cup {Null}
         /\ ask = [addr |-> ask.addr, len |-> ask.len, type |-> ask.type,
                   enabled |-> ask.enabled]
<1>1. CASE ask = Off
  BY <1>1 DEF Off
<1>2. CASE ask \in [addr : Addrs, len : Lengths, type : BreakTypes, enabled : {TRUE}]
  <2>1. ask.addr \in Addrs /\ ask.len \in Lengths /\ ask.type \in BreakTypes /\ ask.enabled
    BY <1>2
  <2>2. Lengths \subseteq 0..3 /\ BreakTypes \subseteq 0..3
    BY WatchAssumption
  <2>3. ask = [addr |-> ask.addr, len |-> ask.len, type |-> ask.type,
               enabled |-> ask.enabled]
    BY <1>2
  <2>4. ask.enabled \in BOOLEAN
    BY <1>2
  <2> QED
    BY <2>1, <2>2, <2>3, <2>4
<1> QED
  BY <1>1, <1>2 DEF Asks

LEMMA ClearedIsOff ==
  /\ Cleared \in Registers
  /\ \A i \in Indices : Watched(Cleared, i) = Off
<1>1. \A by : Field({}, by) = 0
  BY DEF Field
<1> QED
  BY <1>1 DEF Cleared, Registers, Watched, Off

LEMMA RequestType ==
  ASSUME NEW d \in Registers, NEW i \in Indices, NEW ask \in Asks
  PROVE  WithRequest(d, i, ask) \in Registers
<1> DEFINE enable == IF ask.enabled THEN Enable ELSE 0
<1>1. enable \in 0..3 /\ i \in 0..3 /\ i <= MaxWatchpoints - 1 /\ MaxWatchpoints \in 1..4
  BY IndicesFit, WatchAssumption DEF Enable, Indices
<1>2. SetBits(i, ask.len, ask.type, enable) \subseteq 0 .. 4 * MaxWatchpoints + 15
  <2> HIDE DEF enable
  <2>1. SetBits(i, ask.len, ask.type, enable) \subseteq Int
    <3>1. Bits(ask.len) \subseteq 0..1 /\ Bits(ask.type) \subseteq 0..1 /\ Bits(enable) \subseteq 0..1
      BY <1>1, AsksFit, BitsOfField
    <3> QED
      BY <3>1, <1>1 DEF SetBits, Shifted
  <2> QED
    BY <2>1, <1>1, AsksFit, SetBitsPlaces
<1>3. [d.dr EXCEPT ![i] = ask.addr] \in [Indices -> Addrs \cup {Null}]
  BY AsksFit DEF Registers
<1>4. (d.dr7 \ Mask(i)) \cup SetBits(i, ask.len, ask.type, enable)
        \in SUBSET (0 .. 4 * MaxWatchpoints + 15)
  BY <1>2 DEF Registers
<1> QED
  BY <1>3, <1>4 DEF WithRequest, Registers

\* What the context holds after a request: the request at its index, and at the
\* others what it held.
LEMMA RequestReadsBack ==
  ASSUME NEW d \in Registers, NEW i \in Indices, NEW ask \in Asks, NEW j \in Indices
  PROVE  Watched(WithRequest(d, i, ask), j) = IF i = j THEN ask ELSE Watched(d, j)
<1> DEFINE enable == IF ask.enabled THEN Enable ELSE 0
           new == SetFields(d.dr7, i, ask.len, ask.type, enable)
<1>1. enable \in 0..3 /\ i \in 0..3 /\ j \in 0..3
  BY IndicesFit DEF Enable
<1>2. /\ Field(new, j * 4 + 18) = IF i = j THEN ask.len ELSE Field(d.dr7, j * 4 + 18)
      /\ Field(new, j * 4 + 16) = IF i = j THEN ask.type ELSE Field(d.dr7, j * 4 + 16)
      /\ Field(new, j * 2) = IF i = j THEN enable ELSE Field(d.dr7, j * 2)
  <2> HIDE DEF enable
  <2>1. ask.len \in 0..3 /\ ask.type \in 0..3
    BY AsksFit
  <2> QED
    BY <1>1, <2>1, FieldsAreApart
<1>3. enable # 0 <=> ask.enabled
  BY AsksFit DEF Enable
<1>4. [d.dr EXCEPT ![i] = ask.addr][j] = IF i = j THEN ask.addr ELSE d.dr[j]
  BY DEF Registers
<1>5. WithRequest(d, i, ask) = [dr |-> [d.dr EXCEPT ![i] = ask.addr], dr7 |-> new]
  BY DEF WithRequest, SetFields
<1> HIDE DEF new, enable
<1>6. Watched(WithRequest(d, i, ask), j) =
        [addr |-> IF i = j THEN ask.addr ELSE d.dr[j],
         len |-> IF i = j THEN ask.len ELSE Field(d.dr7, j * 4 + 18),
         type |-> IF i = j THEN ask.type ELSE Field(d.dr7, j * 4 + 16),
         enabled |-> IF i = j THEN enable # 0 ELSE Field(d.dr7, j * 2) # 0]
  BY <1>2, <1>4, <1>5 DEF Watched
<1>7. CASE i = j
  BY <1>3, <1>6, <1>7, AsksFit
<1>8. CASE i # j
  BY <1>6, <1>8 DEF Watched
<1> QED
  BY <1>7, <1>8

-----------------------------------------------------------------------------
(* The threads                                                              *)

\* The list of a process after its m-th thread has ended.
LEMMA RemoveAtProperties ==
  ASSUME NEW S, NEW s \in Seq(S), NEW m \in DOMAIN s
  PROVE  /\ RemoveAt(s, m) \in Seq(S)
         /\ Len(RemoveAt(s, m)) = Len(s) - 1
         /\ \A n \in 1 .. Len(s) - 1 :
              RemoveAt(s, m)[n] = IF n < m THEN s[n] ELSE s[n + 1]
<1>1. m \in 1 .. Len(s) /\ Len(s) \in Nat
  BY LenProperties
<1>2. /\ SubSeq(s, 1, m - 1) \in Seq(S) /\ Len(SubSeq(s, 1, m - 1)) = m - 1
      /\ \A n \in 1 .. m - 1 : SubSeq(s, 1, m - 1)[n] = s[n]
  BY <1>1, SubSeqProperties
<1>3. /\ SubSeq(s, m + 1, Len(s)) \in Seq(S) /\ Len(SubSeq(s, m + 1, Len(s))) = Len(s) - m
      /\ \A n \in 1 .. Len(s) - m : SubSeq(s, m + 1, Len(s))[n] = s[n + m]
  BY <1>1, SubSeqProperties
<1> DEFINE a == SubSeq(s, 1, m - 1)
           b == SubSeq(s, m + 1, Len(s))
<1>4. /\ a \o b \in Seq(S)
      /\ Len(a \o b) = Len(a) + Len(b)
      /\ \A n \in 1 .. Len(a) + Len(b) :
           (a \o b)[n] = IF n <= Len(a) THEN a[n] ELSE b[n - Len(a)]
  <2> HIDE DEF a, b
  <2> QED
    BY <1>2, <1>3, ConcatProperties DEF a, b
<1> HIDE DEF a, b
<1>5. /\ a \o b \in Seq(S)
      /\ Len(a \o b) = Len(s) - 1
      /\ \A n \in 1 .. Len(s) - 1 : (a \o b)[n] = IF n < m THEN s[n] ELSE s[n + 1]
  <2>1. Len(a) = m - 1 /\ Len(b) = Len(s) - m
    BY <1>2, <1>3 DEF a, b
  <2>2. \A n \in 1 .. m - 1 : (a \o b)[n] = s[n]
    <3>1. \A n \in 1 .. m - 1 : (a \o b)[n] = a[n]
      BY <1>1, <1>4, <2>1
    <3> QED
      BY <1>2, <3>1 DEF a
  <2>3. \A n \in m .. Len(s) - 1 : (a \o b)[n] = s[n + 1]
    <3> SUFFICES ASSUME NEW n \in m .. Len(s) - 1
                 PROVE  (a \o b)[n] = s[n + 1]
      OBVIOUS
    <3>1. /\ n \in 1 .. Len(a) + Len(b) /\ ~(n <= Len(a))
          /\ n - Len(a) \in 1 .. Len(s) - m /\ n - Len(a) + m = n + 1
      BY <1>1, <2>1
    <3>2. (a \o b)[n] = b[n - Len(a)]
      BY <1>4, <3>1
    <3>3. b[n - Len(a)] = s[n - Len(a) + m]
      BY <1>3, <3>1 DEF b
    <3> QED
      BY <3>1, <3>2, <3>3
  <2>4. Len(a \o b) = Len(s) - 1
    BY <1>1, <1>4, <2>1
  <2>5. ASSUME NEW n \in 1 .. Len(s) - 1
        PROVE  (a \o b)[n] = IF n < m THEN s[n] ELSE s[n + 1]
    <3>1. n \in 1 .. m - 1 \/ n \in m .. Len(s) - 1
      BY <1>1
    <3>2. CASE n \in 1 .. m - 1
      <4>1. n < m
        BY <1>1, <3>2
      <4>2. (a \o b)[n] = s[n]
        BY Zenon, <2>2, <3>2
      <4> QED
        BY Zenon, <4>1, <4>2
    <3>3. CASE n \in m .. Len(s) - 1
      <4>1. ~(n < m)
        BY <1>1, <3>3
      <4>2. (a \o b)[n] = s[n + 1]
        BY Zenon, <2>3, <3>3
      <4> QED
        BY Zenon, <4>1, <4>2
    <3> QED
      BY <3>1, <3>2, <3>3
  <2> QED
    BY <1>4, <2>4, <2>5
<1>6. RemoveAt(s, m) = a \o b
  BY Zenon DEF RemoveAt, a, b
<1> QED
  BY <1>5, <1>6

\* PT_GETLWPLIST lists the oldest threads.
LEMMA LwpListProperties ==
  ASSUME threads \in Seq(ThreadIds), NEW n \in Nat
  PROVE  /\ LwpList(n) \in Seq(ThreadIds)
         /\ \A m \in DOMAIN threads : m <= n =>
              m \in DOMAIN LwpList(n) /\ LwpList(n)[m] = threads[m]
<1> DEFINE l == IF n < Len(threads) THEN n ELSE Len(threads)
<1>1. l \in 0 .. Len(threads) /\ Len(threads) \in Nat
  BY LenProperties
<1>2. /\ SubSeq(threads, 1, l) \in Seq(ThreadIds) /\ Len(SubSeq(threads, 1, l)) = l
      /\ \A m \in 1 .. l : SubSeq(threads, 1, l)[m] = threads[m]
  <2> HIDE DEF l
  <2> QED
    BY <1>1, SubSeqProperties
<1>3. \A m \in DOMAIN threads : m <= n => m \in 1 .. l
  BY LenProperties
<1>4. DOMAIN SubSeq(threads, 1, l) = 1 .. l
  <2> HIDE DEF l
  <2> QED
    BY <1>2, LenProperties
<1> QED
  BY <1>2, <1>3, <1>4 DEF LwpList

-----------------------------------------------------------------------------
(* The inductive invariant                                                  *)

\* A request being served is of this session, and its index fits.
RequestFits == pc # "idle" => attached /\ request.i \in Indices

\* Between the calls, a thread that was counted is listed, for it is older than
\* those created since; and what was listed is copied in order.
CountedIsListed ==
  pc = "list" => \A m \in DOMAIN threads : threads[m] \in late \/ m <= nlwps

ListedAt(t) == \E m \in DOMAIN lwpids : m <= nlwps /\ lwpids[m] = t
CopiedAt(t) ==
  \E m \in DOMAIN lwpids : m <= nlwps /\ lwpids[m] = t /\ (m < k => regs[t] = watchdata)

ThreadsAreListed == pc = "record" => \A t \in Alive \ late : ListedAt(t)
ThreadsAreCopied == pc = "set" => \A t \in Alive \ late : CopiedAt(t)

SuccessMeansCopied ==
  attached /\ pc = "idle" /\ answer = "success" =>
    \A t \in Alive \ late : regs[t] = watchdata

IInv ==
  /\ TypeOK /\ RequestFits
  /\ CountedIsListed /\ ThreadsAreListed /\ ThreadsAreCopied /\ SuccessMeansCopied
  /\ Tidy => ContextIsAsked

\* A thread that ends leaves the others in their order.
LEMMA ExitKeepsOrder ==
  ASSUME threads \in Seq(ThreadIds), NEW m \in DOMAIN threads, threads' = RemoveAt(threads, m)
  PROVE  /\ threads' \in Seq(ThreadIds)
         /\ Alive' \subseteq Alive
         /\ \A n \in DOMAIN threads' : \E o \in DOMAIN threads :
              n <= o /\ threads'[n] = threads[o]
<1>1. /\ threads' \in Seq(ThreadIds) /\ Len(threads') = Len(threads) - 1
      /\ \A n \in 1 .. Len(threads) - 1 :
           threads'[n] = IF n < m THEN threads[n] ELSE threads[n + 1]
  BY RemoveAtProperties
<1>2. /\ DOMAIN threads' = 1 .. Len(threads) - 1 /\ DOMAIN threads = 1 .. Len(threads)
      /\ Len(threads) \in Nat
  BY <1>1, LenProperties
<1>3. ASSUME NEW n \in DOMAIN threads'
      PROVE  \E o \in DOMAIN threads : n <= o /\ threads'[n] = threads[o]
  <2>1. CASE n < m
    BY <1>1, <1>2, <2>1
  <2>2. CASE ~(n < m)
    <3>1. n + 1 \in DOMAIN threads /\ n <= n + 1 /\ threads'[n] = threads[n + 1]
      BY <1>1, <1>2, <2>2
    <3> QED
      BY <3>1
  <2> QED
    BY <2>1, <2>2
<1> QED
  BY <1>1, <1>3 DEF Alive, ToSet

LEMMA SpawnAppends ==
  ASSUME threads \in Seq(ThreadIds), NEW t \in ThreadIds, threads' = Append(threads, t)
  PROVE  /\ threads' \in Seq(ThreadIds)
         /\ Alive' = Alive \cup {t}
         /\ \A n \in DOMAIN threads' :
              threads'[n] = t \/ (n \in DOMAIN threads /\ threads'[n] = threads[n])
<1>1. /\ threads' \in Seq(ThreadIds) /\ Len(threads') = Len(threads) + 1
      /\ \A n \in 1 .. Len(threads) : threads'[n] = threads[n]
      /\ threads'[Len(threads) + 1] = t
  BY AppendProperties
<1>2. /\ DOMAIN threads' = 1 .. Len(threads) + 1 /\ DOMAIN threads = 1 .. Len(threads)
      /\ Len(threads) \in Nat
  BY <1>1, LenProperties
<1> QED
  BY <1>1, <1>2 DEF Alive, ToSet

\* What the handler's variables are, while it serves a request and after.
HandlerType ==
  /\ pc \in {"idle", "count", "list", "record", "set"}
  /\ request \in [i : 0 .. MaxWatchpoints, ask : Asks]
  /\ nlwps \in Nat /\ lwpids \in Seq(ThreadIds) /\ k \in Nat /\ k > 0
  /\ answer \in {"none", "other", "invalid index", "null", "error", "success"}

LEMMA FirstPlace ==
  ASSUME NEW x, x = 1
  PROVE  x \in Nat /\ x > 0
OBVIOUS

LEMMA NoRequestType ==
  NoRequest \in [i : 0 .. MaxWatchpoints, ask : Asks] /\ <<>> \in Seq(ThreadIds)
<1>1. 0 \in 0 .. MaxWatchpoints
  BY WatchAssumption
<1>2. Off \in Asks
  BY DEF Asks
<1> QED
  BY <1>1, <1>2 DEF NoRequest

LEMMA AnswerType ==
  ASSUME NEW a \in {"invalid index", "null", "error", "success"}, Answer(a)
  PROVE  HandlerType'
<1>1. pc' = "idle" /\ answer' = a /\ request' = NoRequest /\ nlwps' = 0
  BY DEF Answer
<1>2. lwpids' = <<>> /\ k' = 1
  BY DEF Answer
<1>3. k' \in Nat /\ k' > 0
  BY <1>2, FirstPlace, Zenon
<1> QED
  BY <1>1, <1>2, <1>3, NoRequestType DEF HandlerType

LEMMA InitInv == Init => IInv
<1> SUFFICES ASSUME Init PROVE IInv
  OBVIOUS
<1>1. PICK t \in ThreadIds : threads = <<t>>
  BY DEF Init
<1>2. Off \in Asks /\ 0 \in 0 .. MaxWatchpoints /\ 0 \in Nat
  BY WatchAssumption DEF Asks
<1>3. threads \in Seq(ThreadIds) /\ lwpids \in Seq(ThreadIds)
  BY <1>1 DEF Init
<1>4. Cleared \in Registers
  BY ClearedIsOff
<1>5. k \in Nat /\ k > 0
  <2>1. k = 1
    BY DEF Init
  <2> QED
    BY <2>1, FirstPlace, Zenon
<1>6. TypeOK
  BY <1>2, <1>3, <1>4, <1>5 DEF Init, TypeOK, NoRequest
<1> QED
  BY <1>6 DEF Init, IInv, RequestFits, CountedIsListed, ThreadsAreListed,
              ThreadsAreCopied, SuccessMeansCopied, ContextIsAsked

\* The types, action by action.
LEMMA TypeStep ==
  ASSUME TypeOK, RequestFits, [Next]_vars
  PROVE  TypeOK'
<1> USE DEF TypeOK
<1>a. /\ NoRequest \in [i : 0 .. MaxWatchpoints, ask : Asks] /\ <<>> \in Seq(ThreadIds)
      /\ Cleared \in Registers /\ Off \in Asks
  BY ClearedIsOff, NoRequestType DEF Asks
<1>1. ASSUME NEW t \in ThreadIds, Spawn(t) PROVE TypeOK'
  <2>1. threads' \in Seq(ThreadIds)
    BY <1>1, SpawnAppends DEF Spawn
  <2>2. late' \subseteq ThreadIds
    BY <1>1 DEF Spawn
  <2> QED
    BY <1>1, <2>1, <2>2 DEF Spawn, handler, locals
<1>2. ASSUME NEW m \in DOMAIN threads, Exit(m) PROVE TypeOK'
  <2>1. threads' \in Seq(ThreadIds)
    BY <1>2, ExitKeepsOrder DEF Exit
  <2> QED
    BY <1>2, <2>1 DEF Exit, handler, locals
<1>3. CASE Attach
  BY <1>3, <1>a DEF Attach, locals
<1>4. CASE Detach
  <2>1. regs' \in [ThreadIds -> Registers]
    BY <1>4, <1>a DEF Detach
  <2> QED
    BY <1>4, <2>1 DEF Detach, locals
<1>5. ASSUME NEW d \in Given, SetDbregs(d) PROVE TypeOK'
  <2>1. d \in Registers
    BY GivenAssumption
  <2>2. regs' \in [ThreadIds -> Registers]
    BY <1>5, <2>1 DEF SetDbregs
  <2> QED
    BY <1>5, <2>2 DEF SetDbregs, locals
<1>6. ASSUME NEW i \in 0 .. MaxWatchpoints, NEW ask \in Asks, Watch(i, ask) PROVE TypeOK'
  <2>1. CASE IndexFits(i) /\ UNCHANGED <<nlwps, lwpids, k, answer>>
    <3>1. [i |-> i, ask |-> ask] \in [i : 0 .. MaxWatchpoints, ask : Asks]
      OBVIOUS
    <3>2. pc' = "count" /\ request' = [i |-> i, ask |-> ask] /\ late' = {}
      BY <1>6, <2>1 DEF Watch
    <3>3. UNCHANGED <<threads, regs, attached, watchdata, asked>>
      BY <1>6 DEF Watch
    <3> QED
      BY <2>1, <3>1, <3>2, <3>3
  <2>2. CASE Answer("invalid index")
    BY <1>6, <2>2, AnswerType DEF Watch, HandlerType
  <2> QED
    BY <1>6, <2>1, <2>2 DEF Watch
<1>7. CASE Count
  <2>1. Len(threads) \in Nat
    BY LenProperties
  <2>2. CASE nlwps' = Len(threads) /\ pc' = "list" /\ UNCHANGED <<request, lwpids, k, answer>>
    BY <1>7, <2>1, <2>2 DEF Count
  <2>3. CASE Answer("null")
    BY <1>7, <2>3, AnswerType DEF Count, HandlerType
  <2> QED
    BY <1>7, <2>2, <2>3 DEF Count
<1>8. CASE List
  <2>1. LwpList(nlwps) \in Seq(ThreadIds)
    BY LwpListProperties
  <2>2. CASE lwpids' = LwpList(nlwps) /\ pc' = "record" /\ UNCHANGED <<request, nlwps, k, answer>>
    BY <1>8, <2>1, <2>2 DEF List
  <2>3. CASE Answer("error")
    BY <1>8, <2>3, AnswerType DEF List, HandlerType
  <2> QED
    BY <1>8, <2>2, <2>3 DEF List
<1>9. CASE Record
  <2>1. WithRequest(watchdata, request.i, request.ask) \in Registers
    BY <1>9, RequestType DEF Record, RequestFits
  <2>2. asked' \in [Indices -> Asks]
    BY <1>9 DEF Record
  <2>3. k' \in Nat /\ k' > 0
    <3>1. k' = 1
      BY <1>9 DEF Record
    <3> QED
      BY <3>1, FirstPlace, Zenon
  <2> QED
    BY <1>9, <2>1, <2>2, <2>3 DEF Record
<1>10. CASE SetThread
  <2>1. regs' \in [ThreadIds -> Registers]
    <3>1. CASE regs' = [regs EXCEPT ![lwpids[k]] = watchdata]
      BY <3>1
    <3>2. CASE regs' = regs
      BY <3>2
    <3> QED
      BY <1>10, <3>1, <3>2 DEF SetThread
  <2>2. HandlerType'
    <3>1. CASE k' = k + 1 /\ UNCHANGED <<pc, answer, request, nlwps, lwpids>>
      <4>1. k' \in Nat /\ k' > 0
        <5>1. k \in Nat /\ k > 0
          OBVIOUS
        <5>2. k' = k + 1
          BY <3>1, Zenon
        <5> HIDE DEF TypeOK
        <5> QED
          BY <5>1, <5>2
      <4>2. UNCHANGED <<pc, answer, request, nlwps, lwpids>>
        BY <3>1
      <4> QED
        BY <4>1, <4>2 DEF HandlerType
    <3>2. CASE Answer("error")
      BY <3>2, AnswerType
    <3> QED
      BY <1>10, <3>1, <3>2 DEF SetThread
  <2> QED
    BY <1>10, <2>1, <2>2 DEF SetThread, HandlerType
<1>11. CASE Succeed
  BY <1>11, AnswerType DEF Succeed, HandlerType
<1>12. CASE UNCHANGED vars
  BY <1>12 DEF vars, handler, locals
<1> QED
  BY <1>1, <1>2, <1>3, <1>4, <1>5, <1>6, <1>7, <1>8, <1>9, <1>10, <1>11, <1>12
     DEF Next, Handle

\* Steps that leave the context, the session and what was asked alone.
LEMMA ContextStep ==
  ASSUME TypeOK, RequestFits, ContextIsAsked, Tidy, [Next]_vars
  PROVE  ContextIsAsked'
<1>1. CASE UNCHANGED <<attached, watchdata, asked>>
  BY <1>1 DEF ContextIsAsked, Watched
<1>2. CASE Attach
  <2>1. watchdata' = Cleared /\ asked' = [i \in Indices |-> Off]
    BY <1>2 DEF Attach
  <2> QED
    BY <2>1, ClearedIsOff DEF ContextIsAsked
<1>3. CASE Detach
  BY <1>3 DEF Detach, ContextIsAsked
<1>4. CASE Record
  <2>1. /\ request.i \in Indices /\ request.ask \in Asks /\ watchdata \in Registers
        /\ asked \in [Indices -> Asks] /\ attached
    BY <1>4 DEF Record, RequestFits, TypeOK
  <2>2. /\ watchdata' = WithRequest(watchdata, request.i, request.ask)
        /\ asked' = [asked EXCEPT ![request.i] = request.ask]
    BY <1>4 DEF Record
  <2>3. ASSUME NEW j \in Indices
        PROVE  Watched(watchdata', j) = asked'[j]
    <3>1. Watched(watchdata', j) =
            IF request.i = j THEN request.ask ELSE Watched(watchdata, j)
      BY <2>1, <2>2, RequestReadsBack
    <3>2. Watched(watchdata, j) = asked[j]
      BY <2>1 DEF ContextIsAsked
    <3> QED
      BY <2>1, <2>2, <3>1, <3>2
  <2> QED
    BY <2>3 DEF ContextIsAsked
<1> QED
  BY <1>1, <1>2, <1>3, <1>4
     DEF Next, vars, Handle, Spawn, Exit, SetDbregs, Watch, Count, List, SetThread, Succeed,
         handler

LEMMA RequestStep ==
  ASSUME TypeOK, RequestFits, [Next]_vars
  PROVE  RequestFits'
<1>1. CASE UNCHANGED <<attached, pc, request>>
  BY <1>1 DEF RequestFits
<1>2. CASE pc' = "idle"
  BY <1>2 DEF RequestFits
<1>3. CASE pc # "idle" /\ UNCHANGED <<attached, request>>
  BY <1>3 DEF RequestFits
<1>4. ASSUME NEW i \in 0 .. MaxWatchpoints, NEW ask \in Asks, Watch(i, ask), pc' # "idle"
      PROVE  RequestFits'
  <2>1. i < MaxWatchpoints /\ attached' /\ request' = [i |-> i, ask |-> ask]
    BY <1>4 DEF Watch, IndexFits, Answer
  <2>2. i \in Indices
    BY <2>1, WatchAssumption DEF Indices
  <2> QED
    BY <2>1, <2>2 DEF RequestFits
<1>5. CASE Attach \/ Detach
  BY <1>5 DEF Attach, Detach, locals, RequestFits
<1> QED
  BY <1>1, <1>2, <1>3, <1>4, <1>5
     DEF Next, vars, Handle, Spawn, Exit, SetDbregs, Count, List, Record, SetThread, Succeed,
         Answer, handler, locals

LEMMA Places ==
  ASSUME TypeOK
  PROVE  /\ DOMAIN threads = 1 .. Len(threads) /\ Len(threads) \in Nat
         /\ DOMAIN lwpids = 1 .. Len(lwpids) /\ Len(lwpids) \in Nat
<1>1. threads \in Seq(ThreadIds) /\ lwpids \in Seq(ThreadIds)
  BY DEF TypeOK
<1> QED
  BY <1>1, LenProperties

LEMMA ThreadsAreTyped ==
  ASSUME TypeOK
  PROVE  Alive \subseteq ThreadIds
<1>1. threads \in Seq(ThreadIds)
  BY DEF TypeOK
<1> QED
  BY <1>1, ElementOfSeq, Places DEF Alive, ToSet

ThreadsInv ==
  CountedIsListed /\ ThreadsAreListed /\ ThreadsAreCopied /\ SuccessMeansCopied

\* A request that is answered otherwise than with success promises nothing.
LEMMA OtherAnswers ==
  ASSUME pc' \in {"idle", "count"}, answer' # "success" \/ pc' # "idle"
  PROVE  ThreadsInv'
BY DEF ThreadsInv, CountedIsListed, ThreadsAreListed, ThreadsAreCopied, SuccessMeansCopied

\* Fewer threads to account for, and nothing else changed.
LEMMA FewerThreads ==
  ASSUME ThreadsAreListed, ThreadsAreCopied, SuccessMeansCopied,
         UNCHANGED <<regs, attached, watchdata, handler>>,
         pc # "idle" \/ answer = "success" => (Alive \ late)' \subseteq Alive \ late
  PROVE  ThreadsAreListed' /\ ThreadsAreCopied' /\ SuccessMeansCopied'
<1>1. /\ pc' = pc /\ answer' = answer /\ nlwps' = nlwps /\ lwpids' = lwpids /\ k' = k
      /\ regs' = regs /\ attached' = attached /\ watchdata' = watchdata
  BY DEF handler, locals
<1>2. ThreadsAreListed'
  BY <1>1 DEF ThreadsAreListed, ListedAt
<1>3. ThreadsAreCopied'
  BY <1>1 DEF ThreadsAreCopied, CopiedAt
<1>4. SuccessMeansCopied'
  BY <1>1 DEF SuccessMeansCopied
<1> QED
  BY <1>2, <1>3, <1>4

LEMMA SpawnThreads ==
  ASSUME TypeOK, ThreadsInv, NEW t \in ThreadIds, Spawn(t)
  PROVE  ThreadsInv'
<1>1. /\ Alive' = Alive \cup {t}
      /\ \A n \in DOMAIN threads' :
           threads'[n] = t \/ (n \in DOMAIN threads /\ threads'[n] = threads[n])
  BY SpawnAppends DEF Spawn, TypeOK
<1>2. pc # "idle" \/ answer = "success" => late' = late \cup {t}
  BY DEF Spawn
<1>3. UNCHANGED <<regs, attached, watchdata, handler>>
  BY DEF Spawn
<1>4. ThreadsAreListed' /\ ThreadsAreCopied' /\ SuccessMeansCopied'
  BY <1>1, <1>2, <1>3, FewerThreads DEF ThreadsInv
<1>5. CountedIsListed'
  BY <1>1, <1>2, <1>3 DEF ThreadsInv, CountedIsListed, handler, locals
<1> QED
  BY <1>4, <1>5 DEF ThreadsInv

LEMMA ExitThreads ==
  ASSUME TypeOK, ThreadsInv, NEW m \in DOMAIN threads, Exit(m)
  PROVE  ThreadsInv'
<1>1. /\ Alive' \subseteq Alive
      /\ \A n \in DOMAIN threads' : \E o \in DOMAIN threads :
           n <= o /\ threads'[n] = threads[o]
  BY ExitKeepsOrder DEF Exit, TypeOK
<1>2. UNCHANGED <<regs, attached, watchdata, handler>> /\ late' = late
  BY DEF Exit
<1>3. ThreadsAreListed' /\ ThreadsAreCopied' /\ SuccessMeansCopied'
  BY <1>1, <1>2, FewerThreads DEF ThreadsInv
<1>4. threads' \in Seq(ThreadIds) /\ threads \in Seq(ThreadIds) /\ nlwps \in Nat
  BY ExitKeepsOrder DEF Exit, TypeOK
<1>5. DOMAIN threads' \subseteq Nat /\ DOMAIN threads \subseteq Nat
  BY <1>4, LenProperties
<1>6. CountedIsListed'
  <2> SUFFICES ASSUME pc = "list", NEW n \in DOMAIN threads'
               PROVE  threads'[n] \in late \/ n <= nlwps
    BY <1>2 DEF CountedIsListed, handler, locals
  <2>1. PICK o \in DOMAIN threads : n <= o /\ threads'[n] = threads[o]
    BY <1>1
  <2>2. threads[o] \in late \/ o <= nlwps
    BY DEF ThreadsInv, CountedIsListed
  <2> QED
    BY <1>4, <1>5, <2>1, <2>2
<1> QED
  BY <1>3, <1>6 DEF ThreadsInv

LEMMA CountThreads ==
  ASSUME TypeOK, Count
  PROVE  ThreadsInv'
<1>1. CASE Answer("null")
  BY <1>1, OtherAnswers DEF Answer
<1>2. CASE nlwps' = Len(threads) /\ pc' = "list"
  <2>1. \A m \in DOMAIN threads : m <= Len(threads)
    BY Places
  <2>2. threads' = threads
    BY DEF Count
  <2> QED
    BY <1>2, <2>1, <2>2 DEF ThreadsInv, CountedIsListed, ThreadsAreListed,
                            ThreadsAreCopied, SuccessMeansCopied
<1> QED
  BY <1>1, <1>2 DEF Count

LEMMA ListThreads ==
  ASSUME TypeOK, ThreadsInv, List
  PROVE  ThreadsInv'
<1>1. CASE Answer("error")
  BY <1>1, OtherAnswers DEF Answer
<1>2. CASE lwpids' = LwpList(nlwps) /\ pc' = "record" /\ nlwps' = nlwps
  <2>1. threads' = threads /\ late' = late /\ pc = "list"
    BY DEF List
  <2>2. ASSUME NEW t \in Alive \ late
        PROVE  \E m \in DOMAIN LwpList(nlwps) : m <= nlwps /\ LwpList(nlwps)[m] = t
    <3>1. PICK m \in DOMAIN threads : threads[m] = t
      BY DEF Alive, ToSet
    <3>2. m <= nlwps
      BY <2>1, <2>2, <3>1 DEF ThreadsInv, CountedIsListed
    <3> QED
      BY <3>1, <3>2, LwpListProperties DEF TypeOK
  <2>3. Alive' = Alive
    BY <2>1 DEF Alive
  <2>4. ThreadsAreListed'
    BY <1>2, <2>1, <2>2, <2>3 DEF ThreadsAreListed, ListedAt
  <2> QED
    BY <1>2, <2>4 DEF ThreadsInv, CountedIsListed, ThreadsAreCopied, SuccessMeansCopied
<1> QED
  BY <1>1, <1>2 DEF List

LEMMA RecordThreads ==
  ASSUME TypeOK, ThreadsInv, Record
  PROVE  ThreadsInv'
<1>1. /\ pc = "record" /\ pc' = "set" /\ k' = 1
      /\ UNCHANGED <<threads, late, nlwps, lwpids>>
  BY DEF Record
<1>2. \A m \in DOMAIN lwpids : ~(m < 1)
  BY Places
<1>3. Alive' = Alive
  BY <1>1 DEF Alive
<1>4. ThreadsAreCopied'
  BY <1>1, <1>2, <1>3 DEF ThreadsInv, ThreadsAreListed, ListedAt, ThreadsAreCopied, CopiedAt
<1> QED
  BY <1>1, <1>4 DEF ThreadsInv, CountedIsListed, ThreadsAreListed, SuccessMeansCopied

LEMMA SetThreads ==
  ASSUME TypeOK, ThreadsInv, SetThread
  PROVE  ThreadsInv'
<1>1. CASE Answer("error")
  BY <1>1, OtherAnswers DEF Answer
<1>2. CASE k' = k + 1 /\ UNCHANGED <<pc, answer, request, nlwps, lwpids>>
  <2>1. /\ pc = "set" /\ pc' = "set" /\ nlwps' = nlwps /\ lwpids' = lwpids /\ k' = k + 1
        /\ UNCHANGED <<threads, watchdata, late>>
    BY <1>2 DEF SetThread
  <2>2. \/ /\ k \in DOMAIN lwpids /\ regs' = [regs EXCEPT ![lwpids[k]] = watchdata]
        \/ /\ \A m \in DOMAIN lwpids : m < k
           /\ regs' = regs
    <3>1. DOMAIN lwpids = 1 .. Len(lwpids) /\ Len(lwpids) \in Nat
      BY Places
    <3>2. k \in Nat /\ k > 0
      BY DEF TypeOK
    <3> QED
      BY <1>2, <3>1, <3>2 DEF SetThread, Answer
  <2>3. ASSUME NEW t \in Alive \ late
        PROVE  \E m \in DOMAIN lwpids :
                 m <= nlwps /\ lwpids[m] = t /\ (m < k + 1 => regs'[t] = watchdata)
    <3>1. PICK m \in DOMAIN lwpids :
            m <= nlwps /\ lwpids[m] = t /\ (m < k => regs[t] = watchdata)
      BY <2>1, <2>3 DEF ThreadsInv, ThreadsAreCopied, CopiedAt
    <3>2. m \in Nat /\ k \in Nat /\ t \in ThreadIds /\ regs \in [ThreadIds -> Registers]
      <4>1. m \in Nat
        BY <3>1, Places
      <4>2. k \in Nat /\ t \in ThreadIds /\ regs \in [ThreadIds -> Registers]
        BY ThreadsAreTyped DEF TypeOK
      <4> QED
        BY <4>1, <4>2
    <3>3. m < k + 1 => regs'[t] = watchdata
      BY <2>2, <3>1, <3>2
    <3> QED
      BY <3>1, <3>3
  <2>4. Alive' = Alive
    BY <2>1 DEF Alive
  <2>5. ThreadsAreCopied'
    BY <2>1, <2>3, <2>4 DEF ThreadsAreCopied, CopiedAt
  <2> QED
    BY <2>1, <2>5 DEF ThreadsInv, CountedIsListed, ThreadsAreListed, SuccessMeansCopied
<1> QED
  BY <1>1, <1>2 DEF SetThread

LEMMA ThreadsStep ==
  ASSUME TypeOK, ThreadsInv, [Next]_vars
  PROVE  ThreadsInv'
<1>1. ASSUME NEW t \in ThreadIds, Spawn(t) PROVE ThreadsInv'
  BY <1>1, SpawnThreads
<1>2. ASSUME NEW m \in DOMAIN threads, Exit(m) PROVE ThreadsInv'
  BY <1>2, ExitThreads
<1>3. CASE Attach \/ Detach
  BY <1>3, OtherAnswers DEF Attach, Detach
<1>4. ASSUME NEW d \in Given, SetDbregs(d) PROVE ThreadsInv'
  BY <1>4, OtherAnswers DEF SetDbregs
<1>5. ASSUME NEW i \in 0 .. MaxWatchpoints, NEW ask \in Asks, Watch(i, ask) PROVE ThreadsInv'
  BY <1>5, OtherAnswers DEF Watch, Answer
<1>6. CASE Count
  BY <1>6, CountThreads
<1>7. CASE List
  BY <1>7, ListThreads
<1>8. CASE Record
  BY <1>8, RecordThreads
<1>9. CASE SetThread
  BY <1>9, SetThreads
<1>10. CASE Succeed
  <2>1. /\ pc = "set" /\ ~More /\ pc' = "idle"
        /\ UNCHANGED <<threads, regs, watchdata, late>>
    BY <1>10 DEF Succeed, Answer
  <2>2. ASSUME NEW t \in Alive \ late
        PROVE  regs[t] = watchdata
    <3>1. PICK m \in DOMAIN lwpids :
            m <= nlwps /\ lwpids[m] = t /\ (m < k => regs[t] = watchdata)
      BY <2>1, <2>2 DEF ThreadsInv, ThreadsAreCopied, CopiedAt
    <3>2. m \in Nat /\ k \in Nat /\ nlwps \in Nat
      <4>1. m \in Nat
        BY <3>1, Places
      <4>2. k \in Nat /\ nlwps \in Nat
        BY DEF TypeOK
      <4> QED
        BY <4>1, <4>2
    <3>3. m < k
      BY <2>1, <3>1, <3>2 DEF More
    <3> QED
      BY <3>1, <3>3
  <2>3. Alive' = Alive
    BY <2>1 DEF Alive
  <2> QED
    BY <2>1, <2>2, <2>3 DEF ThreadsInv, CountedIsListed, ThreadsAreListed,
                            ThreadsAreCopied, SuccessMeansCopied
<1>11. CASE UNCHANGED vars
  <2>1. UNCHANGED <<regs, attached, watchdata, handler>> /\ threads' = threads /\ late' = late
    BY <1>11 DEF vars
  <2>2. (Alive \ late)' = Alive \ late
    BY <2>1 DEF Alive
  <2>3. ThreadsAreListed' /\ ThreadsAreCopied' /\ SuccessMeansCopied'
    BY <2>1, <2>2, FewerThreads DEF ThreadsInv
  <2>4. CountedIsListed'
    BY <2>1 DEF ThreadsInv, CountedIsListed, handler, locals
  <2> QED
    BY <2>3, <2>4 DEF ThreadsInv
<1> QED
  BY <1>1, <1>2, <1>3, <1>4, <1>5, <1>6, <1>7, <1>8, <1>9, <1>10, <1>11 DEF Next, Handle

\* The invariant holds of every state that is reached.
THEOREM Inductive == Spec => []IInv
<1>1. IInv /\ [Next]_vars => IInv'
  <2> SUFFICES ASSUME IInv, [Next]_vars PROVE IInv'
    OBVIOUS
  <2>1. TypeOK' /\ RequestFits'
    BY TypeStep, RequestStep DEF IInv
  <2>2. ThreadsInv'
    BY ThreadsStep DEF IInv, ThreadsInv
  <2>3. (Tidy => ContextIsAsked)'
    BY ContextStep DEF IInv
  <2> QED
    BY <2>1, <2>2, <2>3 DEF IInv, ThreadsInv
<1> QED
  BY <1>1, InitInv, PTL DEF Spec

-----------------------------------------------------------------------------
(* Results                                                                  *)

\* The variables of the session, the handler and the threads keep their types: no
\* request reaches an index past the last, and dr7 keeps to the bits the indices
\* have (debug_watchpt_handle).
THEOREM TypesHold == Spec => []TypeOK
<1>1. IInv => TypeOK
  BY DEF IInv
<1> QED
  BY <1>1, Inductive, PTL

\* For every number of indices and every address, length and kind: the registers of
\* the context are what a tool that makes a connection for each session asked for
\* (debug_watchpt_handle, DBREG_DR7_MASK, DBREG_DR7_SET).
THEOREM ContextHolds == ASSUME Tidy PROVE Spec => []ContextIsAsked
<1>1. IInv => ContextIsAsked
  BY DEF IInv
<1> QED
  BY <1>1, Inductive, PTL

\* For every process whose threads come and go: after CMD_SUCCESS every thread that
\* was counted and is alive watches what was asked for (debug_watchpt_handle).
THEOREM SuccessHolds == ASSUME Tidy PROVE Spec => []ThreadsWatchWhatWasAsked
<1>1. IInv => ThreadsWatchWhatWasAsked
  BY DEF IInv, SuccessMeansCopied, ContextIsAsked, ThreadsWatchWhatWasAsked, Watched
<1> QED
  BY <1>1, Inductive, PTL

=============================================================================
