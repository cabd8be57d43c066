--------------------------- MODULE CommandsProofs ---------------------------
(***************************************************************************)
(* The dialogue of a tool and its handler, for every NET_MAX_LENGTH, every  *)
(* transfer length, every choice of commands and every fault.  The script   *)
(* of a handler and the answers still on their way, one after the other,    *)
(* always meet what the tool wants, with the bytes in between: Meets says   *)
(* how, a step at either end takes one letter from each, and at the end of  *)
(* both the next request begins.  CMD_PROC_PROTECT, which answers twice, is *)
(* where that fails.                                                        *)
(***************************************************************************)
EXTENDS Commands, Integers, SequenceTheorems, TLAPS

\* The letters of the dialogue: steps of a handler and wants of a tool.
Kinds == {"ok", "err", "data", "end", "take", "apply", "keep", "drop",
          "status", "get", "give", "list", "closed"}
Steps == [do : Kinds, size : Nat]
Answers == {"ok", "err", "data", "end"}

\* What travels to the server.
Messages ==
  {m \in [what : {"request", "bytes"}, req : Requests \cup {NoRequest}, size : Nat] :
     m.what = "request" => m.req \in Requests}

\* Every script ends in its return and nowhere else, and what it applies it
\* has just taken.
WellFormed(S) ==
  /\ Len(S) > 0 /\ S[Len(S)] \in {Keep, Drop}
  /\ \A k \in 1..Len(S) - 1 : S[k].do \notin {"keep", "drop"}
  /\ \A k \in 2..Len(S) : S[k].do = "apply" => S[k - 1].do = "take"

\* A tool that owes bytes expects something in return.
GivesFirst(W) == \A k \in 1..Len(W) : W[k].do = "give" => k < Len(W)

One(S, a)    == Len(S) = 1 /\ S[1] = a
Two(S, a, b) == Len(S) = 2 /\ S[1] = a /\ S[2] = b

\* The answers to come carry n bytes: full pieces of c and what is left.
Downloads(S, n) ==
  /\ Len(S) > 1 /\ S[Len(S)] = Keep
  /\ \E c \in {Word, NetMax} :
       /\ (Len(S) - 2) * c < n
       /\ \A k \in 1..Len(S) - 1 :
            S[k] = Data(IF k < Len(S) - 1 THEN c ELSE n - (Len(S) - 2) * c)

\* Matches, the end flag and the return of a scan.
Lists(S) ==
  /\ Len(S) > 1 /\ S[Len(S)] = Keep /\ S[Len(S) - 1] = End
  /\ \A k \in 1..Len(S) - 2 : S[k] = Data(Word)

\* What follows the last byte taken, by what the tool then waits for.
Closes(S, W) ==
  \/ One(W, Status) /\ (Two(S, Ok, Keep) \/ Two(S, Err, Drop))
  \/ /\ Two(W, Status, List)
     /\ \/ S # <<>> /\ S[1] = Ok /\ (Lists(Tail(S)) \/ Two(Tail(S), Err, Drop))
        \/ Two(S, Err, Drop)

\* The handler takes n bytes in full pieces, applies each, and answers.
Pieces(S, n, W) ==
  /\ One(W, Status)
  /\ \E m \in 1..Len(S) :
       /\ Len(S) = 2 * m + 2 /\ S[2 * m + 1] = Ok /\ S[2 * m + 2] = Keep
       /\ (m - 1) * NetMax < n
       /\ \A k \in 1..2 * m :
            S[k] = IF k % 2 = 0 THEN Apply
                   ELSE Take(IF k < 2 * m - 1 THEN NetMax ELSE n - (m - 1) * NetMax)

\* ... or takes them at once.
AtOnce(S, n, W) ==
  /\ S # <<>> /\ S[1] = Take(n)
  /\ \/ Closes(Tail(S), W)
     \/ Tail(S) # <<>> /\ Tail(S)[1] = Apply /\ Closes(Tail(Tail(S)), W)

\* The tool has n bytes to send, and the handler waits for them.
Uploads(S, n, W) == n > 0 /\ (Pieces(S, n, W) \/ AtOnce(S, n, W))

\* The handler is about to drop its client, having told it at most of a failure.
Dropping(S, W) == One(S, Drop) \/ (W # <<>> /\ Two(S, Err, Drop))

\* Nothing is left to say.
Resting(S, W) == W = <<>> /\ One(S, Keep)

\* The request is refused, and the client stays.
Refusing(S, W) == W # <<>> /\ W[1] = Status /\ Two(S, Err, Keep)

\* The tool reads a list, or what it has been promised.
Listing(S, W)  == One(W, List) /\ Lists(S)
Fetching(S, W) == Len(W) = 1 /\ W[1].do = "get" /\ Downloads(S, W[1].size)

\* The tool owes bytes, and the handler waits for them.
Offering(S, W) == W # <<>> /\ W[1].do = "give" /\ Uploads(S, W[1].size, Tail(W))

\* The request is granted: data goes one way or the other.
Granting(S, W) ==
  /\ S # <<>> /\ W # <<>> /\ S[1] = Ok /\ W[1] = Status
  /\ Fetching(Tail(S), Tail(W)) \/ Offering(Tail(S), Tail(W))

\* The bytes are there, or some of them.
Sent(S, W, B) == Len(B) = 1 /\ B[1] = Bytes(B[1].size) /\ Uploads(S, B[1].size, W)
Taken(S, W, B) ==
  /\ S # <<>> /\ S[1] = Apply
  /\ Sent(Tail(S), W, B) \/ (B = <<>> /\ Closes(Tail(S), W))

\* The answers on their way and the rest of the script, S, meet what the tool
\* wants, W, with the bytes B between them.
Meets(S, W, B) ==
  \/ Dropping(S, W)
  \/ /\ B = <<>>
     /\ \/ Resting(S, W) \/ Refusing(S, W) \/ Closes(S, W) \/ Listing(S, W)
        \/ Fetching(S, W) \/ Offering(S, W) \/ Granting(S, W)
  \/ Sent(S, W, B) \/ Taken(S, W, B)

\* A handler that waits for a request has kept its client, one that has
\* returned has dropped it.
Rest == CASE hpc = "run" -> todo
          [] hpc = "closed" -> <<Drop>>
          [] OTHER -> <<Keep>>

\* What is on its way, and what the handler is still to do.
Stream == toTool \o Rest

\* What of its request r the tool has sent, B, and what it still wants, W.
Owes(r, W, B) ==
  \/ r.bare /\ B = <<>> /\ W = Wants(r)
  \/ ~r.bare /\ B = <<>> /\ W = <<Give(Word)>> \o Wants(r)
  \/ ~r.bare /\ B = <<Bytes(Word)>> /\ W = Wants(r)
  \/ /\ ~r.bare /\ r.name \in TextNames
     /\ B = <<Bytes(Word), Bytes(r.length)>> /\ One(W, Status)

\* A request on its way, or one whose payload is.
Asked ==
  /\ tool = "busy" /\ toTool = <<>>
  /\ \/ /\ hpc = "loop" \/ (hpc = "run" /\ One(todo, Keep))
        /\ toServer # <<>> /\ \E r \in Requests : toServer[1] = Request(r) /\ Owes(r, wants, Tail(toServer))
     \/ hpc = "payload" /\ req \in Requests /\ ~req.bare /\ Owes(req, wants, toServer)

\* The handler is at a request whose tool has sent all it could, or at none.
Answered == hpc # "payload" /\ Meets(Stream, wants, toServer)

\* A tool that is neither gone nor confused has its request on its way, or the
\* server at it.
Dialogue ==
  tool \in {"idle", "busy"} =>
    /\ tool = "idle" <=> wants = <<>>
    /\ Asked \/ Answered

\* What was taken is applied before anything is said.
Settled == hpc = "run" /\ todo[1].do = "apply" => toTool = <<>>

\* Who has ended, and what is left of what was on its way.
Ends ==
  /\ conn = "closed" <=> hpc = "closed"
  /\ hpc # "run" => todo = <<>>
  /\ conn = "closed" => toServer = <<>>
  /\ conn = "open" => tool # "gone"
  /\ conn \in {"left", "reset", "spent"} => tool = "gone"
  /\ tool = "gone" => toTool = <<>>

\* A handler applies what it has filled, or the socket has failed.
Running ==
  /\ todo \in Seq(Steps)
  /\ hpc = "payload" => req \in Requests
  /\ hpc = "run" => WellFormed(todo)
  /\ hpc = "run" /\ todo[1].do = "apply" => filled \/ conn = "spent"

\* Only answers go to the tool, only requests and bytes to the server.
Traffic ==
  /\ toServer \in Seq(Messages)
  /\ toTool \in Seq(Steps) /\ \A k \in 1..Len(toTool) : toTool[k].do \in Answers
  /\ wants \in Seq(Steps) /\ GivesFirst(wants)

\* What holds whatever the tool asks for.
Basis == TypeOK /\ Ends /\ Running /\ Traffic /\ InventedAfterReset

\* Every word said is meant for the tool as it stands.
Talk == Settled /\ Dialogue /\ ConfusedIsDropped

-----------------------------------------------------------------------------
\* Letters and sequences of them.

\* A step has the letter and the size it is made of.
LEMMA StepIs ==
  ASSUME NEW k \in Kinds, NEW n \in Nat
  PROVE Step(k, n) \in Steps /\ Step(k, n).do = k /\ Step(k, n).size = n
BY DEF Steps, Step

\* A step is its letter and its size.
LEMMA StepEqual == ASSUME NEW s \in Steps PROVE s = Step(s.do, s.size)
BY DEF Steps, Step

\* Every letter is a step.
LEMMA Letters ==
  /\ Ok \in Steps /\ Err \in Steps /\ End \in Steps /\ Apply \in Steps
  /\ Keep \in Steps /\ Drop \in Steps
  /\ Status \in Steps /\ List \in Steps /\ Closed \in Steps
  /\ \A n \in Nat : Data(n) \in Steps /\ Take(n) \in Steps /\ Get(n) \in Steps /\ Give(n) \in Steps
<1>1. "ok" \in Kinds /\ "err" \in Kinds /\ "end" \in Kinds /\ "apply" \in Kinds /\ "keep" \in Kinds
      /\ "drop" \in Kinds /\ "status" \in Kinds /\ "list" \in Kinds /\ "closed" \in Kinds
      /\ "data" \in Kinds /\ "take" \in Kinds /\ "get" \in Kinds /\ "give" \in Kinds
  BY DEF Kinds
<1>2. QED
  BY <1>1, StepIs DEF Ok, Err, End, Apply, Keep, Drop, Data, Take, Status, List, Closed, Get, Give

\* The letters differ.
LEMMA Fields ==
  /\ Ok.do = "ok" /\ Err.do = "err" /\ End.do = "end" /\ Apply.do = "apply" /\ Keep.do = "keep" /\ Drop.do = "drop"
  /\ Status.do = "status" /\ List.do = "list" /\ Closed.do = "closed"
  /\ \A n : /\ Data(n).do = "data" /\ Data(n).size = n
            /\ Take(n).do = "take" /\ Take(n).size = n
            /\ Get(n).do = "get" /\ Get(n).size = n
            /\ Give(n).do = "give" /\ Give(n).size = n
BY DEF Ok, Err, End, Apply, Keep, Drop, Data, Take, Status, List, Closed, Get, Give, Step

\* The first letter of a sequence, and the rest.
LEMMA SeqTail == ASSUME NEW s \in Seq(Steps), s # <<>>
 PROVE /\ Head(s) = s[1] /\ s[1] \in Steps /\ Len(s) > 0 /\ Len(s) \in Nat
       /\ Tail(s) \in Seq(Steps) /\ Len(Tail(s)) = Len(s) - 1
       /\ \A i \in 1..Len(s)-1 : Tail(s)[i] = s[i+1]
OBVIOUS

\* Two sequences, one after the other.
LEMMA SeqConcat == ASSUME NEW s \in Seq(Steps), NEW t \in Seq(Steps)
 PROVE /\ s \o t \in Seq(Steps) /\ Len(s \o t) = Len(s) + Len(t)
       /\ \A i \in 1..Len(s) + Len(t) : (s \o t)[i] = IF i <= Len(s) THEN s[i] ELSE t[i - Len(s)]
OBVIOUS

\* s is h, d and t one after the other.
Joined(s, h, d, t) ==
  /\ s \in Seq(Steps) /\ Len(s) = Len(h) + Len(d) + Len(t)
  /\ \A i \in 1..Len(h) + Len(d) + Len(t) :
       s[i] = IF i <= Len(h) THEN h[i]
              ELSE IF i <= Len(h) + Len(d) THEN d[i - Len(h)]
              ELSE t[i - Len(h) - Len(d)]

\* Three sequences, one after the other.
LEMMA SeqBracket ==
  ASSUME NEW h \in Seq(Steps), NEW d \in Seq(Steps), NEW t \in Seq(Steps)
  PROVE  Joined(h \o d \o t, h, d, t)
<1> DEFINE f == h \o d
           g == f \o t
<1>1. /\ f \in Seq(Steps) /\ Len(f) = Len(h) + Len(d)
      /\ \A i \in 1..Len(h) + Len(d) : f[i] = IF i <= Len(h) THEN h[i] ELSE d[i - Len(h)]
  BY SeqConcat
<1> HIDE DEF f
<1>2. /\ g \in Seq(Steps) /\ Len(g) = Len(f) + Len(t)
      /\ \A i \in 1..Len(f) + Len(t) : g[i] = IF i <= Len(f) THEN f[i] ELSE t[i - Len(f)]
  BY <1>1, SeqConcat
<1> HIDE DEF g
<1>3. Len(h) \in Nat /\ Len(d) \in Nat /\ Len(t) \in Nat OBVIOUS
<1>4. \A i \in 1..Len(h) + Len(d) + Len(t) :
        g[i] = IF i <= Len(h) THEN h[i] ELSE IF i <= Len(h) + Len(d) THEN d[i - Len(h)]
               ELSE t[i - Len(h) - Len(d)]
  <2> TAKE i \in 1..Len(h) + Len(d) + Len(t)
  <2>1. CASE i <= Len(f) BY <2>1, <1>1, <1>2, <1>3
  <2>2. CASE i > Len(f)
    <3>1. g[i] = t[i - Len(f)] BY <2>2, <1>1, <1>2, <1>3
    <3>2. i - Len(f) = i - Len(h) - Len(d) BY <1>1, <1>3
    <3> QED BY <2>2, <3>1, <3>2, <1>1, <1>3
  <2> QED BY <2>1, <2>2, <1>1, <1>3
<1>5. g \in Seq(Steps) /\ Len(g) = Len(h) + Len(d) + Len(t) BY <1>1, <1>2
<1>6. QED BY <1>4, <1>5 DEF f, g, Joined

-----------------------------------------------------------------------------
\* The pieces of a transfer.

\* A product grows with its factor.
LEMMA Times ==
  ASSUME NEW a \in Nat, NEW b \in Nat, NEW c \in Nat, a < b
  PROVE a * c <= (b - 1) * c /\ (b - 1) * c = b * c - c
<1>1. b - 1 \in Nat /\ b - 1 - a \in Nat OBVIOUS
<1>2. (b - 1 - a) * c \in Nat BY <1>1
<1>3. (b - 1 - a) * c = (b - 1) * c - a * c OBVIOUS
<1>4. QED BY <1>2, <1>3

\* How many pieces a transfer has, and how long each is.
Count(len) == (len + NetMax - 1) \div NetMax
Piece(len, i) == IF i < Count(len) THEN NetMax ELSE len - (Count(len) - 1) * NetMax

\* The loop of proc_read_handler and proc_write_handler: the pieces are not empty,
\* all but the last are full, and together they are len bytes.
LEMMA Chunks ==
  ASSUME NEW len \in Nat \ {0}
  PROVE  /\ Count(len) \in Nat \ {0} /\ (Count(len) - 1) * NetMax < len
         /\ DOMAIN ChunksOf(len) = 1..Count(len) /\ Len(ChunksOf(len)) = Count(len)
         /\ \A i \in 1..Count(len) : ChunksOf(len)[i] = Piece(len, i)
         /\ \A i \in 1..Count(len) : Piece(len, i) \in Nat \ {0}
<1> DEFINE m == Count(len)
<1> NetMax \in Nat \ {0} BY CommandsAssumption
<1>1. m \in Nat \ {0} /\ (m - 1) * NetMax < len /\ len <= m * NetMax BY DEF Count
<1> HIDE DEF m
<1>2. DOMAIN ChunksOf(len) = 1..m /\ Len(ChunksOf(len)) = m BY <1>1 DEF ChunksOf, Count, m
<1>3. ASSUME NEW i \in 1..m, i < m PROVE i * NetMax <= len
  BY <1>1, <1>3, Times
<1>4. ASSUME m * NetMax > len PROVE len % NetMax = len - (m - 1) * NetMax
  <2>1. m * NetMax = (m - 1) * NetMax + NetMax BY <1>1
  <2>2. len - (m - 1) * NetMax \in 0..NetMax - 1 BY <1>1, <1>4, <2>1
  <2>. DEFINE r == len - (m - 1) * NetMax
  <2>3. r \in 0..NetMax - 1 /\ len = (m - 1) * NetMax + r BY <2>2, <1>1
  <2>. HIDE DEF r
  <2>. DEFINE q == m - 1  d == len \div NetMax  t == len % NetMax
  <2>4. len = q * NetMax + r /\ len = d * NetMax + t /\ t \in 0..NetMax - 1 /\ d \in Int /\ q \in Int
    BY <2>3, <1>1
  <2>. HIDE DEF q, d, t
  <2>5. (q - d) * NetMax = t - r BY <2>4, <2>3
  <2>6. q - d \in Int /\ -NetMax < t - r /\ t - r < NetMax BY <2>4, <2>3
  <2>7. q - d = 0
    <3>1. ASSUME q - d >= 1 PROVE FALSE
      <4>1. (q - d) * NetMax >= NetMax BY <3>1, <2>6
      <4> QED BY <4>1, <2>5, <2>6
    <3>2. ASSUME q - d <= -1 PROVE FALSE
      <4>1. (q - d) * NetMax <= -NetMax BY <3>2, <2>6
      <4> QED BY <4>1, <2>5, <2>6
    <3> QED BY <3>1, <3>2, <2>6
  <2>8. len % NetMax = r BY <2>7, <2>4, <2>3 DEF t
  <2>. QED BY <2>8 DEF r
<1>5. \A i \in 1..m : ChunksOf(len)[i] = IF i < m THEN NetMax ELSE len - (m - 1) * NetMax
  <2> TAKE i \in 1..m
  <2>0. ChunksOf(len)[i] = IF i * NetMax <= len THEN NetMax ELSE len % NetMax
    BY DEF ChunksOf, Count, m
  <2>1. CASE i < m BY <2>0, <2>1, <1>3
  <2>2. CASE i = m /\ m * NetMax > len BY <2>0, <2>2, <1>4
  <2>3. CASE i = m /\ ~(m * NetMax > len)
     <3>1. m * NetMax = len BY <1>1, <2>3
     <3>2. m * NetMax = (m - 1) * NetMax + NetMax BY <1>1
     <3>3. QED BY <2>0, <2>3, <3>1, <3>2, <1>1
  <2>4. i < m \/ i = m BY <1>1
  <2> QED BY <2>1, <2>2, <2>3, <2>4
<1>6. \A i \in 1..m : Piece(len, i) \in Nat \ {0} /\ ChunksOf(len)[i] = Piece(len, i)
  BY <1>1, <1>5 DEF Piece, m
<1> QED BY <1>1, <1>2, <1>6 DEF m

\* The script of proc_read_handler.
ReadScript(len) ==
  <<Ok>> \o [i \in 1..Len(ChunksOf(len)) |-> Data(ChunksOf(len)[i])] \o <<Keep>>

\* Its letters, one by one.
LEMMA ReadSeq ==
  ASSUME NEW len \in Nat \ {0}
  PROVE  /\ ReadScript(len) \in Seq(Steps) /\ Len(ReadScript(len)) = Count(len) + 2
         /\ \A j \in 1..Count(len) + 2 :
              ReadScript(len)[j] = IF j = 1 THEN Ok ELSE IF j = Count(len) + 2 THEN Keep
                                        ELSE Data(Piece(len, j - 1))
<1> DEFINE m == Count(len)
           d == [i \in 1..m |-> Data(Piece(len, i))]
           h == <<Ok>>
           t == <<Keep>>
           s == ReadScript(len)
<1>1. m \in Nat \ {0} /\ \A i \in 1..m : Piece(len, i) \in Nat BY Chunks
<1>2. d = [i \in 1..Len(ChunksOf(len)) |-> Data(ChunksOf(len)[i])] BY Chunks
<1>3. s = h \o d \o t BY <1>2 DEF ReadScript
<1>5. /\ h \in Seq(Steps) /\ Len(h) = 1 /\ h[1] = Ok
      /\ t \in Seq(Steps) /\ Len(t) = 1 /\ t[1] = Keep
  BY Letters
<1> HIDE DEF m, h, t, s
<1>4. d \in Seq(Steps) /\ Len(d) = m /\ \A i \in 1..m : d[i] = Data(Piece(len, i))
  BY <1>1, Letters
<1> HIDE DEF d
<1>6. /\ s \in Seq(Steps) /\ Len(s) = 1 + m + 1
      /\ \A i \in 1..1 + m + 1 : s[i] = IF i <= 1 THEN h[i] ELSE IF i <= 1 + m THEN d[i - 1]
                                   ELSE t[i - 1 - m]
  <2>0. h \in Seq(Steps) /\ d \in Seq(Steps) /\ t \in Seq(Steps) BY <1>4, <1>5
  <2>1. Joined(h \o d \o t, h, d, t) BY <2>0, SeqBracket
  <2>2. Joined(s, h, d, t) BY <1>3, <2>1
  <2>3. QED BY <2>2, <1>4, <1>5 DEF Joined
<1>7. \A j \in 1..m + 2 : s[j] = IF j = 1 THEN Ok ELSE IF j = m + 2 THEN Keep ELSE Data(Piece(len, j - 1))
  <2> TAKE j \in 1..m + 2
  <2>1. CASE j = 1 BY <2>1, <1>6, <1>1, <1>5
  <2>2. CASE j = m + 2
    <3>1. s[j] = t[j - 1 - m] /\ j - 1 - m = 1 BY <2>2, <1>6, <1>1
    <3>2. QED BY <3>1, <2>2, <1>1, <1>5
  <2>3. CASE j # 1 /\ j # m + 2
    <3>1. s[j] = d[j - 1] /\ j - 1 \in 1..m BY <2>3, <1>6, <1>1
    <3>2. QED BY <3>1, <2>3, <1>4
  <2> QED BY <2>1, <2>2, <2>3
<1>8. QED BY <1>6, <1>7, <1>1 DEF m, s

\* The script of proc_write_handler.
WriteScript(len) ==
  <<Ok>> \o [i \in 1..2 * Len(ChunksOf(len)) |->
                IF i % 2 = 1 THEN Take(ChunksOf(len)[(i + 1) \div 2]) ELSE Apply]
         \o <<Ok, Keep>>

\* Its letters, one by one.
LEMMA WriteSeq ==
  ASSUME NEW len \in Nat \ {0}
  PROVE  /\ WriteScript(len) \in Seq(Steps) /\ Len(WriteScript(len)) = 2 * Count(len) + 3
         /\ \A j \in 1..2 * Count(len) + 3 :
              WriteScript(len)[j] =
                IF j = 1 THEN Ok
                ELSE IF j = 2 * Count(len) + 2 THEN Ok
                ELSE IF j = 2 * Count(len) + 3 THEN Keep
                ELSE IF j % 2 = 0 THEN Take(Piece(len, j \div 2)) ELSE Apply
<1> DEFINE m == Count(len)
           d == [i \in 1..2 * m |-> IF i % 2 = 1 THEN Take(Piece(len, (i + 1) \div 2)) ELSE Apply]
           h == <<Ok>>
           t == <<Ok, Keep>>
           s == WriteScript(len)
<1>1. m \in Nat \ {0} /\ \A i \in 1..m : Piece(len, i) \in Nat BY Chunks
<1>2. d = [i \in 1..2 * Len(ChunksOf(len)) |-> IF i % 2 = 1 THEN Take(ChunksOf(len)[(i + 1) \div 2]) ELSE Apply]
  <2>1. Len(ChunksOf(len)) = m /\ \A i \in 1..m : ChunksOf(len)[i] = Piece(len, i) BY Chunks
  <2>. HIDE DEF m
  <2>2. \A i \in 1..2 * m : i % 2 = 1 => (i + 1) \div 2 \in 1..m BY <1>1
  <2>3. QED BY <2>1, <2>2
<1>3. s = h \o d \o t BY <1>2 DEF WriteScript
<1>5. /\ h \in Seq(Steps) /\ Len(h) = 1 /\ h[1] = Ok
      /\ t \in Seq(Steps) /\ Len(t) = 2 /\ t[1] = Ok /\ t[2] = Keep
  BY Letters
<1> HIDE DEF m, h, t, s
<1>0. \A i \in 1..2 * m : i % 2 = 1 => (i + 1) \div 2 \in 1..m BY <1>1
<1>4. d \in Seq(Steps) /\ Len(d) = 2 * m
      /\ \A i \in 1..2 * m : d[i] = IF i % 2 = 1 THEN Take(Piece(len, (i + 1) \div 2)) ELSE Apply
  BY <1>1, <1>0, Letters
<1> HIDE DEF d
<1>6. /\ s \in Seq(Steps) /\ Len(s) = 1 + 2 * m + 2
      /\ \A i \in 1..1 + 2 * m + 2 : s[i] = IF i <= 1 THEN h[i] ELSE IF i <= 1 + 2 * m THEN d[i - 1]
                                   ELSE t[i - 1 - 2 * m]
  <2>0. h \in Seq(Steps) /\ d \in Seq(Steps) /\ t \in Seq(Steps) BY <1>4, <1>5
  <2>1. Joined(h \o d \o t, h, d, t) BY <2>0, SeqBracket
  <2>2. Joined(s, h, d, t) BY <1>3, <2>1
  <2>3. QED BY <2>2, <1>4, <1>5 DEF Joined
<1>7. \A j \in 1..2 * m + 3 :
        s[j] = IF j = 1 THEN Ok ELSE IF j = 2 * m + 2 THEN Ok ELSE IF j = 2 * m + 3 THEN Keep
               ELSE IF j % 2 = 0 THEN Take(Piece(len, j \div 2)) ELSE Apply
  <2> TAKE j \in 1..2 * m + 3
  <2>1. CASE j = 1 BY <2>1, <1>6, <1>1, <1>5
  <2>2. CASE j = 2 * m + 2
    <3>1. s[j] = t[j - 1 - 2 * m] /\ j - 1 - 2 * m = 1 BY <2>2, <1>6, <1>1
    <3>2. QED BY <3>1, <2>2, <1>1, <1>5
  <2>3. CASE j = 2 * m + 3
    <3>1. s[j] = t[j - 1 - 2 * m] /\ j - 1 - 2 * m = 2 BY <2>3, <1>6, <1>1
    <3>2. QED BY <3>1, <2>3, <1>1, <1>5
  <2>4. CASE j \in 2..2 * m + 1
    <3>1. s[j] = d[j - 1] /\ j - 1 \in 1..2 * m BY <2>4, <1>6, <1>1
    <3>2. (j - 1) % 2 = 1 <=> j % 2 = 0 OBVIOUS
    <3>3. d[j - 1] = IF (j - 1) % 2 = 1 THEN Take(Piece(len, ((j - 1) + 1) \div 2)) ELSE Apply
      BY <3>1, <1>4
    <3>4. (j - 1) + 1 = j OBVIOUS
    <3>5. QED BY <3>1, <3>2, <3>3, <3>4, <2>4, <1>1
  <2> QED BY <2>1, <2>2, <2>3, <2>4, <1>1
<1>8. QED BY <1>6, <1>7, <1>1 DEF m, s

\* The script of proc_scan_handler that finds n values.
ScanScript(len, n) ==
  <<Ok, Take(len), Ok>> \o [i \in 1..n |-> Data(Word)] \o <<End, Keep>>

\* Its letters, one by one.
LEMMA ScanSeq ==
  ASSUME NEW len \in Nat, NEW n \in 0..2
  PROVE  /\ ScanScript(len, n) \in Seq(Steps) /\ Len(ScanScript(len, n)) = n + 5
         /\ \A j \in 1..n + 5 :
              ScanScript(len, n)[j] =
                IF j = 1 \/ j = 3 THEN Ok ELSE IF j = 2 THEN Take(len)
                ELSE IF j = n + 4 THEN End ELSE IF j = n + 5 THEN Keep ELSE Data(Word)
<1> DEFINE d == [i \in 1..n |-> Data(Word)]
           h == <<Ok, Take(len), Ok>>
           t == <<End, Keep>>
           s == ScanScript(len, n)
<1>1. Word \in Nat BY DEF Word
<1>2. d \in Seq(Steps) /\ Len(d) = n /\ \A i \in 1..n : d[i] = Data(Word)
  BY <1>1, Letters
<1>3. s = h \o d \o t BY DEF ScanScript
<1>4. d \in Seq(Steps) /\ Len(d) = n BY <1>2
<1>5. /\ h \in Seq(Steps) /\ Len(h) = 3 /\ h[1] = Ok /\ h[2] = Take(len) /\ h[3] = Ok
      /\ t \in Seq(Steps) /\ Len(t) = 2 /\ t[1] = End /\ t[2] = Keep
  BY Letters
<1> HIDE DEF d, h, t, s
<1>6. /\ s \in Seq(Steps) /\ Len(s) = 3 + n + 2
      /\ \A i \in 1..3 + n + 2 : s[i] = IF i <= 3 THEN h[i] ELSE IF i <= 3 + n THEN d[i - 3]
                                   ELSE t[i - 3 - n]
  <2>0. h \in Seq(Steps) /\ d \in Seq(Steps) /\ t \in Seq(Steps) BY <1>4, <1>5
  <2>1. Joined(h \o d \o t, h, d, t) BY <2>0, SeqBracket
  <2>2. Joined(s, h, d, t) BY <1>3, <2>1
  <2>3. QED BY <2>2, <1>4, <1>5 DEF Joined
<1>7. \A j \in 1..n + 5 :
        s[j] = IF j = 1 \/ j = 3 THEN Ok ELSE IF j = 2 THEN Take(len)
               ELSE IF j = n + 4 THEN End ELSE IF j = n + 5 THEN Keep ELSE Data(Word)
  <2> TAKE j \in 1..n + 5
  <2>1. CASE j \in 1..3
    <3>1. s[j] = h[j] /\ (j = 1 \/ j = 2 \/ j = 3) BY <2>1, <1>6
    <3>2. QED BY <3>1, <1>5
  <2>2. CASE j = n + 4
    <3>1. s[j] = t[j - 3 - n] /\ j - 3 - n = 1 BY <2>2, <1>6
    <3>2. QED BY <3>1, <2>2, <1>5
  <2>3. CASE j = n + 5
    <3>1. s[j] = t[j - 3 - n] /\ j - 3 - n = 2 BY <2>3, <1>6
    <3>2. QED BY <3>1, <2>3, <1>5
  <2>4. CASE j \in 4..n + 3
    <3>1. s[j] = d[j - 3] /\ j - 3 \in 1..n BY <2>4, <1>6
    <3>2. QED BY <3>1, <2>4, <1>2
  <2> QED BY <2>1, <2>2, <2>3, <2>4
<1>8. QED BY <1>6, <1>7 DEF s

-----------------------------------------------------------------------------
\* The scripts of the handlers, and what a tool wants of each.

\* How a script s runs against what a tool wants, with transfers of n bytes.
Plays(s, W, n) ==
  \/ s = <<Drop>>
  \/ s = <<Err, Drop>>
  \/ s = <<Err, Keep>> /\ W[1] = Status
  \/ s = <<Ok, Keep>> /\ W = <<Status>>
  \/ s = <<Ok, Data(n), Keep>> /\ W = <<Status, Get(n)>>
  \/ s = <<Ok, Data(Word), Data(Word), Keep>> /\ W = <<Status, Get(2)>>
  \/ s = <<Data(Word), Data(Word), Keep>> /\ W = <<Get(2)>>
  \/ s = ReadScript(n) /\ W = <<Status, Get(n)>>
  \/ s = <<Ok, Take(n), Apply, Ok, Keep>> /\ W = <<Status, Give(n), Status>>
  \/ s = <<Ok, Take(n), Apply, Err, Drop>> /\ W = <<Status, Give(n), Status>>
  \/ s = WriteScript(n) /\ W = <<Status, Give(n), Status>>
  \/ s = <<Take(n), Ok, Keep>> /\ W = <<Give(n), Status>>
  \/ s = <<Ok, Take(n), Err, Drop>> /\ W = <<Status, Give(n), Status, List>>
  \/ s = <<Ok, Take(n), Ok, Err, Drop>> /\ W = <<Status, Give(n), Status, List>>
  \/ \E k \in 0..2 : s = ScanScript(n, k) /\ W = <<Status, Give(n), Status, List>>

\* Every script of every handler is one of these, but for the success and the null
\* status that proc_protect_handler sends one after the other.
LEMMA ScriptsPlay ==
  ASSUME NEW r \in Requests, NEW s \in Scripts(r)
  PROVE  Plays(s, Wants(r), r.length) \/ (r.name = "protect" /\ s = <<Ok, Err, Keep>>)
<1> USE DEF If, NoMemory, NoKernel
<1>0. r.name \in AllNames /\ r.length \in Nat /\ (r.name \notin Sized => r.length = 1)
  BY CommandsAssumption DEF Requests
<1> USE DEF SetNames, GetNames, ThreadNames, StatusNames, TextNames, Sized
<1>1. CASE r.bare /\ r.name \notin NoPayload
  BY <1>1 DEF Scripts, Wants, Plays
<1>2. CASE ~(r.bare /\ r.name \notin NoPayload)
  <2>1. CASE r.name = "version"
    <3>1. s \in VersionScripts BY <1>2, <2>1 DEF Scripts
    <3>2. Wants(r) = <<Get(2)>> BY <1>2, <2>1 DEF Wants
    <3>3. QED BY <3>1, <3>2, <2>1, <1>0 DEF VersionScripts, Plays
  <2>2. CASE r.name = "list"
    <3>1. s \in ListScripts BY <1>2, <2>2 DEF Scripts
    <3>2. Wants(r) = <<Status, Get(2)>> BY <1>2, <2>2 DEF Wants
    <3>3. QED BY <3>1, <3>2, <2>2, <1>0 DEF ListScripts, Plays
  <2>3. CASE r.name = "maps"
    <3>1. s \in MapsScripts BY <1>2, <2>3 DEF Scripts
    <3>2. Wants(r) = <<Status, Get(2)>> BY <1>2, <2>3 DEF Wants
    <3>3. QED BY <3>1, <3>2, <2>3, <1>0 DEF MapsScripts, Plays
  <2>4. CASE r.name = "threads"
    <3>1. s \in ThreadsScripts BY <1>2, <2>4 DEF Scripts
    <3>2. Wants(r) = <<Status, Get(2)>> BY <1>2, <2>4 DEF Wants
    <3>3. QED BY <3>1, <3>2, <2>4, <1>0 DEF ThreadsScripts, Plays
  <2>5. CASE r.name = "read"
    <3>1. s \in ReadScripts(r.length) BY <1>2, <2>5 DEF Scripts
    <3>2. Wants(r) = <<Status, Get(r.length)>> BY <1>2, <2>5 DEF Wants
    <3>3. QED BY <3>1, <3>2, <2>5, <1>0 DEF ReadScripts, ReadScript, Plays
  <2>6. CASE r.name = "kread"
    <3>1. s \in KernReadScripts(r.length) BY <1>2, <2>6 DEF Scripts
    <3>2. Wants(r) = <<Status, Get(r.length)>> BY <1>2, <2>6 DEF Wants
    <3>3. QED BY <3>1, <3>2, <2>6, <1>0 DEF KernReadScripts, Plays
  <2>7. CASE r.name = "write"
    <3>1. s \in WriteScripts(r.length) BY <1>2, <2>7 DEF Scripts
    <3>2. Wants(r) = <<Status, Give(r.length), Status>> BY <1>2, <2>7 DEF Wants
    <3>3. QED BY <3>1, <3>2, <2>7, <1>0 DEF WriteScripts, WriteScript, Plays
  <2>8. CASE r.name = "elf"
    <3>1. s \in ElfScripts(r.length) BY <1>2, <2>8 DEF Scripts
    <3>2. Wants(r) = <<Status, Give(r.length), Status>> BY <1>2, <2>8 DEF Wants
    <3>3. QED BY <3>1, <3>2, <2>8, <1>0 DEF ElfScripts, Plays
  <2>9. CASE r.name = "kwrite"
    <3>1. s \in KernWriteScripts(r.length) BY <1>2, <2>9 DEF Scripts
    <3>2. Wants(r) = <<Status, Give(r.length), Status>> BY <1>2, <2>9 DEF Wants
    <3>3. QED BY <3>1, <3>2, <2>9, <1>0 DEF KernWriteScripts, Plays
  <2>10. CASE r.name \in SetNames
    <3>1. s \in SetScripts(r.length) BY <1>2, <2>10 DEF Scripts
    <3>2. Wants(r) = <<Status, Give(r.length), Status>> BY <1>2, <2>10 DEF Wants
    <3>3. QED BY <3>1, <3>2, <2>10, <1>0 DEF SetScripts, Plays
  <2>11. CASE r.name \in TextNames
    <3>1. s \in TextScripts(r.length) BY <1>2, <2>11 DEF Scripts
    <3>2. Wants(r) = <<Give(r.length), Status>> BY <1>2, <2>11 DEF Wants
    <3>3. QED BY <3>1, <3>2, <2>11, <1>0 DEF TextScripts, Plays
  <2>12. CASE r.name = "scan"
    <3>1. s \in ScanScripts(r.length) BY <1>2, <2>12 DEF Scripts
    <3>2. Wants(r) = <<Status, Give(r.length), Status, List>> BY <1>2, <2>12 DEF Wants
    <3>3. QED BY <3>1, <3>2, <2>12, <1>0 DEF ScanScripts, ScanScript, Plays
  <2>13. CASE r.name = "install"
    <3>1. s \in InstallScripts BY <1>2, <2>13 DEF Scripts
    <3>2. Wants(r) = <<Status, Get(1)>> BY <1>2, <2>13 DEF Wants
    <3>3. QED BY <3>1, <3>2, <2>13, <1>0 DEF InstallScripts, Word, Plays
  <2>14. CASE r.name = "call"
    <3>1. s \in CallScripts BY <1>2, <2>14 DEF Scripts
    <3>2. Wants(r) = <<Status, Get(1)>> BY <1>2, <2>14 DEF Wants
    <3>3. QED BY <3>1, <3>2, <2>14, <1>0 DEF CallScripts, Word, Plays
  <2>15. CASE r.name = "info"
    <3>1. s \in InfoScripts BY <1>2, <2>15 DEF Scripts
    <3>2. Wants(r) = <<Status, Get(1)>> BY <1>2, <2>15 DEF Wants
    <3>3. QED BY <3>1, <3>2, <2>15, <1>0 DEF InfoScripts, Word, Plays
  <2>16. CASE r.name = "alloc"
    <3>1. s \in AllocScripts BY <1>2, <2>16 DEF Scripts
    <3>2. Wants(r) = <<Status, Get(1)>> BY <1>2, <2>16 DEF Wants
    <3>3. QED BY <3>1, <3>2, <2>16, <1>0 DEF AllocScripts, Word, Plays
  <2>17. CASE r.name = "thrinfo"
    <3>1. s \in ThrinfoScripts BY <1>2, <2>17 DEF Scripts
    <3>2. Wants(r) = <<Status, Get(1)>> BY <1>2, <2>17 DEF Wants
    <3>3. QED BY <3>1, <3>2, <2>17, <1>0 DEF ThrinfoScripts, Word, Plays
  <2>18. CASE r.name = "kbase"
    <3>1. s \in KernBaseScripts BY <1>2, <2>18 DEF Scripts
    <3>2. Wants(r) = <<Status, Get(1)>> BY <1>2, <2>18 DEF Wants
    <3>3. QED BY <3>1, <3>2, <2>18, <1>0 DEF KernBaseScripts, Word, Plays
  <2>19. CASE r.name \in GetNames
    <3>1. s \in GetScripts BY <1>2, <2>19 DEF Scripts
    <3>2. Wants(r) = <<Status, Get(1)>> BY <1>2, <2>19 DEF Wants
    <3>3. QED BY <3>1, <3>2, <2>19, <1>0 DEF GetScripts, Word, Plays
  <2>20. CASE r.name = "protect"
    <3>1. s \in ProtectScripts BY <1>2, <2>20 DEF Scripts
    <3>2. Wants(r) = <<Status>> BY <1>2, <2>20 DEF Wants
    <3>3. QED BY <3>1, <3>2, <2>20, <1>0 DEF ProtectScripts, Plays
  <2>21. CASE r.name = "free"
    <3>1. s \in FreeScripts BY <1>2, <2>21 DEF Scripts
    <3>2. Wants(r) = <<Status>> BY <1>2, <2>21 DEF Wants
    <3>3. QED BY <3>1, <3>2, <2>21, <1>0 DEF FreeScripts, Plays
  <2>22. CASE r.name = "detach"
    <3>1. s \in DetachScripts BY <1>2, <2>22 DEF Scripts
    <3>2. Wants(r) = <<Status>> BY <1>2, <2>22 DEF Wants
    <3>3. QED BY <3>1, <3>2, <2>22, <1>0 DEF DetachScripts, Plays
  <2>23. CASE r.name = "cinfo"
    <3>1. s \in ConsoleInfoScripts BY <1>2, <2>23 DEF Scripts
    <3>2. Wants(r) = <<Status>> BY <1>2, <2>23 DEF Wants
    <3>3. QED BY <3>1, <3>2, <2>23, <1>0 DEF ConsoleInfoScripts, Plays
  <2>24. CASE r.name = "console_scan"
    <3>1. s \in UnknownScripts BY <1>2, <2>24 DEF Scripts
    <3>2. Wants(r) = <<Status>> BY <1>2, <2>24 DEF Wants
    <3>3. QED BY <3>1, <3>2, <2>24, <1>0 DEF UnknownScripts, Plays
  <2>25. CASE r.name \in StatusNames
    <3>1. s \in StatusScripts BY <1>2, <2>25 DEF Scripts
    <3>2. Wants(r) = <<Status>> BY <1>2, <2>25 DEF Wants
    <3>3. QED BY <3>1, <3>2, <2>25, <1>0 DEF StatusScripts, Plays
  <2>26. CASE r.name \in ThreadNames
    <3>1. s \in ThreadScripts BY <1>2, <2>26 DEF Scripts
    <3>2. Wants(r) = <<Status>> BY <1>2, <2>26 DEF Wants
    <3>3. QED BY <3>1, <3>2, <2>26, <1>0 DEF ThreadScripts, Plays
  <2>27. CASE r.name = "end"
    <3>1. s \in EndScripts BY <1>2, <2>27 DEF Scripts
    <3>2. Wants(r) = <<Closed>> BY <1>2, <2>27 DEF Wants
    <3>3. QED BY <3>1, <3>2, <2>27, <1>0 DEF EndScripts, Plays
  <2> QED
    BY <1>0, <2>1, <2>2, <2>3, <2>4, <2>5, <2>6, <2>7, <2>8, <2>9, <2>10, <2>11, <2>12, <2>13,
       <2>14, <2>15, <2>16, <2>17, <2>18, <2>19, <2>20, <2>21, <2>22, <2>23, <2>24, <2>25, <2>26,
       <2>27 DEF AllNames
<1>3. QED BY <1>1, <1>2

\* A script that a handler may run.
Sound(s) == s \in Seq(Steps) /\ WellFormed(s) /\ s[1].do # "apply"

\* Every script ends in its return, and applies only what it has just taken.
LEMMA PlaysSound ==
  ASSUME NEW n \in Nat \ {0}, NEW W, NEW s, Plays(s, W, n) \/ s = <<Ok, Err, Keep>>
  PROVE  Sound(s)
<1> USE DEF Sound
<1>0. Word \in Nat BY DEF Word
<1>1. CASE s = <<Drop>>
  <2>1. s \in Seq(Steps) BY <1>0, <1>1, Letters
  <2>2. Len(s) = 1 /\ s[1] = Drop BY <1>1
  <2>3. QED BY <2>1, <2>2, <1>0, Fields DEF WellFormed
<1>2. CASE s = <<Err, Drop>>
  <2>1. s \in Seq(Steps) BY <1>0, <1>2, Letters
  <2>2. Len(s) = 2 /\ s[1] = Err /\ s[2] = Drop BY <1>2
  <2>3. QED BY <2>1, <2>2, <1>0, Fields DEF WellFormed
<1>3. CASE s = <<Err, Keep>>
  <2>1. s \in Seq(Steps) BY <1>0, <1>3, Letters
  <2>2. Len(s) = 2 /\ s[1] = Err /\ s[2] = Keep BY <1>3
  <2>3. QED BY <2>1, <2>2, <1>0, Fields DEF WellFormed
<1>4. CASE s = <<Ok, Keep>>
  <2>1. s \in Seq(Steps) BY <1>0, <1>4, Letters
  <2>2. Len(s) = 2 /\ s[1] = Ok /\ s[2] = Keep BY <1>4
  <2>3. QED BY <2>1, <2>2, <1>0, Fields DEF WellFormed
<1>5. CASE s = <<Ok, Data(n), Keep>>
  <2>1. s \in Seq(Steps) BY <1>0, <1>5, Letters
  <2>2. Len(s) = 3 /\ s[1] = Ok /\ s[2] = Data(n) /\ s[3] = Keep BY <1>5
  <2>3. QED BY <2>1, <2>2, <1>0, Fields DEF WellFormed
<1>6. CASE s = <<Ok, Data(Word), Data(Word), Keep>>
  <2>1. s \in Seq(Steps) BY <1>0, <1>6, Letters
  <2>2. Len(s) = 4 /\ s[1] = Ok /\ s[2] = Data(Word) /\ s[3] = Data(Word) /\ s[4] = Keep BY <1>6
  <2>3. QED BY <2>1, <2>2, <1>0, Fields DEF WellFormed
<1>7. CASE s = <<Data(Word), Data(Word), Keep>>
  <2>1. s \in Seq(Steps) BY <1>0, <1>7, Letters
  <2>2. Len(s) = 3 /\ s[1] = Data(Word) /\ s[2] = Data(Word) /\ s[3] = Keep BY <1>7
  <2>3. QED BY <2>1, <2>2, <1>0, Fields DEF WellFormed
<1>8. CASE s = <<Ok, Take(n), Apply, Ok, Keep>>
  <2>1. s \in Seq(Steps) BY <1>0, <1>8, Letters
  <2>2. Len(s) = 5 /\ s[1] = Ok /\ s[2] = Take(n) /\ s[3] = Apply /\ s[4] = Ok /\ s[5] = Keep
    BY <1>8
  <2>3. QED BY <2>1, <2>2, <1>0, Fields DEF WellFormed
<1>9. CASE s = <<Ok, Take(n), Apply, Err, Drop>>
  <2>1. s \in Seq(Steps) BY <1>0, <1>9, Letters
  <2>2. Len(s) = 5 /\ s[1] = Ok /\ s[2] = Take(n) /\ s[3] = Apply /\ s[4] = Err /\ s[5] = Drop
    BY <1>9
  <2>3. QED BY <2>1, <2>2, <1>0, Fields DEF WellFormed
<1>10. CASE s = <<Take(n), Ok, Keep>>
  <2>1. s \in Seq(Steps) BY <1>0, <1>10, Letters
  <2>2. Len(s) = 3 /\ s[1] = Take(n) /\ s[2] = Ok /\ s[3] = Keep BY <1>10
  <2>3. QED BY <2>1, <2>2, <1>0, Fields DEF WellFormed
<1>11. CASE s = <<Ok, Take(n), Err, Drop>>
  <2>1. s \in Seq(Steps) BY <1>0, <1>11, Letters
  <2>2. Len(s) = 4 /\ s[1] = Ok /\ s[2] = Take(n) /\ s[3] = Err /\ s[4] = Drop BY <1>11
  <2>3. QED BY <2>1, <2>2, <1>0, Fields DEF WellFormed
<1>12. CASE s = <<Ok, Take(n), Ok, Err, Drop>>
  <2>1. s \in Seq(Steps) BY <1>0, <1>12, Letters
  <2>2. Len(s) = 5 /\ s[1] = Ok /\ s[2] = Take(n) /\ s[3] = Ok /\ s[4] = Err /\ s[5] = Drop BY <1>12
  <2>3. QED BY <2>1, <2>2, <1>0, Fields DEF WellFormed
<1>13. CASE s = <<Ok, Err, Keep>>
  <2>1. s \in Seq(Steps) BY <1>0, <1>13, Letters
  <2>2. Len(s) = 3 /\ s[1] = Ok /\ s[2] = Err /\ s[3] = Keep BY <1>13
  <2>3. QED BY <2>1, <2>2, <1>0, Fields DEF WellFormed
<1>21. CASE s = ReadScript(n)
  <2>1. Count(n) \in Nat \ {0} BY Chunks
  <2>2. /\ s \in Seq(Steps) /\ Len(s) = Count(n) + 2
        /\ \A j \in 1..Count(n) + 2 :
             s[j] = IF j = 1 THEN Ok ELSE IF j = Count(n) + 2 THEN Keep ELSE Data(Piece(n, j - 1))
    BY <1>21, ReadSeq
  <2>3. \A j \in 1..Len(s) : s[j].do = IF j = 1 THEN "ok" ELSE IF j = Len(s) THEN "keep" ELSE "data"
    BY <2>2, Fields
  <2>4. QED BY <2>1, <2>2, <2>3 DEF WellFormed
<1>22. CASE s = WriteScript(n)
  <2>1. Count(n) \in Nat \ {0} BY Chunks
  <2>2. /\ s \in Seq(Steps) /\ Len(s) = 2 * Count(n) + 3
        /\ \A j \in 1..2 * Count(n) + 3 :
             s[j] = IF j = 1 THEN Ok
                    ELSE IF j = 2 * Count(n) + 2 THEN Ok
                    ELSE IF j = 2 * Count(n) + 3 THEN Keep
                    ELSE IF j % 2 = 0 THEN Take(Piece(n, j \div 2)) ELSE Apply
    BY <1>22, WriteSeq
  <2>3. \A j \in 1..Len(s) : s[j].do = IF j = 1 \/ j = Len(s) - 1 THEN "ok" ELSE IF j = Len(s) THEN "keep"
                                       ELSE IF j % 2 = 0 THEN "take" ELSE "apply"
    <3>1. Len(s) - 1 = 2 * Count(n) + 2 BY <2>2, <2>1
    <3>2. QED BY <2>1, <2>2, <3>1, Fields
  <2>4. ASSUME NEW j \in 2..Len(s), s[j].do = "apply" PROVE s[j - 1].do = "take"
    <3>1. j % 2 # 0 /\ j # 1 /\ j # Len(s) /\ j # Len(s) - 1 BY <2>3, <2>4
    <3>2. (j - 1) % 2 = 0 BY <3>1
    <3>3. j - 1 \in 1..Len(s) /\ j - 1 # 1 /\ j - 1 # Len(s) - 1 /\ j - 1 # Len(s) BY <3>1, <3>2
    <3>4. QED BY <3>3, <3>2, <2>3
  <2>5. Len(s) > 0 /\ Len(s) \in Nat /\ s[Len(s)].do = "keep" /\ s[1].do = "ok" BY <2>2, <2>3, <2>1
  <2>6. \A j \in 1..Len(s) - 1 : s[j].do \notin {"keep", "drop"} BY <2>3, <2>5
  <2>7. QED BY <2>2, <2>4, <2>5, <2>6 DEF WellFormed
<1>23. ASSUME NEW k \in 0..2, s = ScanScript(n, k) PROVE Sound(s)
  <2>2. /\ s \in Seq(Steps) /\ Len(s) = k + 5
        /\ \A j \in 1..k + 5 :
             s[j] = IF j = 1 \/ j = 3 THEN Ok ELSE IF j = 2 THEN Take(n)
                    ELSE IF j = k + 4 THEN End ELSE IF j = k + 5 THEN Keep ELSE Data(Word)
    BY <1>23, ScanSeq
  <2>3. \A j \in 1..Len(s) : s[j].do = IF j = 1 \/ j = 3 THEN "ok" ELSE IF j = 2 THEN "take"
                    ELSE IF j = k + 4 THEN "end" ELSE IF j = Len(s) THEN "keep" ELSE "data"
    BY <2>2, Fields
  <2>4. QED BY <2>2, <2>3 DEF WellFormed
<1> QED
  BY <1>1, <1>2, <1>3, <1>4, <1>5, <1>6, <1>7, <1>8, <1>9, <1>10, <1>11, <1>12, <1>13, <1>21,
     <1>22, <1>23 DEF Plays

\* A read promises its bytes, and sends them.
LEMMA ReadFetches ==
  ASSUME NEW n \in Nat \ {0}
  PROVE  ReadScript(n) # <<>> /\ ReadScript(n)[1] = Ok /\ Downloads(Tail(ReadScript(n)), n)
<1> DEFINE s == ReadScript(n)
           t == Tail(s)
           m == Count(n)
<1>1. m \in Nat \ {0} /\ (m - 1) * NetMax < n BY Chunks
<1>2. /\ s \in Seq(Steps) /\ Len(s) = m + 2
      /\ \A j \in 1..m + 2 :
           s[j] = IF j = 1 THEN Ok ELSE IF j = m + 2 THEN Keep ELSE Data(Piece(n, j - 1))
  BY ReadSeq
<1> HIDE DEF s
<1>3. s # <<>> /\ s[1] = Ok BY <1>1, <1>2
<1>4. t \in Seq(Steps) /\ Len(t) = m + 1 /\ \A j \in 1..m + 1 : t[j] = s[j + 1]
  <2>1. s \in Seq(Steps) /\ s # <<>> BY <1>2, <1>3
  <2>2. t \in Seq(Steps) /\ Len(t) = Len(s) - 1 /\ \A j \in 1..Len(s) - 1 : t[j] = s[j + 1]
    BY <2>1, SeqTail
  <2>3. Len(s) - 1 = m + 1 BY <1>1, <1>2
  <2>4. QED BY <2>2, <2>3
<1> HIDE DEF t
<1>5. \A j \in 1..m + 1 : t[j] = IF j = m + 1 THEN Keep ELSE Data(Piece(n, j))
  <2> TAKE j \in 1..m + 1
  <2>1. j + 1 \in 1..m + 2 /\ j + 1 # 1 /\ (j + 1 = m + 2 <=> j = m + 1) /\ (j + 1) - 1 = j BY <1>1
  <2>2. s[j + 1] = IF j + 1 = 1 THEN Ok ELSE IF j + 1 = m + 2 THEN Keep ELSE Data(Piece(n, (j + 1) - 1))
    BY <2>1, <1>2
  <2>3. QED BY <2>1, <2>2, <1>4
<1>6. Len(t) > 1 /\ t[Len(t)] = Keep BY <1>1, <1>4, <1>5
<1>7. Len(t) - 2 = m - 1 BY <1>1, <1>4
<1>8. \A j \in 1..Len(t) - 1 : t[j] = Data(IF j < Len(t) - 1 THEN NetMax ELSE n - (Len(t) - 2) * NetMax)
  <2> TAKE j \in 1..Len(t) - 1
  <2>1. j \in 1..m + 1 /\ j # m + 1 /\ (j < Len(t) - 1 <=> j < m) BY <1>1, <1>4
  <2>2. t[j] = Data(Piece(n, j)) BY <2>1, <1>5
  <2>3. QED BY <2>1, <2>2, <1>7 DEF Piece, m
<1>9. Downloads(t, n) BY <1>1, <1>6, <1>7, <1>8 DEF Downloads
<1>10. QED BY <1>3, <1>9 DEF s, t

\* A write asks for its bytes, and applies each piece.
LEMMA WriteUploads ==
  ASSUME NEW n \in Nat \ {0}, NEW W, One(W, Status)
  PROVE  WriteScript(n) # <<>> /\ WriteScript(n)[1] = Ok /\ Pieces(Tail(WriteScript(n)), n, W)
<1> DEFINE s == WriteScript(n)
           t == Tail(s)
           m == Count(n)
<1>1. m \in Nat \ {0} /\ (m - 1) * NetMax < n BY Chunks
<1>2. /\ s \in Seq(Steps) /\ Len(s) = 2 * m + 3
      /\ \A j \in 1..2 * m + 3 :
              s[j] =
                IF j = 1 THEN Ok
                ELSE IF j = 2 * m + 2 THEN Ok
                ELSE IF j = 2 * m + 3 THEN Keep
                ELSE IF j % 2 = 0 THEN Take(Piece(n, j \div 2)) ELSE Apply
  BY WriteSeq
<1> HIDE DEF s
<1>3. s # <<>> /\ s[1] = Ok BY <1>1, <1>2
<1>4. t \in Seq(Steps) /\ Len(t) = 2 * m + 2 /\ \A j \in 1..2 * m + 2 : t[j] = s[j + 1]
  <2>1. s \in Seq(Steps) /\ s # <<>> BY <1>2, <1>3
  <2>2. t \in Seq(Steps) /\ Len(t) = Len(s) - 1 /\ \A j \in 1..Len(s) - 1 : t[j] = s[j + 1]
    BY <2>1, SeqTail
  <2>3. Len(s) - 1 = 2 * m + 2 BY <1>1, <1>2
  <2>4. QED BY <2>2, <2>3
<1> HIDE DEF t
<1>5. t[2 * m + 1] = Ok /\ t[2 * m + 2] = Keep
  <2>1. 2 * m + 1 \in 1..2 * m + 2 /\ 2 * m + 2 \in 1..2 * m + 2 /\ (2 * m + 1) + 1 = 2 * m + 2 /\ (2 * m + 2) + 1 = 2 * m + 3
    BY <1>1
  <2>2. t[2 * m + 1] = s[2 * m + 2] /\ t[2 * m + 2] = s[2 * m + 3] BY <2>1, <1>4
  <2>3. QED BY <2>2, <1>2, <1>1
<1>6. \A k \in 1..2 * m : t[k] = IF k % 2 = 0 THEN Apply
                   ELSE Take(IF k < 2 * m - 1 THEN NetMax ELSE n - (m - 1) * NetMax)
  <2> TAKE k \in 1..2 * m
  <2>1. k + 1 \in 1..2 * m + 3 /\ k + 1 # 1 /\ k + 1 # 2 * m + 2 /\ k + 1 # 2 * m + 3 BY <1>1
  <2>2. t[k] = s[k + 1] BY <1>1, <1>4
  <2>3. t[k] = IF (k + 1) % 2 = 0 THEN Take(Piece(n, (k + 1) \div 2)) ELSE Apply
    BY <2>1, <2>2, <1>2
  <2>4. CASE k % 2 = 0
    <3>1. (k + 1) % 2 # 0 BY <2>4
    <3>2. QED BY <3>1, <2>3, <2>4
  <2>5. CASE k % 2 # 0
    <3>1. (k + 1) % 2 = 0 BY <2>5
    <3>2. (k + 1) \div 2 < m <=> k < 2 * m - 1 BY <2>5, <1>1
    <3>3. QED BY <3>1, <3>2, <2>3, <2>5 DEF Piece, m
  <2>6. QED BY <2>4, <2>5
<1>7. m \in 1..Len(t) BY <1>1, <1>4
<1>8. Pieces(t, n, W) BY <1>1, <1>4, <1>5, <1>6, <1>7 DEF Pieces
<1>9. QED BY <1>3, <1>8 DEF s, t

\* A scan asks for its value, reports success, and lists what it finds.
LEMMA ScanLists ==
  ASSUME NEW n \in Nat, NEW k \in 0..2
  PROVE  /\ ScanScript(n, k) # <<>> /\ ScanScript(n, k)[1] = Ok
         /\ Tail(ScanScript(n, k)) # <<>> /\ Tail(ScanScript(n, k))[1] = Take(n)
         /\ Tail(Tail(ScanScript(n, k))) # <<>> /\ Tail(Tail(ScanScript(n, k)))[1] = Ok
         /\ Lists(Tail(Tail(Tail(ScanScript(n, k)))))
<1> DEFINE s == ScanScript(n, k)
           t == Tail(s)
           u == Tail(t)
           v == Tail(u)
<1>1. /\ s \in Seq(Steps) /\ Len(s) = k + 5
      /\ \A j \in 1..k + 5 :
              s[j] =
                IF j = 1 \/ j = 3 THEN Ok ELSE IF j = 2 THEN Take(n)
                ELSE IF j = k + 4 THEN End ELSE IF j = k + 5 THEN Keep ELSE Data(Word)
  BY ScanSeq
<1> HIDE DEF s
<1>2. s # <<>> /\ s[1] = Ok BY <1>1
<1>3. t \in Seq(Steps) /\ Len(t) = k + 4 /\ \A j \in 1..k + 4 : t[j] = s[j + 1]
  BY <1>1, <1>2, SeqTail
<1> HIDE DEF t
<1>4. t # <<>> /\ t[1] = Take(n) BY <1>1, <1>3
<1>5. u \in Seq(Steps) /\ Len(u) = k + 3 /\ \A j \in 1..k + 3 : u[j] = t[j + 1]
  BY <1>3, <1>4, SeqTail
<1> HIDE DEF u
<1>6. u # <<>> /\ u[1] = Ok BY <1>1, <1>3, <1>5
<1>7. v \in Seq(Steps) /\ Len(v) = k + 2 /\ \A j \in 1..k + 2 : v[j] = u[j + 1]
  BY <1>5, <1>6, SeqTail
<1> HIDE DEF v
<1>8. \A j \in 1..k + 2 : v[j] = IF j = k + 1 THEN End ELSE IF j = k + 2 THEN Keep ELSE Data(Word)
  <2> TAKE j \in 1..k + 2
  <2>1. v[j] = u[j + 1] /\ u[j + 1] = t[j + 2] /\ t[j + 2] = s[j + 3]
    <3>1. j + 1 \in 1..k + 3 /\ j + 2 \in 1..k + 4 /\ (j + 1) + 1 = j + 2 /\ (j + 2) + 1 = j + 3 OBVIOUS
    <3>2. QED BY <3>1, <1>3, <1>5, <1>7
  <2>2. j + 3 \in 1..k + 5 /\ j + 3 # 1 /\ j + 3 # 2 /\ j + 3 # 3 OBVIOUS
  <2>3. QED BY <2>1, <2>2, <1>1
<1>9. Lists(v) BY <1>7, <1>8 DEF Lists
<1>10. QED BY <1>2, <1>4, <1>6, <1>9 DEF s, t, u, v

-----------------------------------------------------------------------------
\* The scripts meet what a tool wants.

\* A tool that wants n bytes and nothing else.
LEMMA OneGet == \A n : Len(<<Get(n)>>) = 1 /\ <<Get(n)>>[1].do = "get" /\ <<Get(n)>>[1].size = n
BY Fields

\* A script meets what the tool wants of its request.
LEMMA PlaysMeets ==
  ASSUME NEW n \in Nat \ {0}, NEW W \in Seq(Steps), W # <<>>, NEW s, Plays(s, W, n)
  PROVE  Meets(s, W, <<>>)
<1>1. CASE s = <<Drop>>
  BY <1>1 DEF Meets, Dropping, One
<1>2. CASE s = <<Err, Drop>>
  BY <1>2 DEF Meets, Dropping, Two
<1>3. CASE s = <<Err, Keep>> /\ W[1] = Status
  BY <1>3 DEF Meets, Refusing, Two
<1>4. CASE s = <<Ok, Keep>> /\ W = <<Status>>
  <2>1. Two(s, Ok, Keep) /\ One(W, Status) BY <1>4 DEF One, Two
  <2>2. QED BY <2>1 DEF Meets, Closes
<1>5. CASE s = <<Ok, Data(n), Keep>> /\ W = <<Status, Get(n)>>
  <2>1. Tail(s) = <<Data(n), Keep>> /\ Tail(W) = <<Get(n)>> BY <1>5
  <2>2. Downloads(<<Data(n), Keep>>, n)
    <3> DEFINE t == <<Data(n), Keep>>
    <3>1. Len(t) = 2 /\ t[1] = Data(n) /\ t[2] = Keep OBVIOUS
    <3> HIDE DEF t
    <3>2. (Len(t) - 2) * Word = 0 /\ n - (Len(t) - 2) * Word = n BY <3>1 DEF Word
    <3>3. \A k \in 1..Len(t) - 1 : t[k] = Data(IF k < Len(t) - 1 THEN Word ELSE n - (Len(t) - 2) * Word)
      BY <3>1, <3>2
    <3>4. Downloads(t, n) BY <3>1, <3>2, <3>3 DEF Downloads
    <3>5. QED BY <3>4 DEF t
  <2>3. Fetching(<<Data(n), Keep>>, <<Get(n)>>) BY <2>2, OneGet DEF Fetching
  <2>4. Fetching(Tail(s), Tail(W)) BY <2>1, <2>3
  <2>5. s # <<>> /\ s[1] = Ok /\ W[1] = Status BY <1>5
  <2>6. QED BY <2>4, <2>5 DEF Meets, Granting
<1>6. ASSUME NEW t, t = <<Data(Word), Data(Word), Keep>> PROVE Downloads(t, 2)
  <2>1. Len(t) = 3 /\ t[1] = Data(Word) /\ t[2] = Data(Word) /\ t[3] = Keep BY <1>6
  <2>2. (Len(t) - 2) * Word = 1 /\ 2 - (Len(t) - 2) * Word = 1 /\ Word = 1 BY <2>1 DEF Word
  <2>3. \A k \in 1..Len(t) - 1 : t[k] = Data(IF k < Len(t) - 1 THEN Word ELSE 2 - (Len(t) - 2) * Word)
    BY <2>1, <2>2
  <2>4. QED BY <2>1, <2>2, <2>3 DEF Downloads
<1>7. CASE s = <<Ok, Data(Word), Data(Word), Keep>> /\ W = <<Status, Get(2)>>
  <2>1. Tail(s) = <<Data(Word), Data(Word), Keep>> /\ Tail(W) = <<Get(2)>> BY <1>7
  <2>2. Fetching(<<Data(Word), Data(Word), Keep>>, <<Get(2)>>) BY <1>6, OneGet DEF Fetching
  <2>3. Fetching(Tail(s), Tail(W)) BY <2>1, <2>2
  <2>4. s # <<>> /\ s[1] = Ok /\ W[1] = Status BY <1>7
  <2>5. QED BY <2>3, <2>4 DEF Meets, Granting
<1>8. CASE s = <<Data(Word), Data(Word), Keep>> /\ W = <<Get(2)>>
  <2>1. Fetching(<<Data(Word), Data(Word), Keep>>, <<Get(2)>>) BY <1>6, OneGet DEF Fetching
  <2>2. Fetching(s, W) BY <2>1, <1>8
  <2>3. QED BY <2>2 DEF Meets
<1>9. CASE s = ReadScript(n) /\ W = <<Status, Get(n)>>
  <2>1. Tail(W) = <<Get(n)>> BY <1>9
  <2>2. Fetching(Tail(ReadScript(n)), <<Get(n)>>) BY ReadFetches, OneGet DEF Fetching
  <2>3. Fetching(Tail(s), Tail(W)) BY <2>1, <2>2, <1>9
  <2>4. s # <<>> /\ s[1] = Ok /\ W[1] = Status BY <1>9, ReadFetches
  <2>5. QED BY <2>3, <2>4 DEF Meets, Granting
<1>10. ASSUME NEW w, \/ W = <<Status, Give(n), Status>> /\ w = <<Status>>
                     \/ W = <<Status, Give(n), Status, List>> /\ w = <<Status, List>>,
              s # <<>>, s[1] = Ok, Pieces(Tail(s), n, w) \/ AtOnce(Tail(s), n, w)
       PROVE  Meets(s, W, <<>>)
  <2>1. W[1] = Status /\ Tail(W) # <<>> /\ Tail(W)[1] = Give(n) /\ Tail(Tail(W)) = w
    <3>1. CASE W = <<Status, Give(n), Status>> /\ w = <<Status>>
      <4>1. Tail(W) = <<Give(n), Status>> BY <3>1
      <4>2. QED BY <4>1, <3>1
    <3>2. CASE W = <<Status, Give(n), Status, List>> /\ w = <<Status, List>>
      <4>1. Tail(W) = <<Give(n), Status, List>> BY <3>2
      <4>2. QED BY <4>1, <3>2
    <3>3. QED BY <3>1, <3>2, <1>10
  <2>2. Uploads(Tail(s), n, w) BY <1>10 DEF Uploads
  <2>3. Tail(W)[1].do = "give" /\ Tail(W)[1].size = n BY <2>1, Fields
  <2>4. Offering(Tail(s), Tail(W)) BY <2>1, <2>2, <2>3 DEF Offering
  <2>5. QED BY <2>1, <2>4, <1>10 DEF Meets, Granting
<1>11. One(<<Status>>, Status) /\ Two(<<Status, List>>, Status, List) BY DEF One, Two
<1>12. CASE s = <<Ok, Take(n), Apply, Ok, Keep>> /\ W = <<Status, Give(n), Status>>
  <2>1. Tail(s) = <<Take(n), Apply, Ok, Keep>> BY <1>12
  <2>2. Tail(<<Take(n), Apply, Ok, Keep>>) = <<Apply, Ok, Keep>> /\ Tail(<<Apply, Ok, Keep>>) = <<Ok, Keep>>
    OBVIOUS
  <2>4. Closes(<<Ok, Keep>>, <<Status>>) BY <1>11 DEF Closes, Two
  <2>5. AtOnce(<<Take(n), Apply, Ok, Keep>>, n, <<Status>>) BY <2>2, <2>4 DEF AtOnce
  <2>6. QED BY <2>1, <2>5, <1>12, <1>10
<1>13. CASE s = <<Ok, Take(n), Apply, Err, Drop>> /\ W = <<Status, Give(n), Status>>
  <2>1. Tail(s) = <<Take(n), Apply, Err, Drop>> BY <1>13
  <2>2. Tail(<<Take(n), Apply, Err, Drop>>) = <<Apply, Err, Drop>> /\ Tail(<<Apply, Err, Drop>>) = <<Err, Drop>>
    OBVIOUS
  <2>4. Closes(<<Err, Drop>>, <<Status>>) BY <1>11 DEF Closes, Two
  <2>5. AtOnce(<<Take(n), Apply, Err, Drop>>, n, <<Status>>) BY <2>2, <2>4 DEF AtOnce
  <2>6. QED BY <2>1, <2>5, <1>13, <1>10
<1>14. CASE s = WriteScript(n) /\ W = <<Status, Give(n), Status>>
  <2>1. s # <<>> /\ s[1] = Ok /\ Pieces(Tail(s), n, <<Status>>) BY <1>11, <1>14, WriteUploads
  <2>2. QED BY <2>1, <1>14, <1>10
<1>15. CASE s = <<Take(n), Ok, Keep>> /\ W = <<Give(n), Status>>
  <2>1. Tail(s) = <<Ok, Keep>> /\ Tail(W) = <<Status>> BY <1>15
  <2>2. Closes(<<Ok, Keep>>, <<Status>>) BY <1>11 DEF Closes, Two
  <2>3. AtOnce(s, n, <<Status>>) BY <1>15, <2>1, <2>2 DEF AtOnce
  <2>4. W[1] = Give(n) /\ W # <<>> BY <1>15
  <2>7. W[1].do = "give" /\ W[1].size = n BY <2>4, Fields
  <2>8. Uploads(s, n, <<Status>>) BY <2>3 DEF Uploads
  <2>9. Uploads(s, W[1].size, Tail(W)) BY <2>8, <2>7, <2>1
  <2>5. Offering(s, W) BY <2>9, <2>4, <2>7 DEF Offering
  <2>6. QED BY <2>5 DEF Meets
<1>16. CASE s = <<Ok, Take(n), Err, Drop>> /\ W = <<Status, Give(n), Status, List>>
  <2>1. Tail(s) = <<Take(n), Err, Drop>> BY <1>16
  <2>2. Tail(<<Take(n), Err, Drop>>) = <<Err, Drop>> OBVIOUS
  <2>3. Closes(<<Err, Drop>>, <<Status, List>>) BY <1>11 DEF Closes, Two
  <2>4. AtOnce(<<Take(n), Err, Drop>>, n, <<Status, List>>) BY <2>2, <2>3 DEF AtOnce
  <2>5. QED BY <2>1, <2>4, <1>16, <1>10
<1>17. CASE s = <<Ok, Take(n), Ok, Err, Drop>> /\ W = <<Status, Give(n), Status, List>>
  <2>1. Tail(s) = <<Take(n), Ok, Err, Drop>> BY <1>17
  <2>2. Tail(<<Take(n), Ok, Err, Drop>>) = <<Ok, Err, Drop>> OBVIOUS
  <2>3. Tail(<<Ok, Err, Drop>>) = <<Err, Drop>> OBVIOUS
  <2>4. Closes(<<Ok, Err, Drop>>, <<Status, List>>) BY <2>3, <1>11 DEF Closes, Two
  <2>5. AtOnce(<<Take(n), Ok, Err, Drop>>, n, <<Status, List>>) BY <2>2, <2>4 DEF AtOnce
  <2>6. QED BY <2>1, <2>5, <1>17, <1>10
<1>18. ASSUME NEW k \in 0..2, s = ScanScript(n, k), W = <<Status, Give(n), Status, List>>
       PROVE  Meets(s, W, <<>>)
  <2>1. /\ s # <<>> /\ s[1] = Ok /\ Tail(s) # <<>> /\ Tail(s)[1] = Take(n)
        /\ Tail(Tail(s)) # <<>> /\ Tail(Tail(s))[1] = Ok /\ Lists(Tail(Tail(Tail(s))))
    BY <1>18, ScanLists
  <2>2. Closes(Tail(Tail(s)), <<Status, List>>) BY <2>1, <1>11 DEF Closes
  <2>3. AtOnce(Tail(s), n, <<Status, List>>) BY <2>1, <2>2 DEF AtOnce
  <2>4. QED BY <2>1, <2>3, <1>18, <1>10
<1>19. QED
  BY <1>1, <1>2, <1>3, <1>4, <1>5, <1>7, <1>8, <1>9, <1>12, <1>13, <1>14, <1>15, <1>16, <1>17, <1>18
     DEF Plays

\* A text command may have been sent whole before its handler runs.
LEMMA TextMeets ==
  ASSUME NEW n \in Nat \ {0}, NEW W, One(W, Status), NEW s, s \in TextScripts(n)
  PROVE  Meets(s, W, <<Bytes(n)>>)
<1>1. CASE s = <<Err, Drop>>
  <2>1. W # <<>> BY DEF One
  <2>2. QED BY <1>1, <2>1 DEF Meets, Dropping, Two
<1>2. CASE s = <<Take(n), Ok, Keep>>
  <2>1. Tail(s) = <<Ok, Keep>> BY <1>2
  <2>2. Closes(<<Ok, Keep>>, W) BY DEF Closes, Two
  <2>3. Uploads(s, n, W) BY <1>2, <2>1, <2>2 DEF Uploads, AtOnce
  <2>4. Bytes(n).size = n BY DEF Bytes
  <2> DEFINE B == <<Bytes(n)>>
  <2>5. Len(B) = 1 /\ B[1] = Bytes(n) OBVIOUS
  <2> HIDE DEF B
  <2>6. Sent(s, W, B) BY <2>3, <2>4, <2>5 DEF Sent
  <2>7. Meets(s, W, B) BY <2>6 DEF Meets
  <2>8. QED BY <2>7 DEF B
<1>3. QED BY <1>1, <1>2 DEF TextScripts, NoMemory, If

-----------------------------------------------------------------------------
\* One letter at a time.

\* One piece less to download.
LEMMA DownloadsStep ==
  ASSUME NEW S \in Seq(Steps), NEW n \in Nat, Downloads(S, n)
  PROVE  /\ S # <<>>
         /\ \E c \in 1..n : /\ S[1] = Data(c)
                            /\ c = n => One(Tail(S), Keep)
                            /\ c < n => Downloads(Tail(S), n - c)
<1> NetMax \in Nat \ {0} /\ Word \in Nat \ {0} BY CommandsAssumption DEF Word
<1>1. PICK c \in {Word, NetMax} :
        /\ (Len(S) - 2) * c < n
        /\ \A k \in 1..Len(S) - 1 :
            S[k] = Data(IF k < Len(S) - 1 THEN c ELSE n - (Len(S) - 2) * c)
  BY DEF Downloads
<1>2. Len(S) > 1 /\ S[Len(S)] = Keep /\ Len(S) \in Nat /\ S # <<>> BY DEF Downloads
<1>3. Tail(S) \in Seq(Steps) /\ Len(Tail(S)) = Len(S) - 1 /\ \A i \in 1..Len(S) - 1 : Tail(S)[i] = S[i + 1]
  BY <1>2, SeqTail
<1> DEFINE K == Len(S) - 2
<1>4. /\ c \in Nat \ {0} /\ K \in Nat /\ K * c < n /\ Len(S) = K + 2
      /\ \A k \in 1..K + 1 : S[k] = Data(IF k < K + 1 THEN c ELSE n - K * c)
  BY <1>1, <1>2
<1> HIDE DEF K
<1>5. CASE K = 0
  <2>1. K * c = 0 BY <1>4, <1>5
  <2>2. 1 \in 1..K + 1 /\ ~(1 < K + 1) BY <1>5
  <2>3. S[1] = Data(n - K * c) BY <2>2, <1>4
  <2>4. S[1] = Data(n) /\ n \in 1..n BY <1>4, <2>1, <2>3
  <2>5. Len(S) = 2 /\ Len(Tail(S)) = 1 /\ Tail(S)[1] = S[2] BY <1>3, <1>4, <1>5
  <2>6. One(Tail(S), Keep) BY <2>5, <1>2 DEF One
  <2>7. QED BY <2>4, <2>6, <1>2
<1>6. CASE K > 0
  <2>1. (K - 1) * c = K * c - c /\ (K - 1) * c >= 0 BY <1>4, <1>6
  <2>2. S[1] = Data(c) BY <1>4, <1>6
  <2>3. c \in 1..n /\ c < n BY <2>1, <1>4
  <2>4. Len(Tail(S)) = K + 1 /\ Len(Tail(S)) - 2 = K - 1 /\ Len(Tail(S)) - 1 = K /\ Len(Tail(S)) > 1
    BY <1>3, <1>4, <1>6
  <2>5. (K - 1) * c < n - c BY <2>1, <1>4
  <2>6. \A k \in 1..K : Tail(S)[k] = Data(IF k < K THEN c ELSE (n - c) - (K - 1) * c)
    <3> TAKE k \in 1..K
    <3>1. k + 1 \in 1..K + 1 /\ k \in 1..Len(S) - 1 /\ (k + 1 < K + 1 <=> k < K) BY <1>4
    <3>2. Tail(S)[k] = S[k + 1] BY <3>1, <1>3
    <3>3. S[k + 1] = Data(IF k + 1 < K + 1 THEN c ELSE n - K * c) BY <3>1, <1>4
    <3>4. (n - c) - (K - 1) * c = n - K * c BY <2>1, <1>4
    <3>5. QED BY <3>1, <3>2, <3>3, <3>4
  <2>7. Tail(S)[Len(Tail(S))] = Keep
    <3>1. K + 1 \in 1..Len(S) - 1 /\ (K + 1) + 1 = Len(S) BY <1>4, <1>6
    <3>2. QED BY <3>1, <2>4, <1>2, <1>3
  <2>8. Downloads(Tail(S), n - c) BY <2>4, <2>5, <2>6, <2>7 DEF Downloads
  <2>9. QED BY <2>2, <2>3, <2>8, <1>2
<1>7. K = 0 \/ K > 0 BY <1>4
<1>8. QED BY <1>5, <1>6, <1>7

\* One piece less to upload.
LEMMA PiecesStep ==
  ASSUME NEW S \in Seq(Steps), NEW W, NEW n \in Nat, Pieces(S, n, W)
  PROVE  /\ S # <<>> /\ Tail(S) # <<>> /\ Tail(S)[1] = Apply
         /\ \E c \in 1..n : /\ S[1] = Take(c)
                            /\ c = n => Two(Tail(Tail(S)), Ok, Keep)
                            /\ c < n => Pieces(Tail(Tail(S)), n - c, W)
<1> NetMax \in Nat \ {0} BY CommandsAssumption
<1>1. PICK m \in 1..Len(S) :
       /\ Len(S) = 2 * m + 2 /\ S[2 * m + 1] = Ok /\ S[2 * m + 2] = Keep
       /\ (m - 1) * NetMax < n
       /\ \A k \in 1..2 * m :
            S[k] = IF k % 2 = 0 THEN Apply
                   ELSE Take(IF k < 2 * m - 1 THEN NetMax ELSE n - (m - 1) * NetMax)
  BY DEF Pieces
<1>2. m \in Nat \ {0} /\ S # <<>> BY <1>1
<1> DEFINE T == Tail(S)
           U == Tail(T)
<1>3. T \in Seq(Steps) /\ Len(T) = 2 * m + 1 /\ \A i \in 1..2 * m + 1 : T[i] = S[i + 1]
  <2>1. T \in Seq(Steps) /\ Len(T) = Len(S) - 1 /\ \A i \in 1..Len(S) - 1 : T[i] = S[i + 1]
    BY <1>2, SeqTail
  <2>2. Len(S) - 1 = 2 * m + 1 BY <1>1, <1>2
  <2>3. QED BY <2>1, <2>2
<1> HIDE DEF T
<1>4. T # <<>> BY <1>2, <1>3
<1>5. U \in Seq(Steps) /\ Len(U) = 2 * m /\ \A i \in 1..2 * m : U[i] = S[i + 2]
  <2>1. U \in Seq(Steps) /\ Len(U) = Len(T) - 1 /\ \A i \in 1..Len(T) - 1 : U[i] = T[i + 1]
    BY <1>3, <1>4, SeqTail
  <2>2. Len(T) - 1 = 2 * m BY <1>2, <1>3
  <2>3. \A i \in 1..2 * m : U[i] = S[i + 2]
    <3> TAKE i \in 1..2 * m
    <3>1. U[i] = T[i + 1] /\ i + 1 \in 1..2 * m + 1 /\ (i + 1) + 1 = i + 2 BY <2>1, <2>2
    <3>2. T[i + 1] = S[(i + 1) + 1] BY <3>1, <1>3
    <3>3. QED BY <3>1, <3>2
  <2>4. QED BY <2>1, <2>2, <2>3
<1> HIDE DEF U
<1>6. T[1] = Apply
  <2>1. 2 \in 1..2 * m /\ 1 \in 1..2 * m + 1 BY <1>2
  <2>2. T[1] = S[2] /\ 2 % 2 = 0 BY <2>1, <1>3
  <2>3. QED BY <2>1, <2>2, <1>1
<1>7. CASE m = 1
  <2>1. (m - 1) * NetMax = 0 BY <1>7
  <2>2. 1 \in 1..2 * m /\ 1 % 2 # 0 /\ ~(1 < 2 * m - 1) BY <1>7
  <2>3. S[1] = Take(n) /\ n \in 1..n BY <1>1, <2>1, <2>2
  <2>4. Two(U, Ok, Keep) BY <1>1, <1>5, <1>7 DEF Two
  <2>5. QED BY <2>3, <2>4, <1>2, <1>4, <1>6 DEF U, T
<1>8. CASE m > 1
  <2>1. (m - 2) * NetMax = (m - 1) * NetMax - NetMax /\ (m - 2) * NetMax >= 0 BY <1>2, <1>8
  <2>2. 1 \in 1..2 * m /\ 1 % 2 # 0 /\ 1 < 2 * m - 1 BY <1>8
  <2>3. S[1] = Take(NetMax) BY <1>1, <2>2
  <2>4. NetMax \in 1..n /\ NetMax < n /\ (m - 2) * NetMax < n - NetMax BY <2>1, <1>1, <1>2
  <2> DEFINE p == m - 1
  <2>5. p \in 1..Len(U) /\ Len(U) = 2 * p + 2 /\ p - 1 = m - 2 BY <1>2, <1>5, <1>8
  <2>6. U[2 * p + 1] = Ok /\ U[2 * p + 2] = Keep
    <3>1. 2 * p + 1 \in 1..2 * m /\ 2 * p + 2 \in 1..2 * m /\ (2 * p + 1) + 2 = 2 * m + 1 /\ (2 * p + 2) + 2 = 2 * m + 2
      BY <1>2, <1>8
    <3>2. QED BY <3>1, <1>1, <1>5
  <2>7. \A k \in 1..2 * p : U[k] = IF k % 2 = 0 THEN Apply
                   ELSE Take(IF k < 2 * p - 1 THEN NetMax ELSE (n - NetMax) - (p - 1) * NetMax)
    <3> TAKE k \in 1..2 * p
    <3>1. k \in 1..2 * m /\ k + 2 \in 1..2 * m /\ (k + 2 < 2 * m - 1 <=> k < 2 * p - 1) BY <1>2
    <3>2. (k + 2) % 2 = 0 <=> k % 2 = 0 OBVIOUS
    <3>3. U[k] = IF (k + 2) % 2 = 0 THEN Apply
                 ELSE Take(IF k + 2 < 2 * m - 1 THEN NetMax ELSE n - (m - 1) * NetMax)
      BY <3>1, <1>1, <1>5
    <3>4. (n - NetMax) - (p - 1) * NetMax = n - (m - 1) * NetMax BY <2>1, <2>5, <1>2
    <3>5. QED BY <3>1, <3>2, <3>3, <3>4
  <2>8. (p - 1) * NetMax < n - NetMax BY <2>4, <2>5
  <2>9. One(W, Status) BY DEF Pieces
  <2>10. Pieces(U, n - NetMax, W) BY <2>5, <2>6, <2>7, <2>8, <2>9 DEF Pieces
  <2>11. Pieces(Tail(Tail(S)), n - NetMax, W) BY <2>10 DEF U, T
  <2>12. S # <<>> /\ Tail(S) # <<>> /\ Tail(S)[1] = Apply BY <1>2, <1>4, <1>6 DEF T
  <2>13. NetMax \in 1..n /\ NetMax # n BY <2>4
  <2>14. QED BY <2>3, <2>11, <2>12, <2>13, Zenon
<1>9. m = 1 \/ m > 1 BY <1>2
<1>10. QED BY <1>7, <1>8, <1>9

\* A sequence of no length.
LEMMA Empty ==
  ASSUME NEW s \in Seq(Steps)
  PROVE Len(s) \in Nat /\ (Len(s) = 0 => s = <<>>) /\ (Len(s) > 0 => s # <<>>)
OBVIOUS

\* A sequence of one letter, and one of two.
LEMMA OneTwo ==
  ASSUME NEW S \in Seq(Steps), NEW a, NEW b
  PROVE  /\ One(S, a) => S # <<>> /\ S[1] = a /\ Tail(S) = <<>>
         /\ Two(S, a, b) => S # <<>> /\ S[1] = a /\ Tail(S) \in Seq(Steps) /\ One(Tail(S), b)
<1>1. CASE One(S, a)
  <2>1. S # <<>> /\ S[1] = a /\ Len(S) = 1 BY <1>1 DEF One
  <2>2. Tail(S) \in Seq(Steps) /\ Len(Tail(S)) = 0 BY <2>1, SeqTail
  <2>3. ~Two(S, a, b) BY <2>1 DEF Two
  <2>4. Tail(S) = <<>> BY <2>2, Empty
  <2>5. QED BY <2>1, <2>3, <2>4
<1>2. CASE Two(S, a, b)
  <2>0. S[1] = a /\ S[2] = b /\ Len(S) = 2 BY <1>2 DEF Two
  <2>5. Len(S) > 0 BY <2>0
  <2>6. S # <<>> BY <2>5, Empty
  <2>1. S # <<>> /\ S[1] = a /\ S[2] = b /\ Len(S) = 2 BY <2>0, <2>6
  <2>2. Tail(S) \in Seq(Steps) /\ Len(Tail(S)) = Len(S) - 1 /\ \A i \in 1..Len(S) - 1 : Tail(S)[i] = S[i + 1]
    BY <2>1, SeqTail
  <2>3. Len(Tail(S)) = 1 /\ Tail(S)[1] = b BY <2>1, <2>2
  <2>4. ~One(S, a) BY <2>1 DEF One
  <2>7. QED BY <2>1, <2>2, <2>3, <2>4 DEF One
<1>3. QED BY <1>1, <1>2

\* One match less, or the end flag and the return.
LEMMA ListsStep ==
  ASSUME NEW S \in Seq(Steps), Lists(S)
  PROVE  /\ S # <<>> /\ Tail(S) \in Seq(Steps)
         /\ \/ S[1] = End /\ One(Tail(S), Keep)
            \/ S[1] = Data(Word) /\ Lists(Tail(S))
<1>1. /\ Len(S) \in Nat /\ Len(S) > 1 /\ S[Len(S)] = Keep /\ S[Len(S) - 1] = End
      /\ \A k \in 1..Len(S) - 2 : S[k] = Data(Word)
  BY DEF Lists
<1>2. S # <<>> BY <1>1
<1> DEFINE T == Tail(S)
<1>3. T \in Seq(Steps) /\ Len(T) = Len(S) - 1 /\ \A i \in 1..Len(S) - 1 : T[i] = S[i + 1]
  BY <1>2, SeqTail
<1> HIDE DEF T
<1>4. CASE Len(S) = 2
  <2>1. S[1] = End /\ Len(T) = 1 /\ T[1] = S[2] /\ S[2] = Keep BY <1>1, <1>3, <1>4
  <2>2. One(T, Keep) BY <2>1 DEF One
  <2>3. QED BY <1>2, <1>3, <2>1, <2>2 DEF T
<1>5. CASE Len(S) > 2
  <2>1. S[1] = Data(Word) /\ Len(T) > 1 BY <1>1, <1>3, <1>5
  <2>2. T[Len(T)] = Keep /\ T[Len(T) - 1] = End
    <3>1. Len(T) \in 1..Len(S) - 1 /\ Len(T) - 1 \in 1..Len(S) - 1 BY <1>1, <1>3, <1>5
    <3>2. T[Len(T)] = S[Len(T) + 1] /\ T[Len(T) - 1] = S[(Len(T) - 1) + 1] BY <3>1, <1>3
    <3>3. Len(T) + 1 = Len(S) /\ (Len(T) - 1) + 1 = Len(S) - 1 BY <1>1, <1>3
    <3>4. QED BY <3>2, <3>3, <1>1
  <2>3. \A k \in 1..Len(T) - 2 : T[k] = Data(Word)
    <3> TAKE k \in 1..Len(T) - 2
    <3>1. k \in 1..Len(S) - 1 /\ k + 1 \in 1..Len(S) - 2 BY <1>1, <1>3
    <3>2. QED BY <3>1, <1>1, <1>3
  <2>4. Lists(T) BY <2>1, <2>2, <2>3 DEF Lists
  <2>5. QED BY <1>2, <1>3, <2>1, <2>4 DEF T
<1>6. Len(S) = 2 \/ Len(S) > 2
  <2> DEFINE l == Len(S)
  <2>1. l \in Nat /\ l > 1 BY <1>1
  <2> HIDE DEF l
  <2>2. l = 2 \/ l > 2 BY <2>1
  <2>3. QED BY <2>2 DEF l
<1>7. QED BY <1>4, <1>5, <1>6

\* What answers a request for good, told from its first letter.
LEMMA ClosesStep ==
  ASSUME NEW S \in Seq(Steps), NEW W \in Seq(Steps), Closes(S, W)
  PROVE  /\ S # <<>> /\ W # <<>> /\ W[1] = Status
         /\ \/ Two(S, Err, Drop)
            \/ S[1] = Ok /\ Meets(Tail(S), Tail(W), <<>>)
<1>1. CASE One(W, Status) /\ (Two(S, Ok, Keep) \/ Two(S, Err, Drop))
  <2>1. W # <<>> /\ W[1] = Status /\ Tail(W) = <<>> BY <1>1, OneTwo
  <2>2. CASE Two(S, Ok, Keep)
    <3>1. S # <<>> /\ S[1] = Ok /\ One(Tail(S), Keep) BY <2>2, OneTwo
    <3>2. Meets(Tail(S), Tail(W), <<>>) BY <2>1, <3>1 DEF Meets, Resting
    <3>3. QED BY <2>1, <3>1, <3>2
  <2>3. CASE Two(S, Err, Drop) BY <2>1, <2>3, OneTwo
  <2>4. QED BY <1>1, <2>2, <2>3
<1>2. CASE /\ Two(W, Status, List)
           /\ \/ S # <<>> /\ S[1] = Ok /\ (Lists(Tail(S)) \/ Two(Tail(S), Err, Drop))
              \/ Two(S, Err, Drop)
  <2>1. W # <<>> /\ W[1] = Status /\ One(Tail(W), List) BY <1>2, OneTwo
  <2>2. CASE S # <<>> /\ S[1] = Ok /\ Lists(Tail(S))
    <3>1. Meets(Tail(S), Tail(W), <<>>) BY <2>1, <2>2 DEF Meets, Listing
    <3>2. QED BY <2>1, <2>2, <3>1
  <2>3. CASE S # <<>> /\ S[1] = Ok /\ Two(Tail(S), Err, Drop)
    <3>1. Tail(W) # <<>>
      <4>1. Tail(W) \in Seq(Steps) /\ Len(Tail(W)) > 0 BY <2>1, SeqTail DEF One
      <4>2. QED BY <4>1, Empty
    <3>2. Meets(Tail(S), Tail(W), <<>>) BY <3>1, <2>3 DEF Meets, Dropping
    <3>3. QED BY <2>1, <2>3, <3>2
  <2>4. CASE Two(S, Err, Drop) BY <2>1, <2>4, OneTwo
  <2>5. QED BY <1>2, <2>2, <2>3, <2>4
<1>3. QED BY <1>1, <1>2 DEF Closes

\* One piece less, taken and applied, or the last one and the answer.
LEMMA UploadsStep ==
  ASSUME NEW S \in Seq(Steps), NEW W \in Seq(Steps), NEW n \in Nat, Uploads(S, n, W)
  PROVE  /\ S # <<>> /\ W # <<>> /\ W[1] = Status /\ Tail(S) \in Seq(Steps)
         /\ \E c \in 1..n :
              /\ S[1] = Take(c)
              /\ \/ c = n /\ Closes(Tail(S), W)
                 \/ /\ Tail(S) # <<>> /\ Tail(S)[1] = Apply
                    /\ \/ c = n /\ Closes(Tail(Tail(S)), W)
                       \/ c < n /\ Uploads(Tail(Tail(S)), n - c, W)
<1>1. CASE Pieces(S, n, W)
  <2>1. One(W, Status) BY <1>1 DEF Pieces
  <2>2. W # <<>> /\ W[1] = Status BY <2>1, OneTwo
  <2>3. PICK c \in 1..n : /\ S[1] = Take(c)
                          /\ c = n => Two(Tail(Tail(S)), Ok, Keep)
                          /\ c < n => Pieces(Tail(Tail(S)), n - c, W)
    BY <1>1, PiecesStep
  <2>4. S # <<>> /\ Tail(S) # <<>> /\ Tail(S)[1] = Apply BY <1>1, PiecesStep
  <2>5. Tail(S) \in Seq(Steps) BY <2>4, SeqTail
  <2>6. c = n => Closes(Tail(Tail(S)), W) BY <2>1, <2>3 DEF Closes
  <2>7. c < n => Uploads(Tail(Tail(S)), n - c, W) BY <2>3 DEF Uploads
  <2>8. c = n \/ c < n OBVIOUS
  <2>9. QED BY <2>2, <2>3, <2>4, <2>5, <2>6, <2>7, <2>8
<1>2. CASE AtOnce(S, n, W)
  <2>1. S # <<>> /\ S[1] = Take(n) BY <1>2 DEF AtOnce
  <2>2. Tail(S) \in Seq(Steps) BY <2>1, SeqTail
  <2>3. n \in 1..n BY DEF Uploads
  <2>4. CASE Closes(Tail(S), W)
    <3>1. W # <<>> /\ W[1] = Status BY <2>2, <2>4, ClosesStep
    <3>2. QED BY <2>1, <2>2, <2>3, <2>4, <3>1
  <2>5. CASE Tail(S) # <<>> /\ Tail(S)[1] = Apply /\ Closes(Tail(Tail(S)), W)
    <3>1. Tail(Tail(S)) \in Seq(Steps) BY <2>2, <2>5, SeqTail
    <3>2. W # <<>> /\ W[1] = Status BY <3>1, <2>5, ClosesStep
    <3>3. QED BY <2>1, <2>2, <2>3, <2>5, <3>2
  <2>6. QED BY <1>2, <2>4, <2>5 DEF AtOnce
<1>3. QED BY <1>1, <1>2 DEF Uploads

\* A tool that has sent what it owed still expects something.
LEMMA GivesTail ==
  ASSUME NEW W \in Seq(Steps), W # <<>>, GivesFirst(W)
  PROVE  /\ Tail(W) \in Seq(Steps) /\ GivesFirst(Tail(W))
         /\ W[1].do = "give" => Tail(W) # <<>>
<1> DEFINE T == Tail(W)
<1>1. /\ T \in Seq(Steps) /\ Len(T) = Len(W) - 1 /\ Len(W) \in Nat /\ Len(W) > 0
      /\ \A i \in 1..Len(W) - 1 : T[i] = W[i + 1]
  BY SeqTail
<1> HIDE DEF T
<1>2. GivesFirst(T)
  <2>1. SUFFICES ASSUME NEW k \in 1..Len(T), T[k].do = "give" PROVE k < Len(T) BY DEF GivesFirst
  <2>2. k \in 1..Len(W) - 1 /\ k + 1 \in 1..Len(W) /\ T[k] = W[k + 1] BY <1>1
  <2>3. k + 1 < Len(W) BY <2>1, <2>2 DEF GivesFirst
  <2>4. QED BY <2>2, <2>3, <1>1
<1>3. ASSUME W[1].do = "give" PROVE T # <<>>
  <2>1. 1 \in 1..Len(W) BY <1>1
  <2>2. 1 < Len(W) BY <2>1, <1>3 DEF GivesFirst
  <2>3. Len(T) > 0 BY <2>2, <1>1
  <2>4. QED BY <2>3, <1>1, Empty
<1>4. QED BY <1>1, <1>2, <1>3 DEF T

\* A word in front of a sequence.
LEMMA SeqCons ==
  ASSUME NEW a \in Steps, NEW T \in Seq(Steps)
  PROVE  /\ <<a>> \o T \in Seq(Steps) /\ Len(<<a>> \o T) = Len(T) + 1
         /\ (<<a>> \o T)[1] = a
         /\ \A i \in 1..Len(T) : (<<a>> \o T)[i + 1] = T[i]
<1> DEFINE h == <<a>>
           s == h \o T
<1>1. h \in Seq(Steps) /\ Len(h) = 1 /\ h[1] = a OBVIOUS
<1> HIDE DEF h
<1>2. /\ s \in Seq(Steps) /\ Len(s) = Len(h) + Len(T)
      /\ \A i \in 1..Len(h) + Len(T) : s[i] = IF i <= Len(h) THEN h[i] ELSE T[i - Len(h)]
  BY <1>1, SeqConcat
<1>3. Len(T) \in Nat OBVIOUS
<1>4. s[1] = a BY <1>1, <1>2, <1>3
<1>5. \A i \in 1..Len(T) : s[i + 1] = T[i]
  <2> TAKE i \in 1..Len(T)
  <2>1. i + 1 \in 1..Len(h) + Len(T) /\ ~(i + 1 <= Len(h)) /\ (i + 1) - Len(h) = i BY <1>1, <1>3
  <2>2. QED BY <2>1, <1>2
<1>6. QED BY <1>1, <1>2, <1>3, <1>4, <1>5 DEF h

\* What a tool still wants after an answer.
LEMMA AcceptsType ==
  ASSUME wants \in Seq(Steps), wants # <<>>, GivesFirst(wants), NEW a \in Steps,
         NEW left \in Accepts(a)
  PROVE  left \in Seq(Steps) /\ GivesFirst(left)
<1>1. Head(wants) = wants[1] /\ wants[1] \in Steps BY SeqTail
<1>2. Tail(wants) \in Seq(Steps) /\ GivesFirst(Tail(wants)) BY GivesTail
<1>3. CASE left = <<>> BY <1>3 DEF GivesFirst
<1>4. CASE left = wants BY <1>4
<1>5. CASE left = Tail(wants) BY <1>2, <1>5
<1>6. ASSUME NEW k \in Nat, left = <<Get(k)>> \o Tail(wants) PROVE left \in Seq(Steps) /\ GivesFirst(left)
  <2> DEFINE T == Tail(wants)
             s == <<Get(k)>> \o T
  <2>1. T \in Seq(Steps) /\ GivesFirst(T) /\ Len(T) \in Nat BY <1>2
  <2> HIDE DEF T
  <2>2. Get(k) \in Steps /\ Get(k).do = "get" BY Letters, Fields
  <2>3. s \in Seq(Steps) /\ Len(s) = Len(T) + 1 /\ s[1] = Get(k) /\ \A i \in 1..Len(T) : s[i + 1] = T[i]
    BY <2>1, <2>2, SeqCons
  <2> HIDE DEF s
  <2>4. GivesFirst(s)
    <3>1. SUFFICES ASSUME NEW j \in 1..Len(s), s[j].do = "give" PROVE j < Len(s) BY DEF GivesFirst
    <3>2. j # 1 BY <3>1, <2>2, <2>3
    <3> DEFINE i == j - 1
    <3>3. i \in 1..Len(T) /\ i + 1 = j BY <3>2, <2>1, <2>3
    <3>4. T[i].do = "give" BY <3>1, <3>3, <2>3
    <3>5. i < Len(T) BY <3>3, <3>4, <2>1 DEF GivesFirst
    <3>6. QED BY <3>3, <3>5, <2>1, <2>3
  <2>5. QED BY <2>3, <2>4, <1>6 DEF s, T
<1>7. \/ left = <<>> \/ left = wants \/ left = Tail(wants)
      \/ /\ a.size < wants[1].size
         /\ left = <<Get(wants[1].size - a.size)>> \o Tail(wants)
  BY <1>1 DEF Accepts
<1>8. a.size \in Nat /\ wants[1].size \in Nat BY <1>1 DEF Steps
<1>9. QED
  <2>1. CASE a.size < wants[1].size /\ left = <<Get(wants[1].size - a.size)>> \o Tail(wants)
    <3>1. wants[1].size - a.size \in Nat BY <2>1, <1>8
    <3>2. QED BY <3>1, <2>1, <1>6
  <2>2. QED BY <2>1, <1>3, <1>4, <1>5, <1>7

\* The first message on its way, and the rest.
LEMMA MessageTail ==
  ASSUME NEW B \in Seq(Messages), B # <<>>
  PROVE  /\ Head(B) = B[1] /\ B[1] \in Messages /\ B[1].size \in Nat
         /\ Tail(B) \in Seq(Messages) /\ Len(Tail(B)) = Len(B) - 1 /\ Len(B) \in Nat /\ Len(B) > 0
         /\ \A i \in 1..Len(B) - 1 : Tail(B)[i] = B[i + 1]
<1>1. Head(B) = B[1] /\ B[1] \in Messages OBVIOUS
<1>2. B[1].size \in Nat BY <1>1 DEF Messages
<1>3. QED BY <1>1, <1>2

\* One message.
LEMMA MessageOne ==
  ASSUME NEW B \in Seq(Messages), Len(B) = 1
  PROVE  B # <<>> /\ Tail(B) = <<>>
<1>1. Len(B) > 0 OBVIOUS
<1>2. B # <<>> BY <1>1
<1>3. Tail(B) \in Seq(Messages) /\ Len(Tail(B)) = 0 BY <1>2, MessageTail
<1> DEFINE T == Tail(B)
<1>6. T \in Seq(Messages) /\ Len(T) = 0 BY <1>3
<1> HIDE DEF T
<1>7. T = <<>> BY <1>6
<1>4. Tail(B) = <<>> BY <1>7 DEF T
<1>5. QED BY <1>2, <1>4

\* An upload begins with a receive.
LEMMA UploadsFirst ==
  ASSUME NEW S \in Seq(Steps), NEW W \in Seq(Steps), NEW n \in Nat, Uploads(S, n, W)
  PROVE  S[1].do = "take"
<1>1. \E c \in 1..n : S[1] = Take(c) BY UploadsStep
<1>2. QED BY <1>1, Fields

\* What is next tells what the handler is at.
LEMMA FirstLetter ==
  ASSUME NEW S \in Seq(Steps), NEW W \in Seq(Steps), NEW B \in Seq(Messages), Meets(S, W, B)
  PROVE  \/ Dropping(S, W) /\ S[1].do \in {"drop", "err"}
         \/ Resting(S, W) /\ B = <<>> /\ S[1].do = "keep"
         \/ Refusing(S, W) /\ B = <<>> /\ S[1].do = "err"
         \/ Closes(S, W) /\ B = <<>> /\ S[1].do \in {"ok", "err"}
         \/ Listing(S, W) /\ B = <<>> /\ S[1].do \in {"data", "end"}
         \/ Fetching(S, W) /\ B = <<>> /\ S[1].do = "data"
         \/ Offering(S, W) /\ B = <<>> /\ S[1].do = "take"
         \/ Granting(S, W) /\ B = <<>> /\ S[1].do = "ok"
         \/ Sent(S, W, B) /\ B # <<>> /\ S[1].do = "take"
         \/ Taken(S, W, B) /\ S[1].do = "apply"
<1> USE Fields
<1>1. CASE Dropping(S, W)
  <2>3. One(S, Drop) => S[1] = Drop BY OneTwo
  <2>4. Two(S, Err, Drop) => S[1] = Err BY OneTwo
  <2>1. S[1].do \in {"drop", "err"} BY <1>1, <2>3, <2>4 DEF Dropping
  <2>2. QED BY <1>1, <2>1
<1>2. CASE Resting(S, W) /\ B = <<>>
  <2>1. S[1].do = "keep" BY <1>2, OneTwo DEF Resting
  <2>2. QED BY <1>2, <2>1
<1>3. CASE Refusing(S, W) /\ B = <<>> BY <1>3, OneTwo DEF Refusing
<1>4. CASE Closes(S, W) /\ B = <<>> BY <1>4, ClosesStep, OneTwo
<1>5. CASE Listing(S, W) /\ B = <<>> BY <1>5, ListsStep DEF Listing
<1>6. CASE Fetching(S, W) /\ B = <<>>
  <2>1. W # <<>>
    <3>1. Len(W) > 0 BY <1>6 DEF Fetching
    <3>2. QED BY <3>1, Empty
  <2>2. W[1].size \in Nat BY <2>1, SeqTail DEF Steps
  <2>3. Downloads(S, W[1].size) BY <1>6 DEF Fetching
  <2>4. PICK c \in 1..W[1].size : S[1] = Data(c) BY <2>2, <2>3, DownloadsStep
  <2>5. QED BY <1>6, <2>4
<1>7. CASE Offering(S, W) /\ B = <<>>
  <2>1. W # <<>> /\ Uploads(S, W[1].size, Tail(W)) BY <1>7 DEF Offering
  <2>2. W[1].size \in Nat /\ Tail(W) \in Seq(Steps) BY <2>1, SeqTail DEF Steps
  <2>3. S[1].do = "take" BY <2>1, <2>2, UploadsFirst
  <2>4. QED BY <1>7, <2>3
<1>8. CASE Granting(S, W) /\ B = <<>> BY <1>8 DEF Granting
<1>9. CASE Sent(S, W, B)
  <2>1. B # <<>>
    <3>1. Len(B) = 1 BY <1>9 DEF Sent
    <3>2. QED BY <3>1, MessageOne
  <2>2. Uploads(S, B[1].size, W) BY <1>9 DEF Sent
  <2>3. B[1].size \in Nat BY <2>1, MessageTail
  <2>4. S[1].do = "take" BY <2>2, <2>3, UploadsFirst
  <2>5. QED BY <1>9, <2>1, <2>4
<1>10. CASE Taken(S, W, B) BY <1>10 DEF Taken
<1>11. QED BY <1>1, <1>2, <1>3, <1>4, <1>5, <1>6, <1>7, <1>8, <1>9, <1>10 DEF Meets

\* A handler about to return.
LEMMA MeetsOne ==
  ASSUME NEW S, NEW W, NEW B
  PROVE  /\ One(S, Drop) => Meets(S, W, B)
         /\ W = <<>> /\ B = <<>> /\ One(S, Keep) => Meets(S, W, B)
BY DEF Meets, Dropping, Resting

\* The answer that comes next is one the tool waits for, unless it tells of a
\* failure and is the last.
LEMMA MeetsReceive ==
  ASSUME wants \in Seq(Steps), wants # <<>>,
         NEW S \in Seq(Steps), S # <<>>, NEW B \in Seq(Messages), Meets(S, wants, B),
         S[1].do \in Answers
  PROVE  \/ \E left : Accepts(S[1]) = {left} /\ Meets(Tail(S), left, B)
         \/ Accepts(S[1]) = {} /\ One(Tail(S), Drop)
<1>0. Head(wants) = wants[1] /\ wants[1] \in Steps /\ wants[1].size \in Nat
  <2>1. Head(wants) = wants[1] /\ wants[1] \in Steps BY SeqTail
  <2>2. QED BY <2>1 DEF Steps
<1>1. Tail(S) \in Seq(Steps) BY SeqTail
<1>a. Status.do = "status" BY Fields
<1>2. ASSUME Two(S, Err, Drop)
      PROVE  \/ \E left : Accepts(S[1]) = {left} /\ Meets(Tail(S), left, B)
             \/ Accepts(S[1]) = {} /\ One(Tail(S), Drop)
  <2>1. S[1] = Err /\ One(Tail(S), Drop) BY <1>2, OneTwo
  <2>2. S[1].do = "err" BY <2>1, Fields
  <2>3. CASE wants[1].do = "status"
    <3>1. Accepts(S[1]) = {<<>>} BY <1>0, <2>2, <2>3 DEF Accepts
    <3>2. Meets(Tail(S), <<>>, B) BY <2>1, MeetsOne
    <3>3. QED BY <3>1, <3>2
  <2>4. CASE wants[1].do # "status"
    <3>1. Accepts(S[1]) = {} BY <1>0, <2>2, <2>4 DEF Accepts
    <3>2. QED BY <2>1, <3>1
  <2>5. QED BY <2>3, <2>4
<1>3. ASSUME S[1] = Ok, wants[1] = Status, Meets(Tail(S), Tail(wants), B)
      PROVE  \E left : Accepts(S[1]) = {left} /\ Meets(Tail(S), left, B)
  <2>1. S[1].do = "ok" /\ wants[1].do = "status" BY <1>3, Fields
  <2>2. Accepts(S[1]) = {Tail(wants)} BY <1>0, <2>1 DEF Accepts
  <2>3. QED BY <1>3, <2>2
<1>4. CASE Dropping(S, wants)
  <2>1. CASE One(S, Drop)
    <3>1. S[1].do = "drop" BY <2>1, OneTwo, Fields
    <3>2. QED BY <3>1 DEF Answers
  <2>2. QED BY <1>2, <1>4, <2>1 DEF Dropping
<1>5. CASE Refusing(S, wants) /\ B = <<>>
  <2>1. wants[1].do = "status" /\ S[1] = Err /\ One(Tail(S), Keep)
    BY <1>5, <1>a, OneTwo DEF Refusing
  <2>2. S[1].do = "err" BY <2>1, Fields
  <2>3. Accepts(S[1]) = {<<>>} BY <1>0, <2>1, <2>2 DEF Accepts
  <2>4. Meets(Tail(S), <<>>, B) BY <2>1, <1>5, MeetsOne
  <2>5. QED BY <2>3, <2>4
<1>6. CASE Closes(S, wants) /\ B = <<>>
  <2>1. wants[1] = Status BY <1>6, ClosesStep
  <2>2. Two(S, Err, Drop) \/ (S[1] = Ok /\ Meets(Tail(S), Tail(wants), <<>>)) BY <1>6, ClosesStep
  <2>3. CASE Two(S, Err, Drop) BY <1>2, <2>3
  <2>4. CASE S[1] = Ok /\ Meets(Tail(S), Tail(wants), <<>>) BY <1>3, <1>6, <2>1, <2>4
  <2>5. QED BY <2>2, <2>3, <2>4
<1>7. CASE Listing(S, wants) /\ B = <<>>
  <2>1. wants[1] = List /\ Tail(wants) = <<>> BY <1>7, OneTwo DEF Listing
  <2>2. wants[1].do = "list" BY <2>1, Fields
  <2>3. CASE S[1] = End /\ One(Tail(S), Keep)
    <3>1. S[1].do = "end" BY <2>3, Fields
    <3>2. Accepts(S[1]) = {Tail(wants)} BY <1>0, <2>2, <3>1 DEF Accepts
    <3>3. Meets(Tail(S), Tail(wants), B) BY <1>7, <2>1, <2>3, MeetsOne
    <3>4. QED BY <3>2, <3>3
  <2>4. CASE S[1] = Data(Word) /\ Lists(Tail(S))
    <3>1. S[1].do = "data" BY <2>4, Fields
    <3>2. Accepts(S[1]) = {wants} BY <1>0, <2>2, <3>1 DEF Accepts
    <3>3. Meets(Tail(S), wants, B) BY <1>7, <2>4 DEF Meets, Listing
    <3>4. QED BY <3>2, <3>3
  <2>5. QED BY <1>7, <2>3, <2>4, ListsStep DEF Listing
<1>8. CASE Fetching(S, wants) /\ B = <<>>
  <2> DEFINE n == wants[1].size
  <2>1. Len(wants) = 1 /\ wants[1].do = "get" /\ Downloads(S, n) BY <1>8 DEF Fetching
  <2>2. PICK c \in 1..n : /\ S[1] = Data(c)
                          /\ c = n => One(Tail(S), Keep)
                          /\ c < n => Downloads(Tail(S), n - c)
    BY <1>0, <2>1, DownloadsStep
  <2>3. S[1].do = "data" /\ S[1].size = c BY <2>2, Fields
  <2>4. Tail(wants) = <<>>
    <3>1. Tail(wants) \in Seq(Steps) /\ Len(Tail(wants)) = 0 BY <2>1, SeqTail
    <3>2. QED BY <3>1, Empty
  <2>5. CASE c = n
    <3>1. Accepts(S[1]) = {Tail(wants)} BY <1>0, <2>1, <2>3, <2>5 DEF Accepts
    <3>2. Meets(Tail(S), Tail(wants), B) BY <1>8, <2>2, <2>4, <2>5, MeetsOne
    <3>3. QED BY <3>1, <3>2
  <2>6. CASE c < n
    <3> DEFINE left == <<Get(n - c)>> \o Tail(wants)
    <3>1. Accepts(S[1]) = {left} BY <1>0, <2>1, <2>3, <2>6 DEF Accepts
    <3>2. n - c \in Nat BY <2>6, <1>0
    <3>3. Get(n - c) \in Steps /\ Get(n - c).do = "get" /\ Get(n - c).size = n - c
      BY <3>2, Letters, Fields
    <3>4. Tail(wants) \in Seq(Steps) /\ Len(Tail(wants)) = 0 BY <2>1, SeqTail
    <3>5. left \in Seq(Steps) /\ Len(left) = 1 /\ left[1] = Get(n - c) BY <3>3, <3>4, SeqCons
    <3>6. Fetching(Tail(S), left) BY <2>2, <2>6, <3>3, <3>5 DEF Fetching
    <3>7. Meets(Tail(S), left, B) BY <1>8, <3>6 DEF Meets
    <3>8. QED BY <3>1, <3>7
  <2>7. c = n \/ c < n BY <1>0
  <2>8. QED BY <2>5, <2>6, <2>7
<1>9. CASE Granting(S, wants) /\ B = <<>>
  <2>1. S[1] = Ok /\ wants[1] = Status BY <1>9 DEF Granting
  <2>2. Meets(Tail(S), Tail(wants), B) BY <1>9 DEF Granting, Meets
  <2>3. QED BY <2>1, <2>2, <1>3
<1>10. S[1].do \notin {"keep", "drop", "take", "apply"} BY DEF Answers
<1>11. QED BY <1>4, <1>5, <1>6, <1>7, <1>8, <1>9, <1>10, FirstLetter

\* What the tool owes and sends is what the handler waits for.
LEMMA MeetsGive ==
  ASSUME NEW W \in Seq(Steps), W # <<>>, W[1].do = "give", GivesFirst(W),
         NEW S \in Seq(Steps), NEW B \in Seq(Messages), Meets(S, W, B)
  PROVE  /\ Dropping(S, Tail(W)) \/ (B = <<>> /\ Meets(S, Tail(W), <<Bytes(W[1].size)>>))
<1>1. Tail(W) # <<>> /\ Tail(W) \in Seq(Steps) BY GivesTail
<1>2. W[1] # Status /\ W[1] # List BY Fields
<1>3. CASE Dropping(S, W) BY <1>1, <1>3 DEF Dropping
<1>4. CASE Offering(S, W) /\ B = <<>>
  <2>1. Uploads(S, W[1].size, Tail(W)) BY <1>4 DEF Offering
  <2> DEFINE b == <<Bytes(W[1].size)>>
  <2>2. Len(b) = 1 /\ b[1] = Bytes(W[1].size) OBVIOUS
  <2> HIDE DEF b
  <2>3. b[1].size = W[1].size BY <2>2 DEF Bytes
  <2>4. Sent(S, Tail(W), b) BY <2>1, <2>2, <2>3 DEF Sent
  <2>5. Meets(S, Tail(W), b) BY <2>4 DEF Meets
  <2>6. QED BY <1>4, <2>5 DEF b
<1>5. ~Resting(S, W) /\ ~Refusing(S, W) /\ ~Closes(S, W) /\ ~Granting(S, W)
  <2>1. ~Closes(S, W) BY <1>2, ClosesStep
  <2>2. QED BY <2>1, <1>2 DEF Resting, Refusing, Granting
<1>6. ~Listing(S, W)
  <2>1. Listing(S, W) => W[1] = List BY DEF Listing, One
  <2>2. QED BY <1>2, <2>1
<1>7. ~Fetching(S, W) BY DEF Fetching
<1>8. ASSUME NEW T \in Seq(Steps) PROVE ~Sent(T, W, B)
  <2>1. SUFFICES ASSUME Sent(T, W, B) PROVE FALSE OBVIOUS
  <2>2. Len(B) = 1 /\ Uploads(T, B[1].size, W) BY <2>1 DEF Sent
  <2>3. B # <<>> BY <2>2, MessageOne
  <2>4. B[1].size \in Nat BY <2>3, MessageTail
  <2>5. W[1] = Status BY <2>2, <2>4, UploadsStep
  <2>6. QED BY <2>5, <1>2
<1>9. ~Taken(S, W, B)
  <2>1. SUFFICES ASSUME Taken(S, W, B) PROVE FALSE OBVIOUS
  <2>2. S # <<>> /\ (Sent(Tail(S), W, B) \/ Closes(Tail(S), W)) BY <2>1 DEF Taken
  <2>3. Tail(S) \in Seq(Steps) BY <2>2, SeqTail
  <2>4. ~Sent(Tail(S), W, B) BY <2>3, <1>8
  <2>5. ~Closes(Tail(S), W) BY <2>3, <1>2, ClosesStep
  <2>6. QED BY <2>2, <2>4, <2>5
<1>10. QED BY <1>3, <1>4, <1>5, <1>6, <1>7, <1>8, <1>9, FirstLetter

\* What the handler receives, it takes from what was sent.
LEMMA MeetsTake ==
  ASSUME NEW S \in Seq(Steps), S # <<>>, NEW W \in Seq(Steps), NEW B \in Seq(Messages), B # <<>>,
         Meets(S, W, B), S[1].do = "take"
  PROVE  /\ Len(B) = 1 /\ B[1] = Bytes(B[1].size) /\ S[1].size \in 1..B[1].size
         /\ S[1].size = B[1].size => Meets(Tail(S), W, <<>>)
         /\ S[1].size < B[1].size => Meets(Tail(S), W, <<Bytes(B[1].size - S[1].size)>>)
<1>1. Sent(S, W, B) BY FirstLetter
<1>2. Len(B) = 1 /\ B[1] = Bytes(B[1].size) /\ Uploads(S, B[1].size, W) BY <1>1 DEF Sent
<1> DEFINE n == B[1].size
<1>3. n \in Nat BY MessageTail
<1> HIDE DEF n
<1>4. PICK c \in 1..n :
              /\ S[1] = Take(c)
              /\ \/ c = n /\ Closes(Tail(S), W)
                 \/ /\ Tail(S) # <<>> /\ Tail(S)[1] = Apply
                    /\ \/ c = n /\ Closes(Tail(Tail(S)), W)
                       \/ c < n /\ Uploads(Tail(Tail(S)), n - c, W)
  BY <1>2, <1>3, UploadsStep DEF n
<1>5. S[1].size = c BY <1>4, Fields
<1>6. CASE c = n /\ Closes(Tail(S), W)
  <2>1. Meets(Tail(S), W, <<>>) BY <1>6 DEF Meets
  <2>2. QED BY <2>1, <1>2, <1>5, <1>6, <1>3 DEF n
<1>7. CASE /\ Tail(S) # <<>> /\ Tail(S)[1] = Apply
           /\ c = n /\ Closes(Tail(Tail(S)), W)
  <2>1. Meets(Tail(S), W, <<>>) BY <1>7 DEF Meets, Taken
  <2>2. QED BY <2>1, <1>2, <1>5, <1>7, <1>3 DEF n
<1>8. CASE /\ Tail(S) # <<>> /\ Tail(S)[1] = Apply
           /\ c < n /\ Uploads(Tail(Tail(S)), n - c, W)
  <2> DEFINE b == <<Bytes(n - c)>>
  <2>1. Len(b) = 1 /\ b[1] = Bytes(n - c) OBVIOUS
  <2> HIDE DEF b
  <2>2. b[1].size = n - c BY <2>1 DEF Bytes
  <2>3. Sent(Tail(Tail(S)), W, b) BY <1>8, <2>1, <2>2 DEF Sent
  <2>4. Taken(Tail(S), W, b) BY <1>8, <2>3 DEF Taken
  <2>5. Meets(Tail(S), W, b) BY <2>4 DEF Meets
  <2>6. QED BY <2>5, <1>2, <1>5, <1>8, <1>3 DEF n, b
<1>9. QED BY <1>4, <1>6, <1>7, <1>8

\* What the handler applies changes nothing for the tool.
LEMMA MeetsApply ==
  ASSUME NEW S \in Seq(Steps), S # <<>>, NEW W \in Seq(Steps), NEW B \in Seq(Messages),
         Meets(S, W, B), S[1].do = "apply"
  PROVE  Meets(Tail(S), W, B)
<1>1. Taken(S, W, B) BY FirstLetter
<1>2. QED BY <1>1 DEF Taken, Meets

\* A tool that has its answers has nothing to come.
LEMMA MeetsRest ==
  ASSUME NEW S \in Seq(Steps), NEW B \in Seq(Messages), Meets(S, <<>>, B)
  PROVE  One(S, Drop) \/ (One(S, Keep) /\ B = <<>>)
<1> DEFINE W == <<>>
<1>1. W \in Seq(Steps) OBVIOUS
<1> HIDE DEF W
<1>2. CASE Dropping(S, <<>>) BY <1>2 DEF Dropping
<1>3. CASE Resting(S, <<>>) /\ B = <<>> BY <1>3 DEF Resting
<1>4. ~Listing(S, <<>>) /\ ~Fetching(S, <<>>) /\ ~Refusing(S, <<>>) /\ ~Granting(S, <<>>) /\ ~Offering(S, <<>>)
  BY DEF Listing, Fetching, One, Refusing, Granting, Offering
<1>5. ~Closes(S, <<>>) BY <1>1, ClosesStep DEF W
<1>8. ASSUME NEW T \in Seq(Steps) PROVE ~Sent(T, <<>>, B)
  <2>1. SUFFICES ASSUME Sent(T, W, B) PROVE FALSE BY DEF W
  <2>2. Len(B) = 1 /\ Uploads(T, B[1].size, W) BY <2>1 DEF Sent
  <2>3. B # <<>> BY <2>2, MessageOne
  <2>4. B[1].size \in Nat BY <2>3, MessageTail
  <2>5. W # <<>> BY <1>1, <2>2, <2>4, UploadsStep
  <2>6. QED BY <2>5 DEF W
<1>9. ~Taken(S, <<>>, B)
  <2>1. SUFFICES ASSUME Taken(S, <<>>, B) PROVE FALSE OBVIOUS
  <2>2. S # <<>> /\ (Sent(Tail(S), <<>>, B) \/ Closes(Tail(S), <<>>)) BY <2>1 DEF Taken
  <2>3. Tail(S) \in Seq(Steps) BY <2>2, SeqTail
  <2>4. ~Sent(Tail(S), <<>>, B) BY <2>3, <1>8
  <2>5. ~Closes(Tail(S), W) BY <1>1, <2>3, ClosesStep DEF W
  <2>6. QED BY <2>2, <2>4, <2>5 DEF W
<1>10. QED BY <1>2, <1>3, <1>4, <1>5, <1>8, <1>9 DEF Meets

-----------------------------------------------------------------------------
\* Requests.

\* Every script of every request is sound.
LEMMA ScriptsSound ==
  ASSUME NEW r \in Requests, NEW s \in Scripts(r)
  PROVE  Sound(s) /\ s # <<>>
<1>1. r.length \in Nat \ {0} BY CommandsAssumption DEF Requests
<1>2. Sound(s) BY <1>1, ScriptsPlay, PlaysSound
<1>3. Len(s) > 0 /\ s \in Seq(Steps) BY <1>2 DEF Sound, WellFormed
<1>4. s # <<>> BY <1>3, Empty
<1>5. QED BY <1>2, <1>4

\* What a tool wants of a request.
Wanted(W, n) ==
  \/ W = <<Status>> \/ W = <<Closed>> \/ W = <<Get(2)>>
  \/ W = <<Status, Get(2)>> \/ W = <<Status, Get(n)>> \/ W = <<Status, Get(1)>>
  \/ W = <<Status, Give(n), Status>> \/ W = <<Status, Give(n), Status, List>>

\* Only the texts of print and notify are sent before a status.
LEMMA WantsWanted ==
  ASSUME NEW r \in Requests
  PROVE  \/ Wanted(Wants(r), r.length)
         \/ ~r.bare /\ r.name \in TextNames /\ Wants(r) = <<Give(r.length), Status>>
<1> DEFINE W == Wants(r)
<1>1. CASE r.bare /\ r.name \notin NoPayload BY <1>1 DEF Wants, Wanted
<1>2. CASE ~(r.bare /\ r.name \notin NoPayload) /\ r.name \in TextNames
  <2>1. ~r.bare BY <1>2 DEF TextNames, NoPayload
  <2>2. W = <<Give(r.length), Status>> BY <1>2 DEF Wants, TextNames, SetNames, GetNames
  <2>3. QED BY <1>2, <2>1, <2>2
<1>3. CASE ~(r.bare /\ r.name \notin NoPayload) /\ r.name \notin TextNames
  BY <1>3 DEF Wants, Wanted
<1>4. QED BY <1>1, <1>2, <1>3

\* What a tool wants of a request.
LEMMA WantsType ==
  ASSUME NEW r \in Requests
  PROVE  Wants(r) \in Seq(Steps) /\ Wants(r) # <<>> /\ GivesFirst(Wants(r))
<1> SUFFICES ASSUME NEW W, NEW n \in Nat, Wanted(W, n) \/ W = <<Give(n), Status>>
             PROVE  W \in Seq(Steps) /\ W # <<>> /\ GivesFirst(W)
  <2>1. r.length \in Nat BY CommandsAssumption DEF Requests
  <2>2. QED BY <2>1, WantsWanted
<1>1. 1 \in Nat /\ 2 \in Nat OBVIOUS
<1>2. CASE W = <<Status>>
  <2>1. W \in Seq(Steps) BY <1>1, <1>2, Letters
  <2>2. W # <<>> /\ Len(W) = 1 /\ W[1] = Status BY <1>2
  <2>3. GivesFirst(W) BY <2>2, Fields DEF GivesFirst
  <2>4. QED BY <2>1, <2>2, <2>3
<1>3. CASE W = <<Closed>>
  <2>1. W \in Seq(Steps) BY <1>1, <1>3, Letters
  <2>2. W # <<>> /\ Len(W) = 1 /\ W[1] = Closed BY <1>3
  <2>3. GivesFirst(W) BY <2>2, Fields DEF GivesFirst
  <2>4. QED BY <2>1, <2>2, <2>3
<1>4. CASE W = <<Get(2)>>
  <2>1. W \in Seq(Steps) BY <1>1, <1>4, Letters
  <2>2. W # <<>> /\ Len(W) = 1 /\ W[1] = Get(2) BY <1>4
  <2>3. GivesFirst(W) BY <2>2, Fields DEF GivesFirst
  <2>4. QED BY <2>1, <2>2, <2>3
<1>5. CASE W = <<Status, Get(2)>>
  <2>1. W \in Seq(Steps) BY <1>1, <1>5, Letters
  <2>2. W # <<>> /\ Len(W) = 2 /\ W[1] = Status /\ W[2] = Get(2) BY <1>5
  <2>3. GivesFirst(W) BY <2>2, Fields DEF GivesFirst
  <2>4. QED BY <2>1, <2>2, <2>3
<1>6. CASE W = <<Status, Get(n)>>
  <2>1. W \in Seq(Steps) BY <1>1, <1>6, Letters
  <2>2. W # <<>> /\ Len(W) = 2 /\ W[1] = Status /\ W[2] = Get(n) BY <1>6
  <2>3. GivesFirst(W) BY <2>2, Fields DEF GivesFirst
  <2>4. QED BY <2>1, <2>2, <2>3
<1>7. CASE W = <<Status, Get(1)>>
  <2>1. W \in Seq(Steps) BY <1>1, <1>7, Letters
  <2>2. W # <<>> /\ Len(W) = 2 /\ W[1] = Status /\ W[2] = Get(1) BY <1>7
  <2>3. GivesFirst(W) BY <2>2, Fields DEF GivesFirst
  <2>4. QED BY <2>1, <2>2, <2>3
<1>8. CASE W = <<Status, Give(n), Status>>
  <2>1. W \in Seq(Steps) BY <1>1, <1>8, Letters
  <2>2. W # <<>> /\ Len(W) = 3 /\ W[1] = Status /\ W[2] = Give(n) /\ W[3] = Status BY <1>8
  <2>3. GivesFirst(W) BY <2>2, Fields DEF GivesFirst
  <2>4. QED BY <2>1, <2>2, <2>3
<1>9. CASE W = <<Status, Give(n), Status, List>>
  <2>1. W \in Seq(Steps) BY <1>1, <1>9, Letters
  <2>2. W # <<>> /\ Len(W) = 4 /\ W[1] = Status /\ W[2] = Give(n) /\ W[3] = Status /\ W[4] = List
    BY <1>9
  <2>3. GivesFirst(W) BY <2>2, Fields DEF GivesFirst
  <2>4. QED BY <2>1, <2>2, <2>3
<1>10. CASE W = <<Give(n), Status>>
  <2>1. W \in Seq(Steps) BY <1>1, <1>10, Letters
  <2>2. W # <<>> /\ Len(W) = 2 /\ W[1] = Give(n) /\ W[2] = Status BY <1>10
  <2>3. GivesFirst(W) BY <2>2, Fields DEF GivesFirst
  <2>4. QED BY <2>1, <2>2, <2>3
<1>11. QED BY <1>2, <1>3, <1>4, <1>5, <1>6, <1>7, <1>8, <1>9, <1>10 DEF Wanted

\* A tool that owes bytes before any status sends a text.
LEMMA WantsGive ==
  ASSUME NEW r \in Requests, Wants(r)[1].do = "give"
  PROVE  ~r.bare /\ r.name \in TextNames /\ Wants(r) = <<Give(r.length), Status>>
<1>1. ~Wanted(Wants(r), r.length)
  <2>1. ASSUME NEW W, Wanted(W, r.length) PROVE W[1].do # "give" BY <2>1, Fields DEF Wanted
  <2>2. QED BY <2>1
<1>2. QED BY <1>1, WantsWanted

\* A script that goes on.
LEMMA WellFormedTail ==
  ASSUME NEW s \in Seq(Steps), s # <<>>, WellFormed(s)
  PROVE  /\ s[1].do \notin {"keep", "drop"} =>
              /\ Tail(s) # <<>> /\ WellFormed(Tail(s))
              /\ Tail(s)[1].do = "apply" => s[1].do = "take"
         /\ s[1].do = "keep" => One(s, Keep)
         /\ s[1].do = "drop" => One(s, Drop)
<1> DEFINE t == Tail(s)
<1>1. /\ t \in Seq(Steps) /\ Len(t) = Len(s) - 1 /\ Len(s) \in Nat /\ Len(s) > 0
      /\ \A i \in 1..Len(s) - 1 : t[i] = s[i + 1]
  BY SeqTail
<1> HIDE DEF t
<1> DEFINE l == Len(s)
<1>2. /\ s[l] \in {Keep, Drop} /\ \A k \in 1..l - 1 : s[k].do \notin {"keep", "drop"}
      /\ \A k \in 2..l : s[k].do = "apply" => s[k - 1].do = "take"
  BY DEF WellFormed
<1>3. l \in Nat /\ l > 0 BY <1>1
<1> HIDE DEF l
<1>4. CASE l = 1
  <2>1. s[1] = Keep \/ s[1] = Drop BY <1>2, <1>4
  <2>2. Keep.do = "keep" /\ Drop.do = "drop" BY Fields
  <2>3. One(s, s[1]) BY <1>4 DEF One, l
  <2>4. QED BY <2>1, <2>2, <2>3
<1>5. CASE l > 1
  <2>1. s[1].do \notin {"keep", "drop"} BY <1>2, <1>3, <1>5
  <2>2. Len(t) = l - 1 BY <1>1 DEF l
  <2>3. Len(t) > 0 BY <2>2, <1>3, <1>5
  <2>4. t # <<>> BY <2>3, <1>1, Empty
  <2>5. t[1] = s[2] BY <1>1, <1>3, <1>5 DEF l
  <2>6. 2 \in 2..l /\ 2 - 1 = 1 BY <1>3, <1>5
  <2>7. t[1].do = "apply" => s[1].do = "take" BY <1>2, <2>5, <2>6
  <2>8. WellFormed(t)
    <3>0. \A i \in 1..l - 1 : t[i] = s[i + 1] BY <1>1 DEF l
    <3>1. t[Len(t)] \in {Keep, Drop}
      <4>1. l - 1 \in 1..l - 1 /\ (l - 1) + 1 = l BY <1>3, <1>5
      <4>2. QED BY <4>1, <2>2, <3>0, <1>2
    <3>2. \A k \in 1..Len(t) - 1 : t[k].do \notin {"keep", "drop"}
      <4> TAKE k \in 1..Len(t) - 1
      <4>1. k \in 1..l - 1 /\ k + 1 \in 1..l - 1 BY <2>2, <1>3
      <4>2. QED BY <4>1, <3>0, <1>2
    <3>3. \A k \in 2..Len(t) : t[k].do = "apply" => t[k - 1].do = "take"
      <4> TAKE k \in 2..Len(t)
      <4>1. k \in 1..l - 1 /\ k + 1 \in 2..l /\ k - 1 \in 1..l - 1 /\ (k + 1) - 1 = k /\ (k - 1) + 1 = k
        BY <2>2, <1>3
      <4>2. t[k] = s[k + 1] /\ t[k - 1] = s[k] BY <4>1, <3>0
      <4>3. s[k + 1].do = "apply" => s[k].do = "take" BY <4>1, <1>2
      <4>4. QED BY <4>2, <4>3
    <3>4. QED BY <2>3, <3>1, <3>2, <3>3 DEF WellFormed
  <2>9. QED BY <2>1, <2>4, <2>7, <2>8 DEF t
<1>6. l = 1 \/ l > 1 BY <1>3
<1>7. QED BY <1>4, <1>5, <1>6

-----------------------------------------------------------------------------
\* The basis: types, ends and scripts, whatever the tool asks for.

\* Requests and bytes are messages.
LEMMA MessageIs ==
  /\ \A r \in Requests : Request(r) \in Messages /\ Request(r).what = "request" /\ Request(r).req = r
  /\ \A n \in Nat : Bytes(n) \in Messages /\ Bytes(n).what = "bytes" /\ Bytes(n).size = n
BY DEF Request, Bytes, Messages

\* A message more on its way.
LEMMA MessageCons ==
  ASSUME NEW m \in Messages, NEW T \in Seq(Messages)
  PROVE  <<m>> \o T \in Seq(Messages) /\ Append(T, m) \in Seq(Messages)
OBVIOUS

\* A reset leaves a part of what was on its way.
LEMMA MessageCut ==
  ASSUME toServer \in Seq(Messages), Cut
  PROVE  toServer' \in Seq(Messages)
<1>1. PICK n \in 0..Len(toServer) : toServer' = SubSeq(toServer, 1, n) BY DEF Cut
<1>2. SubSeq(toServer, 1, n) \in Seq(Messages)
  <2>1. Len(toServer) \in Nat OBVIOUS
  <2>2. \A i \in 1..n : toServer[i] \in Messages BY <2>1
  <2>3. QED BY <2>1, <2>2, SubSeqProperties
<1>3. QED BY <1>1, <1>2

\* A receive leaves the rest of a message on its way.
LEMMA ArrivesType ==
  ASSUME toServer \in Seq(Messages), NEW n \in Nat, Arrives(n)
  PROVE  toServer' \in Seq(Messages)
<1>1. toServer # <<>> /\ Head(toServer).size >= n /\ Head(toServer).size \in Nat /\ Tail(toServer) \in Seq(Messages)
  BY MessageTail DEF Arrives, Has
<1> DEFINE k == Head(toServer).size - n
<1>2. k \in Nat BY <1>1
<1>3. Bytes(k) \in Messages BY <1>2, MessageIs
<1>4. <<Bytes(k)>> \o Tail(toServer) \in Seq(Messages) BY <1>1, <1>3, MessageCons
<1>5. QED BY <1>1, <1>4 DEF Arrives

\* The next step of a script.
LEMMA SizeIs ==
  ASSUME NEW s \in Seq(Steps), s # <<>>
  PROVE  Head(s) = s[1] /\ s[1] \in Steps /\ s[1].size \in Nat /\ s[1].do \in Kinds /\ Tail(s) \in Seq(Steps)
<1>1. Head(s) = s[1] /\ s[1] \in Steps /\ Tail(s) \in Seq(Steps) BY SeqTail
<1>2. QED BY <1>1 DEF Steps

\* The basis holds at first.
LEMMA TypeInit == Init => Basis
<1> SUFFICES ASSUME Init PROVE Basis OBVIOUS
<1>1. toServer \in Seq(Messages) /\ toTool \in Seq(Steps) /\ todo \in Seq(Steps) /\ wants \in Seq(Steps)
  BY DEF Init
<1>2. Len(toTool) = 0 /\ Len(wants) = 0 BY DEF Init
<1>3. Traffic BY <1>1, <1>2 DEF Traffic, GivesFirst
<1>4. Ends /\ Running BY <1>1 DEF Init, Ends, Running
<1>5. TypeOK BY <1>2 DEF Init, TypeOK
<1>6. QED BY <1>3, <1>4, <1>5 DEF Init, Basis, InventedAfterReset

\* The tool asks.
LEMMA AskBasis ==
  ASSUME Basis, NEW r \in Requests, Ask(r)
  PROVE  Basis'
<1> USE DEF Basis, handler
<1>1. toServer' \in Seq(Messages) BY MessageIs, MessageCons DEF Ask, Traffic
<1>2. Wants(r) \in Seq(Steps) /\ Wants(r) # <<>> /\ GivesFirst(Wants(r)) BY WantsType
<1>3. wants' \in Seq(Steps) /\ wants' # <<>> /\ GivesFirst(wants')
  <2>1. CASE r.bare
    <3>1. <<>> \o Wants(r) = Wants(r) BY <1>2
    <3>2. wants' = Wants(r) BY <2>1, <3>1 DEF Ask
    <3>3. QED BY <3>2, <1>2
  <2>2. CASE ~r.bare
    <3> DEFINE T == Wants(r)
               s == <<Give(Word)>> \o T
    <3>0. Give(Word) \in Steps BY Letters DEF Word
    <3>1. T \in Seq(Steps) /\ T # <<>> /\ GivesFirst(T) /\ Len(T) \in Nat /\ Len(T) > 0
      BY <1>2, SeqTail
    <3> HIDE DEF T
    <3>2. s \in Seq(Steps) /\ Len(s) = Len(T) + 1 /\ \A i \in 1..Len(T) : s[i + 1] = T[i]
      BY <3>0, <3>1, SeqCons
    <3> HIDE DEF s
    <3>3. Len(s) > 1 BY <3>1, <3>2
    <3>4. s # <<>> BY <3>2, <3>3, Empty
    <3>5. GivesFirst(s)
      <4>1. SUFFICES ASSUME NEW j \in 1..Len(s), s[j].do = "give" PROVE j < Len(s) BY DEF GivesFirst
      <4>2. CASE j = 1 BY <3>3, <4>2
      <4>3. CASE j > 1
        <5> DEFINE i == j - 1
        <5>1. i \in 1..Len(T) /\ i + 1 = j BY <4>3, <3>1, <3>2
        <5>2. T[i].do = "give" BY <4>1, <5>1, <3>2
        <5>3. i < Len(T) BY <5>1, <5>2, <3>1 DEF GivesFirst
        <5>4. QED BY <5>1, <5>3, <3>1, <3>2
      <4>4. QED BY <4>2, <4>3
    <3>6. wants' = s BY <2>2 DEF Ask, s, T
    <3>7. QED BY <3>2, <3>4, <3>5, <3>6
  <2>3. QED BY <2>1, <2>2
<1>4. Traffic' BY <1>1, <1>3 DEF Ask, Traffic
<1>5. Ends' BY DEF Ask, Ends
<1>6. Running' BY DEF Ask, Running
<1>7. TypeOK' BY <1>3 DEF Ask, TypeOK
<1>8. InventedAfterReset' BY DEF Ask, InventedAfterReset
<1>9. QED BY <1>4, <1>5, <1>6, <1>7, <1>8

\* The tool sends what it owes.
LEMMA SendBasis ==
  ASSUME Basis, Send
  PROVE  Basis'
<1> USE DEF Basis, handler
<1>1. wants # <<>> /\ wants \in Seq(Steps) /\ GivesFirst(wants) BY DEF Send, TypeOK, Traffic
<1>2. Head(wants) = wants[1] /\ wants[1].size \in Nat BY <1>1, SizeIs
<1>3. Bytes(Head(wants).size) \in Messages BY <1>2, MessageIs
<1>4. toServer' \in Seq(Messages) BY <1>3, MessageCons DEF Send, Traffic
<1>5. wants' \in Seq(Steps) /\ GivesFirst(wants') /\ wants' # <<>>
  <2>1. wants[1].do = "give" BY <1>2 DEF Send
  <2>2. QED BY <1>1, <2>1, GivesTail DEF Send
<1>6. Traffic' BY <1>4, <1>5 DEF Send, Traffic
<1>7. Ends' BY DEF Send, Ends
<1>8. Running' BY DEF Send, Running
<1>9. TypeOK' BY <1>5 DEF Send, TypeOK
<1>10. InventedAfterReset' BY DEF Send, InventedAfterReset
<1>11. QED BY <1>6, <1>7, <1>8, <1>9, <1>10

\* The answers that are left when one has been read.
LEMMA AnswersTail ==
  ASSUME toTool \in Seq(Steps), toTool # <<>>, \A k \in 1..Len(toTool) : toTool[k].do \in Answers
  PROVE  /\ Tail(toTool) \in Seq(Steps) /\ \A k \in 1..Len(Tail(toTool)) : Tail(toTool)[k].do \in Answers
         /\ Head(toTool) = toTool[1] /\ toTool[1] \in Steps /\ toTool[1].do \in Answers
<1> DEFINE t == Tail(toTool)
<1>1. /\ t \in Seq(Steps) /\ Len(t) = Len(toTool) - 1 /\ Len(toTool) \in Nat /\ Len(toTool) > 0
      /\ \A i \in 1..Len(toTool) - 1 : t[i] = toTool[i + 1]
      /\ Head(toTool) = toTool[1] /\ toTool[1] \in Steps
  BY SeqTail
<1> HIDE DEF t
<1>2. \A k \in 1..Len(t) : t[k].do \in Answers
  <2> TAKE k \in 1..Len(t)
  <2>1. k \in 1..Len(toTool) - 1 /\ k + 1 \in 1..Len(toTool) BY <1>1
  <2>2. QED BY <2>1, <1>1
<1>3. QED BY <1>1, <1>2 DEF t

\* The tool reads an answer.
LEMMA ReceiveBasis ==
  ASSUME Basis, Receive
  PROVE  Basis'
<1> USE DEF Basis, handler
<1>1. wants # <<>> /\ wants \in Seq(Steps) /\ GivesFirst(wants) BY DEF Receive, TypeOK, Traffic
<1>2. /\ Tail(toTool) \in Seq(Steps) /\ \A k \in 1..Len(Tail(toTool)) : Tail(toTool)[k].do \in Answers
      /\ Head(toTool) \in Steps
  BY AnswersTail DEF Receive, Traffic
<1>3. toTool' = Tail(toTool) BY DEF Receive
<1>4. /\ wants' \in Seq(Steps) /\ GivesFirst(wants')
      /\ tool' \in {"idle", "busy", "confused"} /\ (tool' = "busy" => wants' # <<>>)
  <2>1. CASE \E left \in Accepts(Head(toTool)) :
          /\ wants' = left
          /\ tool' = IF left = <<>> THEN "idle" ELSE "busy"
    <3>1. PICK left \in Accepts(Head(toTool)) :
          /\ wants' = left
          /\ tool' = IF left = <<>> THEN "idle" ELSE "busy"
      BY <2>1
    <3>2. left \in Seq(Steps) /\ GivesFirst(left) BY <1>1, <1>2, AcceptsType
    <3>3. QED BY <3>1, <3>2
  <2>2. CASE wants' = <<>> /\ tool' = "confused"
    <3>1. wants' \in Seq(Steps) /\ Len(wants') = 0 BY <2>2
    <3>2. QED BY <2>2, <3>1 DEF GivesFirst
  <2>3. QED BY <2>1, <2>2 DEF Receive
<1>5. Traffic' BY <1>2, <1>3, <1>4 DEF Receive, Traffic
<1>6. Ends' BY <1>4 DEF Receive, Ends
<1>7. Running' BY DEF Receive, Running
<1>8. TypeOK'
  <2>1. \A k \in 1..Len(toTool') : toTool'[k].do \in {"ok", "err", "data", "end"}
    BY <1>2, <1>3 DEF Answers
  <2>2. QED BY <1>4, <2>1 DEF Receive, TypeOK
<1>9. InventedAfterReset' BY DEF Receive, InventedAfterReset
<1>10. QED BY <1>5, <1>6, <1>7, <1>8, <1>9

\* The tool finds its socket closed.
LEMMA SeeClosedBasis ==
  ASSUME Basis, SeeClosed
  PROVE  Basis'
<1> USE DEF Basis, handler
<1>1. wants' \in Seq(Steps) /\ Len(wants') = 0 BY DEF SeeClosed
<1>2. Traffic' BY <1>1 DEF SeeClosed, Traffic, GivesFirst
<1>3. Ends' BY DEF SeeClosed, Ends
<1>4. Running' BY DEF SeeClosed, Running
<1>5. TypeOK' BY DEF SeeClosed, TypeOK
<1>6. InventedAfterReset' BY DEF SeeClosed, InventedAfterReset
<1>7. QED BY <1>2, <1>3, <1>4, <1>5, <1>6

\* The tool leaves.
LEMMA HangUpBasis ==
  ASSUME Basis, HangUp
  PROVE  Basis'
<1> USE DEF Basis, handler
<1>1. wants' \in Seq(Steps) /\ Len(wants') = 0 /\ toTool' \in Seq(Steps) /\ Len(toTool') = 0
  BY DEF HangUp
<1>2. toServer' \in Seq(Messages) BY MessageCut DEF HangUp, Traffic
<1>3. conn' \in {"left", "reset"} /\ conn = "open" BY DEF HangUp
<1>4. Traffic' BY <1>1, <1>2 DEF HangUp, Traffic, GivesFirst
<1>5. Ends' BY <1>3 DEF HangUp, Ends
<1>6. Running' BY <1>3 DEF HangUp, Running
<1>7. TypeOK' BY <1>1, <1>3 DEF HangUp, TypeOK
<1>8. InventedAfterReset' BY <1>3 DEF HangUp, InventedAfterReset
<1>9. QED BY <1>4, <1>5, <1>6, <1>7, <1>8

\* A tool that has left answers with a reset.
LEMMA ResetBasis ==
  ASSUME Basis, Reset
  PROVE  Basis'
<1> USE DEF Basis, handler, client
<1>1. toServer' \in Seq(Messages) BY MessageCut DEF Reset, Traffic
<1>2. Traffic' BY <1>1 DEF Reset, Traffic
<1>3. Ends' BY DEF Reset, Ends
<1>4. Running' BY DEF Reset, Running
<1>5. TypeOK' BY DEF Reset, TypeOK
<1>6. InventedAfterReset' BY DEF Reset, InventedAfterReset
<1>7. QED BY <1>2, <1>3, <1>4, <1>5, <1>6

\* The handler drops its client.
LEMMA CloseBasis ==
  ASSUME Basis, Close
  PROVE  Basis'
<1> USE DEF Basis, client
<1>1. toServer' \in Seq(Messages) /\ todo' \in Seq(Steps) BY DEF Close
<1>2. Traffic' BY <1>1 DEF Close, Traffic
<1>3. Ends' BY DEF Close, Ends
<1>4. Running' BY <1>1 DEF Close, Running
<1>5. TypeOK' BY DEF Close, TypeOK
<1>6. InventedAfterReset' BY DEF Close, InventedAfterReset
<1>7. QED BY <1>2, <1>3, <1>4, <1>5, <1>6

\* A handler that starts on a request.
LEMMA StartRunning ==
  ASSUME NEW r \in Requests, todo' \in Scripts(r)
  PROVE  /\ todo' # <<>> /\ todo' \in Seq(Steps) /\ WellFormed(todo') /\ todo'[1].do # "apply"
<1>1. ASSUME NEW s \in Scripts(r) PROVE s # <<>> /\ s \in Seq(Steps) /\ WellFormed(s) /\ s[1].do # "apply"
  BY ScriptsSound DEF Sound
<1>2. QED BY <1>1

\* The handler reads a request, or bytes that are none.
LEMMA RecvHeaderBasis ==
  ASSUME Basis, RecvHeader
  PROVE  Basis'
<1> USE DEF Basis, client
<1> DEFINE m == Head(toServer)
<1>1. m \in Messages /\ Tail(toServer) \in Seq(Messages) BY MessageTail DEF RecvHeader, Traffic
<1>2. toServer' \in Seq(Messages) BY <1>1 DEF RecvHeader
<1>3. Traffic' BY <1>2 DEF RecvHeader, Traffic
<1>4. CASE m.what # "request"
  <2>1. UNCHANGED <<hpc, req, todo, filled, conn, toTool, junk, tool, wants>> BY <1>4 DEF RecvHeader
  <2>2. hpc = "loop" BY DEF RecvHeader
  <2>3. Ends' BY <2>1, <2>2 DEF Ends
  <2>4. Running' BY <2>1, <2>2 DEF Running
  <2>5. TypeOK' BY <2>1 DEF TypeOK
  <2>6. InventedAfterReset' BY <2>1 DEF InventedAfterReset
  <2>7. QED BY <1>3, <2>3, <2>4, <2>5, <2>6
<1>5. CASE m.what = "request"
  <2>1. m.req \in Requests BY <1>1, <1>5 DEF Messages
  <2>2. /\ req' = m.req /\ hpc = "loop" /\ UNCHANGED <<conn, toTool, junk, tool, wants>>
        /\ \/ hpc' = "run" /\ todo' \in Scripts(m.req)
           \/ hpc' = "payload" /\ todo' = todo
    BY <1>5 DEF RecvHeader
  <2>3. CASE hpc' = "run" /\ todo' \in Scripts(m.req)
    <3>1. todo' # <<>> /\ todo' \in Seq(Steps) /\ WellFormed(todo') /\ todo'[1].do # "apply"
      BY <2>1, <2>3, StartRunning
    <3>2. Ends'
      <4>1. conn # "closed" BY <2>2 DEF Ends
      <4>2. QED BY <2>2, <2>3, <4>1 DEF Ends
    <3>3. Running' BY <2>3, <3>1 DEF Running
    <3>4. TypeOK' BY <2>1, <2>2, <2>3, <3>1 DEF TypeOK
    <3>5. InventedAfterReset' BY <2>2 DEF InventedAfterReset
    <3>6. QED BY <1>3, <3>2, <3>3, <3>4, <3>5
  <2>4. CASE hpc' = "payload" /\ todo' = todo
    <3>1. Ends' BY <2>2, <2>4 DEF Ends
    <3>2. Running' BY <2>1, <2>2, <2>4 DEF Running
    <3>3. TypeOK' BY <2>1, <2>2, <2>4 DEF TypeOK
    <3>4. InventedAfterReset' BY <2>2 DEF InventedAfterReset
    <3>5. QED BY <1>3, <3>1, <3>2, <3>3, <3>4
  <2>5. QED BY <2>2, <2>3, <2>4
<1>6. QED BY <1>4, <1>5

\* A forced receive: bytes come, or a reset is reported.
LEMMA ArrivesOrFails ==
  ASSUME Basis, NEW n \in Nat, hpc # "closed",
         (Arrives(n) /\ UNCHANGED conn) \/ Fails
  PROVE  /\ toServer' \in Seq(Messages)
         /\ conn' = conn \/ (conn = "reset" /\ conn' = "spent" /\ tool = "gone")
         /\ conn # "closed" /\ conn' # "closed"
<1>1. conn # "closed" BY DEF Basis, Ends
<1>2. CASE Arrives(n) /\ UNCHANGED conn
  BY <1>1, <1>2, ArrivesType DEF Basis, Traffic
<1>3. CASE Fails
  <2>1. conn = "reset" /\ conn' = "spent" /\ toServer' = toServer BY <1>3 DEF Fails
  <2>2. tool = "gone" BY <2>1 DEF Basis, Ends
  <2>3. QED BY <2>1, <2>2 DEF Basis, Traffic
<1>4. QED BY <1>2, <1>3

\* The handler reads the payload, or takes the failure for one.
LEMMA RecvPayloadBasis ==
  ASSUME Basis, RecvPayload
  PROVE  Basis'
<1> USE DEF client
<1>1. hpc = "payload" /\ hpc' = "run" /\ UNCHANGED <<toTool, filled, tool, wants>>
  BY DEF RecvPayload
<1>2. req' \in Requests
  <2>1. req \in Requests BY <1>1 DEF Basis, Running
  <2>2. QED BY <2>1 DEF RecvPayload
<1>3. /\ toServer' \in Seq(Messages) /\ conn # "closed" /\ conn' # "closed"
      /\ conn' = conn \/ (conn = "reset" /\ conn' = "spent" /\ tool = "gone")
  <2>1. (Arrives(Word) /\ UNCHANGED conn) \/ Fails BY DEF RecvPayload
  <2>2. Word \in Nat BY DEF Word
  <2>3. QED BY <1>1, <2>1, <2>2, ArrivesOrFails
<1>4. todo' # <<>> /\ todo' \in Seq(Steps) /\ WellFormed(todo') /\ todo'[1].do # "apply"
  <2>1. todo' \in Scripts(req') BY DEF RecvPayload
  <2>2. QED BY <1>2, <2>1, StartRunning
<1>5. Traffic' BY <1>1, <1>3 DEF Basis, Traffic
<1>6. Ends' BY <1>1, <1>3 DEF Basis, Ends
<1>7. Running' BY <1>1, <1>4 DEF Running
<1>8. TypeOK' BY <1>1, <1>2, <1>3, <1>4 DEF Basis, TypeOK
<1>9. InventedAfterReset'
  <2>1. CASE UNCHANGED junk BY <1>1, <1>3, <2>1 DEF Basis, InventedAfterReset
  <2>2. CASE Fails
    <3>1. conn = "reset" /\ conn' = "spent" BY <2>2 DEF Fails
    <3>2. tool = "gone" BY <3>1 DEF Basis, Ends
    <3>3. QED BY <1>1, <3>1, <3>2 DEF InventedAfterReset
  <2>3. QED BY <2>1, <2>2 DEF RecvPayload
<1>10. QED BY <1>5, <1>6, <1>7, <1>8, <1>9 DEF Basis

\* The next step of a running handler.
LEMMA RunningStep ==
  ASSUME Basis, NEW what, Doing(what), what \cap {"keep", "drop"} = {}
  PROVE  /\ hpc = "run" /\ todo # <<>> /\ todo \in Seq(Steps) /\ Head(todo) = todo[1]
         /\ todo[1] \in Steps /\ todo[1].size \in Nat /\ todo[1].do \in what
         /\ Tail(todo) \in Seq(Steps) /\ Tail(todo) # <<>> /\ WellFormed(Tail(todo))
         /\ Tail(todo)[1].do = "apply" => todo[1].do = "take"
<1>1. hpc = "run" /\ todo # <<>> /\ todo \in Seq(Steps) /\ WellFormed(todo) /\ Head(todo).do \in what
  BY DEF Doing, Basis, TypeOK, Running
<1>2. Head(todo) = todo[1] /\ todo[1] \in Steps /\ todo[1].size \in Nat /\ Tail(todo) \in Seq(Steps)
  BY <1>1, SizeIs
<1>3. todo[1].do \notin {"keep", "drop"} BY <1>1, <1>2
<1>4. QED BY <1>1, <1>2, <1>3, WellFormedTail

\* The handler sends.
LEMMA AnswerBasis ==
  ASSUME Basis, Answer
  PROVE  Basis'
<1> USE DEF client
<1>1. /\ hpc = "run" /\ todo # <<>> /\ todo \in Seq(Steps) /\ Head(todo) = todo[1]
      /\ todo[1] \in Steps /\ todo[1].do \in Answers
      /\ Tail(todo) \in Seq(Steps) /\ Tail(todo) # <<>> /\ WellFormed(Tail(todo))
      /\ Tail(todo)[1].do = "apply" => todo[1].do = "take"
  <2>1. Doing(Answers) /\ Answers \cap {"keep", "drop"} = {} BY DEF Answer, Answers
  <2>2. QED BY <2>1, RunningStep
<1>2. /\ todo' = Tail(todo) /\ UNCHANGED <<conn, toServer, hpc, req, filled, junk, tool, wants>>
      /\ toTool' = IF conn = "open" THEN Append(toTool, Head(todo)) ELSE toTool
  BY DEF Answer
<1>3. toTool \in Seq(Steps) /\ \A k \in 1..Len(toTool) : toTool[k].do \in Answers
  BY DEF Basis, Traffic
<1>4. toTool' \in Seq(Steps) /\ \A k \in 1..Len(toTool') : toTool'[k].do \in Answers
  <2>1. CASE conn = "open" BY <1>1, <1>2, <1>3, <2>1
  <2>2. CASE conn # "open" BY <1>2, <1>3, <2>2
  <2>3. QED BY <2>1, <2>2
<1>5. Traffic' BY <1>2, <1>4 DEF Basis, Traffic
<1>6. Ends' BY <1>1, <1>2 DEF Basis, Ends
<1>7. Running'
  <2>1. todo'[1].do # "apply" BY <1>1, <1>2 DEF Answers
  <2>2. QED BY <1>1, <1>2, <2>1 DEF Running
<1>8. TypeOK'
  <2>1. \A k \in 1..Len(toTool') : toTool'[k].do \in {"ok", "err", "data", "end"}
    BY <1>4 DEF Answers
  <2>2. QED BY <1>1, <1>2, <2>1 DEF Basis, TypeOK
<1>9. InventedAfterReset' BY <1>2 DEF Basis, InventedAfterReset
<1>10. QED BY <1>5, <1>6, <1>7, <1>8, <1>9 DEF Basis

\* The handler receives, or takes the failure for what it waits for.
LEMMA FillBasis ==
  ASSUME Basis, Fill
  PROVE  Basis'
<1> USE DEF client
<1>1. /\ hpc = "run" /\ todo # <<>> /\ todo \in Seq(Steps) /\ Head(todo) = todo[1]
      /\ todo[1].size \in Nat
      /\ Tail(todo) \in Seq(Steps) /\ Tail(todo) # <<>> /\ WellFormed(Tail(todo))
  <2>1. Doing({"take"}) /\ {"take"} \cap {"keep", "drop"} = {} BY DEF Fill
  <2>2. QED BY <2>1, RunningStep
<1>2. todo' = Tail(todo) /\ UNCHANGED <<toTool, hpc, req, junk, tool, wants>> BY DEF Fill
<1>3. /\ toServer' \in Seq(Messages) /\ conn # "closed" /\ conn' # "closed"
      /\ conn' = conn \/ (conn = "reset" /\ conn' = "spent" /\ tool = "gone")
  <2>1. (Arrives(Head(todo).size) /\ UNCHANGED conn) \/ Fails BY DEF Fill
  <2>2. QED BY <1>1, <2>1, ArrivesOrFails
<1>4. filled' = TRUE \/ conn' = "spent" BY DEF Fill, Fails
<1>5. Traffic' BY <1>2, <1>3 DEF Basis, Traffic
<1>6. Ends' BY <1>1, <1>2, <1>3 DEF Basis, Ends
<1>7. Running' BY <1>1, <1>2, <1>4 DEF Running
<1>8. TypeOK' BY <1>1, <1>2, <1>3 DEF Basis, TypeOK
<1>9. InventedAfterReset' BY <1>2, <1>3 DEF Basis, InventedAfterReset
<1>10. QED BY <1>5, <1>6, <1>7, <1>8, <1>9 DEF Basis

\* What is applied has been filled, unless the socket has failed: then the
\* tool is gone.
LEMMA UseBasis ==
  ASSUME Basis, Use
  PROVE  Basis'
<1> USE DEF client
<1>1. /\ hpc = "run" /\ todo # <<>> /\ todo \in Seq(Steps) /\ todo[1].do = "apply"
      /\ Tail(todo) \in Seq(Steps) /\ Tail(todo) # <<>> /\ WellFormed(Tail(todo))
      /\ Tail(todo)[1].do = "apply" => todo[1].do = "take"
  <2>1. Doing({"apply"}) /\ {"apply"} \cap {"keep", "drop"} = {} BY DEF Use
  <2>2. QED BY <2>1, RunningStep
<1>2. todo' = Tail(todo) /\ UNCHANGED <<conn, toServer, toTool, hpc, req, tool, wants>>
  BY DEF Use
<1>3. filled \/ conn = "spent" BY <1>1 DEF Basis, Running
<1>4. InventedAfterReset'
  <2>1. junk' => junk \/ conn = "spent" BY <1>3 DEF Use
  <2>2. conn = "spent" => tool = "gone" BY DEF Basis, Ends
  <2>3. QED BY <1>2, <2>1, <2>2 DEF Basis, InventedAfterReset
<1>5. Traffic' BY <1>2 DEF Basis, Traffic
<1>6. Ends' BY <1>1, <1>2 DEF Basis, Ends
<1>7. Running' BY <1>1, <1>2 DEF Running
<1>8. TypeOK' BY <1>1, <1>2 DEF Basis, TypeOK
<1>9. QED BY <1>4, <1>5, <1>6, <1>7, <1>8 DEF Basis

\* The handler returns.
LEMMA ReturnBasis ==
  ASSUME Basis, Return
  PROVE  Basis'
<1> USE DEF client
<1>1. CASE /\ Doing({"keep"})
           /\ hpc' = "loop" /\ todo' = <<>> /\ req' = NoRequest
           /\ UNCHANGED <<conn, toServer, toTool, filled, junk, client>>
  <2>1. hpc = "run" BY <1>1 DEF Doing
  <2>2. todo' \in Seq(Steps) BY <1>1
  <2>3. Traffic' BY <1>1 DEF Basis, Traffic
  <2>4. Ends' BY <1>1, <2>1 DEF Basis, Ends
  <2>5. Running' BY <1>1, <2>2 DEF Running
  <2>6. TypeOK' BY <1>1 DEF Basis, TypeOK
  <2>7. InventedAfterReset' BY <1>1 DEF Basis, InventedAfterReset
  <2>8. QED BY <2>3, <2>4, <2>5, <2>6, <2>7 DEF Basis
<1>2. CASE Doing({"drop"}) /\ Close BY <1>2, CloseBasis
<1>3. QED BY <1>1, <1>2 DEF Return

\* No step leaves the basis.
LEMMA StepBasis == Basis /\ [Next]_vars => Basis'
<1> SUFFICES ASSUME Basis, [Next]_vars PROVE Basis' OBVIOUS
<1>1. CASE UNCHANGED vars
  BY <1>1 DEF vars, Basis, TypeOK, Ends, Running, Traffic, InventedAfterReset
<1>2. ASSUME NEW r \in Requests, Ask(r) PROVE Basis' BY <1>2, AskBasis
<1>3. CASE Send \/ Receive \/ SeeClosed \/ HangUp \/ Reset
  BY <1>3, SendBasis, ReceiveBasis, SeeClosedBasis, HangUpBasis, ResetBasis
<1>4. CASE RecvHeader \/ RecvEnd \/ RecvPayload \/ NoPayloadMemory
  <2>1. RecvEnd \/ NoPayloadMemory => Close BY DEF RecvEnd, NoPayloadMemory
  <2>2. QED BY <1>4, <2>1, RecvHeaderBasis, RecvPayloadBasis, CloseBasis
<1>5. CASE Answer \/ Fill \/ Use \/ Return
  BY <1>5, AnswerBasis, FillBasis, UseBasis, ReturnBasis
<1>6. QED BY <1>1, <1>2, <1>3, <1>4, <1>5 DEF Next

\* Every state of the program, whatever the tool asks for and however it fails.
THEOREM CommandsBasis == Spec => []Basis
<1>1. Init => Basis BY TypeInit
<1>2. Basis /\ [Next]_vars => Basis' BY StepBasis
<1>3. QED BY <1>1, <1>2, PTL DEF Spec

\* The fields keep their ranges: a running handler has something left to do, a
\* busy tool something to wait for, and only answers are on their way to it.
THEOREM CommandsTypes == Spec => []TypeOK
<1>1. Basis => TypeOK BY DEF Basis
<1>2. QED BY <1>1, CommandsBasis, PTL

\* A handler takes for a payload, or applies, what it never received only once the
\* connection has been reset and the tool is gone: for every command, size and fault.
THEOREM NothingInvented == Spec => []InventedAfterReset
<1>1. Basis => InventedAfterReset BY DEF Basis
<1>2. QED BY <1>1, CommandsBasis, PTL

-----------------------------------------------------------------------------
\* The dialogue of a tool that asks for nothing the server answers twice.

\* The first letter of two sequences in a row is that of the first.
LEMMA ConcatTail ==
  ASSUME NEW s \in Seq(Steps), s # <<>>, NEW t \in Seq(Steps)
  PROVE  Tail(s \o t) = Tail(s) \o t
<1> DEFINE a == Tail(s \o t)
           u == Tail(s)
           b == u \o t
           st == s \o t
<1>1. u \in Seq(Steps) /\ Len(u) = Len(s) - 1 /\ Len(s) \in Nat /\ Len(s) > 0 /\ \A i \in 1..Len(s) - 1 : u[i] = s[i + 1]
  BY SeqTail
<1> HIDE DEF u
<1>2. /\ st \in Seq(Steps) /\ Len(st) = Len(s) + Len(t)
      /\ \A i \in 1..Len(s) + Len(t) : st[i] = IF i <= Len(s) THEN s[i] ELSE t[i - Len(s)]
  BY SeqConcat
<1> HIDE DEF st
<1>3. /\ b \in Seq(Steps) /\ Len(b) = Len(u) + Len(t)
      /\ \A i \in 1..Len(u) + Len(t) : b[i] = IF i <= Len(u) THEN u[i] ELSE t[i - Len(u)]
  BY <1>1, SeqConcat
<1> HIDE DEF b
<1>4. st # <<>>
  <2>1. Len(st) > 0 BY <1>1, <1>2
  <2>2. QED BY <2>1, <1>2, Empty
<1>5. Tail(st) \in Seq(Steps) /\ Len(Tail(st)) = Len(st) - 1 /\ \A i \in 1..Len(st) - 1 : Tail(st)[i] = st[i + 1]
  BY <1>2, <1>4, SeqTail
<1>6. Len(Tail(st)) = Len(b) BY <1>1, <1>2, <1>3, <1>5
<1>7. \A i \in 1..Len(b) : Tail(st)[i] = b[i]
  <2> TAKE i \in 1..Len(b)
  <2>1. i \in 1..Len(st) - 1 /\ i + 1 \in 1..Len(s) + Len(t) /\ i \in 1..Len(u) + Len(t)
        /\ (i + 1 <= Len(s) <=> i <= Len(u)) /\ (i + 1) - Len(s) = i - Len(u)
    BY <1>1, <1>2, <1>3
  <2>2. Tail(st)[i] = st[i + 1] BY <2>1, <1>5
  <2>3. st[i + 1] = IF i + 1 <= Len(s) THEN s[i + 1] ELSE t[(i + 1) - Len(s)] BY <2>1, <1>2
  <2>4. b[i] = IF i <= Len(u) THEN u[i] ELSE t[i - Len(u)] BY <2>1, <1>3
  <2>5. CASE i <= Len(u)
    <3>1. i \in 1..Len(s) - 1 BY <2>5, <1>1
    <3>2. u[i] = s[i + 1] BY <3>1, <1>1
    <3>3. QED BY <2>1, <2>2, <2>3, <2>4, <2>5, <3>2
  <2>6. CASE ~(i <= Len(u)) BY <2>1, <2>2, <2>3, <2>4, <2>6
  <2>7. QED BY <2>5, <2>6
<1>8. Tail(st) = b BY <1>3, <1>5, <1>6, <1>7, SeqEqual
<1>9. QED BY <1>8 DEF st, b, u

\* A letter moved from the front of one sequence to the end of another.
LEMMA ConcatMove ==
  ASSUME NEW s \in Seq(Steps), NEW t \in Seq(Steps), t # <<>>
  PROVE  Append(s, t[1]) \o Tail(t) = s \o t
<1> DEFINE h == <<t[1]>>
           u == Tail(t)
<1>1. t[1] \in Steps /\ u \in Seq(Steps) /\ Len(t) \in Nat /\ Len(t) > 0 BY SeqTail
<1>2. h \in Seq(Steps) BY <1>1
<1>3. Append(s, t[1]) = s \o h BY <1>1, AppendIsConcat
<1>4. (s \o h) \o u = s \o (h \o u) BY <1>1, <1>2, ConcatAssociative
<1>5. h \o u = t
  <2>1. 1 \in 1..Len(t) /\ Len(t) \in 1..Len(t) BY <1>1
  <2>2. SubSeq(t, 1, Len(t)) = <<t[1]>> \o SubSeq(t, 1 + 1, Len(t)) BY <2>1, SubSeqRecursiveFirst
  <2>3. SubSeq(t, 1, Len(t)) = t BY SubSeqFull
  <2>4. u = SubSeq(t, 2, Len(t)) BY TailIsSubSeq
  <2>5. QED BY <2>2, <2>3, <2>4
<1> HIDE DEF h, u
<1>6. QED BY <1>3, <1>4, <1>5 DEF u

\* The stream, letter by letter.
LEMMA StreamType ==
  ASSUME Basis
  PROVE  /\ Rest \in Seq(Steps) /\ Rest # <<>> /\ Len(Rest) > 0
         /\ Stream \in Seq(Steps) /\ Stream # <<>>
         /\ Len(Stream) = Len(toTool) + Len(Rest) /\ Len(toTool) \in Nat /\ Len(Rest) \in Nat
         /\ \A i \in 1..Len(toTool) + Len(Rest) :
              Stream[i] = IF i <= Len(toTool) THEN toTool[i] ELSE Rest[i - Len(toTool)]
         /\ toTool = <<>> => Stream = Rest
         /\ toTool # <<>> => /\ Stream[1] = toTool[1] /\ Stream[1].do \in Answers
                             /\ Tail(Stream) = Tail(toTool) \o Rest
<1>1. Rest \in Seq(Steps) /\ Rest # <<>>
  <2>1. CASE hpc = "run" BY <2>1 DEF Rest, Basis, TypeOK, Running
  <2>2. CASE hpc = "closed" BY <2>2, Letters DEF Rest
  <2>3. CASE hpc \notin {"run", "closed"} BY <2>3, Letters DEF Rest
  <2>4. QED BY <2>1, <2>2, <2>3
<1>2. toTool \in Seq(Steps) /\ \A k \in 1..Len(toTool) : toTool[k].do \in Answers
  BY DEF Basis, Traffic
<1> DEFINE R == Rest
<1> HIDE DEF R
<1>3. R \in Seq(Steps) /\ R # <<>> BY <1>1 DEF R
<1>4. Len(R) > 0 /\ Len(R) \in Nat BY <1>3, SeqTail
<1>5. Stream = toTool \o R BY DEF Stream, R
<1>6. /\ Stream \in Seq(Steps) /\ Len(Stream) = Len(toTool) + Len(R)
      /\ \A i \in 1..Len(toTool) + Len(R) :
              Stream[i] = IF i <= Len(toTool) THEN toTool[i] ELSE R[i - Len(toTool)]
  BY <1>2, <1>3, <1>5, SeqConcat
<1>7. Len(toTool) \in Nat BY <1>2, Empty
<1>8. Stream # <<>>
  <2>1. Len(Stream) > 0 BY <1>4, <1>6, <1>7
  <2>2. QED BY <2>1, <1>6, Empty
<1>9. toTool = <<>> => Stream = R BY <1>3, <1>5, ConcatEmptySeq
<1>10. ASSUME toTool # <<>>
       PROVE /\ Stream[1] = toTool[1] /\ Stream[1].do \in Answers
             /\ Tail(Stream) = Tail(toTool) \o R
  <2>1. Len(toTool) > 0 BY <1>2, <1>10, SeqTail
  <2>2. 1 \in 1..Len(toTool) + Len(R) /\ 1 <= Len(toTool) /\ 1 \in 1..Len(toTool)
    BY <2>1, <1>4, <1>7
  <2>3. Stream[1] = toTool[1] BY <2>2, <1>6
  <2>4. toTool[1].do \in Answers BY <2>2, <1>2
  <2>5. QED BY <2>3, <2>4, <1>2, <1>3, <1>5, <1>10, ConcatTail
<1>11. QED BY <1>3, <1>4, <1>6, <1>7, <1>8, <1>9, <1>10 DEF R

\* One letter: nothing is on its way.
LEMMA StreamOne ==
  ASSUME Basis, NEW a, One(Stream, a)
  PROVE  toTool = <<>> /\ One(Rest, a)
<1>1. Len(Stream) = 1 /\ Len(toTool) + Len(Rest) = 1 /\ Len(toTool) \in Nat /\ Len(Rest) \in Nat /\ Len(Rest) > 0
  BY StreamType DEF One
<1>2. Len(toTool) = 0 BY <1>1
<1>3. toTool = <<>> BY <1>2, Empty DEF Basis, Traffic
<1>4. QED BY <1>3, StreamType

\* A stream that ends in a drop.
LEMMA StreamDropping ==
  ASSUME Basis, NEW W, Dropping(Stream, W)
  PROVE  One(Rest, Drop) \/ (toTool = <<>> /\ Two(Rest, Err, Drop))
<1>1. CASE One(Stream, Drop) BY <1>1, StreamOne
<1>2. CASE Two(Stream, Err, Drop)
  <2> DEFINE R == Rest
             k == Len(R)
             l == Len(toTool)
  <2>1. /\ Stream[2] = Drop /\ l + k = 2 /\ l \in Nat /\ k \in Nat /\ k > 0
        /\ \A i \in 1..l + k : Stream[i] = IF i <= l THEN toTool[i] ELSE R[i - l]
    BY <1>2, StreamType DEF Two
  <2>2. l = 0 => toTool = <<>> BY Empty DEF Basis, Traffic
  <2>3. toTool = <<>> => Stream = R BY StreamType
  <2> HIDE DEF R, l, k
  <2>4. CASE l = 0 BY <2>2, <2>3, <2>4, <1>2 DEF R
  <2>5. CASE l = 1
    <3>1. k = 1 /\ 2 \in 1..l + k /\ ~(2 <= l) /\ 2 - l = 1 BY <2>1, <2>5
    <3>2. R[1] = Drop BY <3>1, <2>1
    <3>3. One(R, Drop) BY <3>1, <3>2 DEF One, k
    <3>4. QED BY <3>3 DEF R
  <2>6. l = 0 \/ l = 1 BY <2>1
  <2>7. QED BY <2>4, <2>5, <2>6
<1>3. QED BY <1>1, <1>2 DEF Dropping

\* A handler that has kept its client has read all that was sent.
LEMMA KeptQuiet ==
  ASSUME Basis, One(Rest, Keep), Meets(Stream, wants, toServer)
  PROVE  toServer = <<>>
<1>1. Stream \in Seq(Steps) /\ wants \in Seq(Steps) /\ toServer \in Seq(Messages)
  BY StreamType DEF Basis, Traffic
<1>2. Rest[1] = Keep /\ Keep # Drop /\ Keep # Err BY Fields DEF One
<1>3. ~Dropping(Stream, wants) BY <1>2, StreamDropping DEF One, Two
<1>4. Stream[1].do \in Answers \/ Stream[1].do = "keep" BY <1>2, StreamType, Fields
<1>5. Stream[1].do \notin {"take", "apply"} BY <1>4 DEF Answers
<1>6. QED BY <1>1, <1>3, <1>5, FirstLetter

\* What was sent to a handler about to drop its client does not matter.
LEMMA DropQuiet ==
  ASSUME Basis, One(Rest, Drop), Meets(Stream, wants, toServer)
  PROVE  Meets(Stream, wants, <<>>)
<1>1. Stream \in Seq(Steps) /\ wants \in Seq(Steps) /\ toServer \in Seq(Messages)
  BY StreamType DEF Basis, Traffic
<1>2. Rest[1] = Drop BY DEF One
<1>3. Stream[1].do \in Answers \/ Stream[1].do = "drop" BY <1>2, StreamType, Fields
<1>4. Stream[1].do \notin {"take", "apply"} BY <1>3 DEF Answers
<1>5. Dropping(Stream, wants) \/ toServer = <<>> BY <1>1, <1>4, FirstLetter
<1>6. QED BY <1>5 DEF Meets

\* A handler receives when nothing it said is on its way.
LEMMA TakeNow ==
  ASSUME Basis, hpc = "run", todo[1].do = "take", toServer # <<>>, Meets(Stream, wants, toServer)
  PROVE  toTool = <<>> /\ Stream = todo
<1>1. Stream \in Seq(Steps) /\ wants \in Seq(Steps) /\ toServer \in Seq(Messages)
  BY StreamType DEF Basis, Traffic
<1>2. Rest = todo BY DEF Rest
<1>3. ~Dropping(Stream, wants)
  <2>1. Rest[1] # Drop /\ Rest[1] # Err BY <1>2, Fields
  <2>2. QED BY <2>1, StreamDropping DEF One, Two
<1>4. toTool = <<>>
  <2>1. SUFFICES ASSUME toTool # <<>> PROVE FALSE OBVIOUS
  <2>2. Stream[1].do \in Answers BY <2>1, StreamType
  <2>3. Stream[1].do \notin {"take", "apply"} BY <2>2 DEF Answers
  <2>4. QED BY <1>1, <1>3, <2>3, FirstLetter
<1>5. QED BY <1>2, <1>4, StreamType

\* A request that has arrived whole meets its script.
LEMMA StartMeets ==
  ASSUME "protect" \notin Names, NEW r \in Requests, NEW s \in Scripts(r)
  PROVE  Meets(s, Wants(r), <<>>)
<1>1. r.length \in Nat \ {0} /\ r.name # "protect" BY CommandsAssumption DEF Requests
<1>2. Plays(s, Wants(r), r.length) BY <1>1, ScriptsPlay
<1>3. Wants(r) \in Seq(Steps) /\ Wants(r) # <<>> BY WantsType
<1>4. QED BY <1>1, <1>2, <1>3, PlaysMeets

\* So does a text that has come with its request.
LEMMA StartText ==
  ASSUME NEW r \in Requests, ~r.bare, r.name \in TextNames, NEW s \in Scripts(r), NEW W, One(W, Status)
  PROVE  Meets(s, W, <<Bytes(r.length)>>)
<1>1. r.length \in Nat \ {0} BY CommandsAssumption DEF Requests
<1>2. Scripts(r) = TextScripts(r.length)
  BY DEF Scripts, TextNames, SetNames, GetNames, ThreadNames, StatusNames
<1>3. QED BY <1>1, <1>2, TextMeets

\* Two messages.
LEMMA AppendOne ==
  ASSUME NEW a \in Messages, NEW b \in Messages
  PROVE  Append(<<a>>, b) = <<a, b>>
<1> DEFINE s == <<a>>
           p == Append(s, b)
           t == <<a, b>>
<1>1. s \in Seq(Messages) /\ Len(s) = 1 /\ s[1] = a OBVIOUS
<1>2. t \in Seq(Messages) /\ Len(t) = 2 /\ t[1] = a /\ t[2] = b OBVIOUS
<1> HIDE DEF s, t
<1>3. /\ p \in Seq(Messages) /\ Len(p) = Len(s) + 1
      /\ \A i \in 1..Len(s) : p[i] = s[i]
      /\ p[Len(s) + 1] = b
  <2>1. s \in Seq(Messages) BY <1>1
  <2>2. QED BY <2>1, AppendProperties
<1> HIDE DEF p
<1>4. Len(p) = 2 /\ p[1] = a /\ p[2] = b BY <1>1, <1>3
<1>5. \A i \in 1..Len(p) : p[i] = t[i]
  <2> TAKE i \in 1..Len(p)
  <2>1. i = 1 \/ i = 2 BY <1>4
  <2>2. QED BY <2>1, <1>2, <1>4
<1>6. p = t BY <1>2, <1>3, <1>4, <1>5, SeqEqual
<1>7. QED BY <1>6 DEF p, s, t

\* What the tool sends of a request, it owed.
LEMMA OwesSend ==
  ASSUME NEW r \in Requests, NEW W \in Seq(Steps), W # <<>>, W[1].do = "give",
         NEW B, Owes(r, W, B)
  PROVE  Owes(r, Tail(W), Append(B, Bytes(W[1].size)))
<1>1. CASE r.bare /\ B = <<>> /\ W = Wants(r) BY <1>1, WantsGive
<1>2. CASE ~r.bare /\ B = <<>> /\ W = <<Give(Word)>> \o Wants(r)
  <2>1. Wants(r) \in Seq(Steps) BY WantsType
  <2>2. Give(Word) \in Steps BY Letters DEF Word
  <2>3. <<Give(Word)>> \in Seq(Steps) /\ <<Give(Word)>> # <<>> /\ Tail(<<Give(Word)>>) = <<>>
    BY <2>2
  <2>4. Tail(W) = <<>> \o Wants(r) BY <1>2, <2>1, <2>3, ConcatTail
  <2>5. Tail(W) = Wants(r) BY <2>1, <2>4, ConcatEmptySeq
  <2>6. W[1] = Give(Word) BY <1>2, <2>1, <2>2, SeqCons
  <2>7. W[1].size = Word BY <2>6, Fields
  <2>8. Append(B, Bytes(W[1].size)) = <<Bytes(Word)>> BY <1>2, <2>7
  <2>9. QED BY <1>2, <2>5, <2>8 DEF Owes
<1>3. CASE ~r.bare /\ B = <<Bytes(Word)>> /\ W = Wants(r)
  <2>1. r.name \in TextNames /\ W = <<Give(r.length), Status>> BY <1>3, WantsGive
  <2>2. Tail(W) = <<Status>> /\ W[1] = Give(r.length) BY <2>1
  <2>7. One(<<Status>>, Status) BY DEF One
  <2>3. One(Tail(W), Status) BY <2>2, <2>7
  <2>4. W[1].size = r.length BY <2>2, Fields
  <2>8. Bytes(Word) \in Messages /\ Bytes(r.length) \in Messages
    <3>1. Word \in Nat /\ r.length \in Nat BY CommandsAssumption DEF Word, Requests
    <3>2. QED BY <3>1, MessageIs
  <2>5. Append(B, Bytes(W[1].size)) = <<Bytes(Word), Bytes(r.length)>>
    BY <1>3, <2>4, <2>8, AppendOne
  <2>6. QED BY <1>3, <2>1, <2>3, <2>5 DEF Owes
<1>4. CASE /\ ~r.bare /\ r.name \in TextNames
           /\ B = <<Bytes(Word), Bytes(r.length)>> /\ One(W, Status)
  <2>1. W[1].do = "status" BY <1>4, Fields DEF One
  <2>2. QED BY <2>1
<1>5. QED BY <1>1, <1>2, <1>3, <1>4 DEF Owes

\* A tool that speaks is neither gone nor confused, and its socket is open or
\* closed by the server.
LEMMA Speaks ==
  ASSUME Basis, Talk, tool \in {"idle", "busy"}
  PROVE  /\ conn \in {"open", "closed"}
         /\ tool = "idle" <=> wants = <<>>
         /\ Asked \/ Answered
BY DEF Basis, Ends, TypeOK, Talk, Dialogue

\* Nothing has been said yet.
LEMMA TalkInit == Init => Talk
<1> SUFFICES ASSUME Init PROVE Talk OBVIOUS
<1>1. Stream = <<Keep>>
  <2>1. toTool = <<>> /\ Rest = <<Keep>> BY DEF Init, Rest
  <2>2. <<Keep>> \in Seq(Steps) BY Letters
  <2>3. QED BY <2>1, <2>2, ConcatEmptySeq DEF Stream
<1>2. One(Stream, Keep) BY <1>1 DEF One
<1>3. Answered BY <1>2, MeetsOne DEF Init, Answered
<1>4. QED BY <1>3 DEF Init, Talk, Settled, Dialogue, ConfusedIsDropped

\* A tool asks when nothing is left of its last request, or it is being dropped.
LEMMA AskTalk ==
  ASSUME Basis, Talk, NEW r \in Requests, Ask(r)
  PROVE  Talk'
<1>1. /\ tool = "idle" /\ conn = "open" /\ tool' = "busy"
      /\ toServer' = Append(toServer, Request(r))
      /\ UNCHANGED <<conn, toTool, hpc, req, todo, filled, junk>>
  BY DEF Ask, handler
<1>2. wants = <<>> /\ Answered BY <1>1, Speaks DEF Asked
<1>3. wants' # <<>>
  <2>1. Wants(r) \in Seq(Steps) /\ Wants(r) # <<>> BY WantsType
  <2>2. CASE r.bare
    <3>1. wants' = Wants(r) BY <2>1, <2>2, ConcatEmptySeq DEF Ask
    <3>2. QED BY <3>1, <2>1
  <2>3. CASE ~r.bare
    <3>1. wants' = <<Give(Word)>> \o Wants(r) BY <2>3 DEF Ask
    <3>2. <<Give(Word)>> \in Seq(Steps) /\ <<Give(Word)>> # <<>> BY Letters DEF Word
    <3>3. QED BY <2>1, <3>1, <3>2, ConcatEqualIffEmpty
  <2>4. QED BY <2>2, <2>3
<1>4. Stream' = Stream BY <1>1 DEF Stream, Rest
<1>5. Stream \in Seq(Steps) /\ toServer \in Seq(Messages) BY StreamType DEF Basis, Traffic
<1>6. One(Stream, Drop) \/ (One(Stream, Keep) /\ toServer = <<>>)
  <2>1. Meets(Stream, <<>>, toServer) BY <1>2 DEF Answered
  <2>2. QED BY <1>5, <2>1, MeetsRest
<1>7. Asked' \/ Answered'
  <2>1. CASE One(Stream, Drop)
    <3>1. Meets(Stream', wants', toServer') BY <1>4, <2>1, MeetsOne
    <3>2. Answered' BY <1>1, <1>2, <3>1 DEF Answered
    <3>3. QED BY <3>2
  <2>2. CASE One(Stream, Keep) /\ toServer = <<>>
    <3>1. toTool = <<>> /\ One(Rest, Keep) BY <2>2, StreamOne
    <3>2. hpc = "loop" \/ (hpc = "run" /\ One(todo, Keep))
      <4>1. hpc # "payload" BY <1>2 DEF Answered
      <4>2. hpc = "closed" => Rest[1] = Drop BY DEF Rest
      <4>3. hpc # "closed" BY <3>1, <4>2, Fields DEF One
      <4>4. hpc = "run" => One(todo, Keep) BY <3>1 DEF Rest
      <4>5. QED BY <4>1, <4>3, <4>4 DEF Basis, TypeOK
    <3>3. toServer' = <<Request(r)>> BY <1>1, <2>2
    <3>4. toServer' # <<>> /\ toServer'[1] = Request(r) /\ Tail(toServer') = <<>> BY <3>3
    <3>5. Owes(r, wants', <<>>)
      <4>1. CASE r.bare
        <5>1. wants' = Wants(r)
          <6>1. Wants(r) \in Seq(Steps) BY WantsType
          <6>2. QED BY <4>1, <6>1, ConcatEmptySeq DEF Ask
        <5>2. QED BY <4>1, <5>1 DEF Owes
      <4>2. CASE ~r.bare BY <4>2 DEF Owes, Ask
      <4>3. QED BY <4>1, <4>2
    <3>6. Owes(r, wants', Tail(toServer')) BY <3>4, <3>5
    <3>7. Asked' BY <1>1, <3>1, <3>2, <3>4, <3>6 DEF Asked
    <3>8. QED BY <3>7
  <2>3. QED BY <1>6, <2>1, <2>2
<1>8. Settled' BY <1>1 DEF Talk, Settled
<1>9. QED BY <1>1, <1>3, <1>7, <1>8 DEF Talk, Dialogue, ConfusedIsDropped

\* What the tool sends is awaited.
LEMMA SendTalk ==
  ASSUME Basis, Talk, Send
  PROVE  Talk'
<1>1. /\ tool = "busy" /\ tool' = "busy" /\ conn = "open"
      /\ UNCHANGED <<conn, toTool, hpc, req, todo, filled, junk>>
  BY DEF Send, handler
<1>2. wants # <<>> /\ wants \in Seq(Steps) /\ GivesFirst(wants) /\ Head(wants) = wants[1]
  <2>1. wants # <<>> /\ wants \in Seq(Steps) /\ GivesFirst(wants) BY <1>1 DEF Basis, TypeOK, Traffic
  <2>2. QED BY <2>1, SizeIs
<1> DEFINE b == Bytes(wants[1].size)
<1>3. wants' = Tail(wants) /\ toServer' = Append(toServer, b) /\ wants[1].do = "give"
  BY <1>2 DEF Send
<1>4. wants' # <<>> BY <1>2, <1>3, GivesTail
<1>5. toServer \in Seq(Messages) /\ b \in Messages /\ Stream \in Seq(Steps)
  <2>1. wants[1].size \in Nat BY <1>2, SizeIs
  <2>2. QED BY <2>1, MessageIs, StreamType DEF Basis, Traffic
<1>6. Stream' = Stream BY <1>1 DEF Stream, Rest
<1>7. ASSUME Answered PROVE Answered'
  <2>1. Meets(Stream, wants, toServer) /\ hpc # "payload" BY <1>7 DEF Answered
  <2>2. Dropping(Stream, Tail(wants)) \/ (toServer = <<>> /\ Meets(Stream, Tail(wants), <<b>>))
    BY <1>2, <1>3, <1>5, <2>1, MeetsGive
  <2>3. Meets(Stream, Tail(wants), toServer')
    <3>1. CASE Dropping(Stream, Tail(wants)) BY <3>1 DEF Meets
    <3>2. CASE toServer = <<>> /\ Meets(Stream, Tail(wants), <<b>>)
      <4> HIDE DEF b
      <4>1. toServer' = <<b>> BY <1>3, <3>2
      <4>2. QED BY <4>1, <3>2
    <3>3. QED BY <2>2, <3>1, <3>2
  <2>4. Answered' BY <1>1, <1>3, <1>6, <2>1, <2>3 DEF Answered
  <2>5. QED BY <2>4
<1>8. ASSUME Asked, hpc = "payload" PROVE Asked'
  <2>1. toTool = <<>> /\ req \in Requests /\ ~req.bare /\ Owes(req, wants, toServer)
    BY <1>8 DEF Asked
  <2>2. Owes(req, wants', toServer') BY <1>2, <1>3, <2>1, OwesSend
  <2>3. Asked' BY <1>1, <1>8, <2>1, <2>2 DEF Asked
  <2>4. QED BY <2>3
<1>9. ASSUME Asked, hpc # "payload" PROVE Asked'
  <2>1. PICK r \in Requests : toServer[1] = Request(r) /\ Owes(r, wants, Tail(toServer))
    BY <1>9 DEF Asked
  <2>2. toTool = <<>> /\ (hpc = "loop" \/ (hpc = "run" /\ One(todo, Keep))) /\ toServer # <<>>
    BY <1>9 DEF Asked
  <2>3. Owes(r, wants', Append(Tail(toServer), b)) BY <1>2, <1>3, <2>1, OwesSend
  <2> HIDE DEF b
  <2>4. Tail(toServer') = Append(Tail(toServer), b) /\ toServer' # <<>> /\ toServer'[1] = toServer[1]
    BY <1>3, <1>5, <2>2
  <2>5. Owes(r, wants', Tail(toServer')) BY <2>3, <2>4
  <2>6. Asked' BY <1>1, <2>1, <2>2, <2>4, <2>5 DEF Asked
  <2>7. QED BY <2>6
<1>10. Asked' \/ Answered' BY <1>1, <1>7, <1>8, <1>9, Speaks
<1>11. Settled' BY <1>1 DEF Talk, Settled
<1>12. QED BY <1>1, <1>4, <1>10, <1>11 DEF Talk, Dialogue, ConfusedIsDropped

\* The stream and the handler at their last letter, a drop.
Ended == One(Stream, Drop)
Over  == One(Rest, Drop)

\* Nothing is on its way then.
LEMMA EndedOver == Basis /\ Ended => Over
BY StreamOne DEF Ended, Over

\* What the tool reads it waits for, or it is the last it reads.
LEMMA ReceiveTalk ==
  ASSUME Basis, Talk, Receive
  PROVE  Talk'
<1>1. /\ tool = "busy" /\ toTool # <<>> /\ toTool' = Tail(toTool)
      /\ UNCHANGED <<conn, toServer, hpc, req, todo, filled, junk>>
  BY DEF Receive, handler
<1>2. Answered /\ wants # <<>> BY <1>1, Speaks DEF Asked
<1>3. /\ wants \in Seq(Steps) /\ toServer \in Seq(Messages) /\ Stream \in Seq(Steps) /\ Stream # <<>>
      /\ Stream[1] = toTool[1] /\ Stream[1].do \in Answers /\ Tail(Stream) = Tail(toTool) \o Rest
  BY <1>1, StreamType DEF Basis, Traffic
<1>4. Stream' = Tail(Stream) BY <1>1, <1>3 DEF Stream, Rest
<1>5. Head(toTool) = Stream[1] BY <1>1, <1>3, SizeIs DEF Basis, Traffic
<1>6. Settled'
  <2>1. Settled BY DEF Talk
  <2>2. QED BY <1>1, <2>1 DEF Settled
<1>7. Meets(Stream, wants, toServer) /\ hpc # "payload" BY <1>2 DEF Answered
<1>8. \/ \E left : Accepts(Stream[1]) = {left} /\ Meets(Tail(Stream), left, toServer)
      \/ Accepts(Stream[1]) = {} /\ One(Tail(Stream), Drop)
  BY <1>2, <1>3, <1>7, MeetsReceive
<1>9. CASE \E left : Accepts(Stream[1]) = {left} /\ Meets(Tail(Stream), left, toServer)
  <2>1. PICK left : Accepts(Stream[1]) = {left} /\ Meets(Tail(Stream), left, toServer) BY <1>9
  <2>2. wants' = left /\ tool' = (IF left = <<>> THEN "idle" ELSE "busy") BY <1>5, <2>1 DEF Receive
  <2>3. Answered' BY <1>1, <1>4, <1>7, <2>1, <2>2 DEF Answered
  <2>4. QED BY <1>6, <2>2, <2>3 DEF Talk, Dialogue, ConfusedIsDropped
<1>10. CASE Accepts(Stream[1]) = {} /\ One(Tail(Stream), Drop)
  <2>1. tool' = "confused" BY <1>5, <1>10 DEF Receive
  <2>2. One(Stream', Drop) BY <1>4, <1>10
  <2>3. Basis' BY ReceiveBasis
  <2>4. One(Rest', Drop)
    <3>1. (Basis /\ Ended => Over)' BY EndedOver, PTL
    <3>2. QED BY <2>2, <2>3, <3>1 DEF Ended, Over
  <2>5. hpc' = "closed" \/ todo' = <<Drop>>
    <3>1. CASE hpc' = "run"
      <4>1. One(todo', Drop) BY <3>1, <2>4 DEF Rest
      <4>2. todo' \in Seq(Steps) BY <2>3 DEF Basis, Running
      <4>3. todo' = <<Drop>> BY <4>1, <4>2 DEF One
      <4>4. QED BY <4>3
    <3>2. CASE hpc' \notin {"run", "closed"}
      <4>1. Rest' = <<Keep>> BY <3>2 DEF Rest
      <4>2. QED BY <4>1, <2>4, Fields DEF One
    <3>3. QED BY <3>1, <3>2
  <2>6. QED BY <1>6, <2>1, <2>5 DEF Talk, Dialogue, ConfusedIsDropped
<1>11. QED BY <1>8, <1>9, <1>10

\* The handler of a confused tool has only its return left.
LEMMA Confused ==
  ASSUME Basis, Talk, tool = "confused"
  PROVE  hpc = "closed" \/ (hpc = "run" /\ todo = <<Drop>> /\ todo[1].do = "drop")
<1>1. hpc = "closed" \/ todo = <<Drop>> BY DEF Talk, ConfusedIsDropped
<1>2. CASE todo = <<Drop>>
  <2>1. todo # <<>> /\ todo[1] = Drop BY <1>2
  <2>2. hpc = "run" BY <2>1 DEF Basis, Ends
  <2>3. QED BY <2>1, <2>2, <1>2, Fields
<1>3. QED BY <1>1, <1>2

\* A tool that leaves has nothing to say.
LEMMA LeaveTalk ==
  ASSUME Basis, Talk, SeeClosed \/ HangUp \/ Reset
  PROVE  Talk'
<1>1. CASE SeeClosed
  <2>1. tool' = "gone" /\ UNCHANGED <<hpc, todo, toTool>> BY <1>1 DEF SeeClosed, handler
  <2>2. QED BY <2>1 DEF Talk, Settled, Dialogue, ConfusedIsDropped
<1>2. CASE HangUp
  <2>1. tool' = "gone" /\ UNCHANGED <<hpc, todo>> /\ toTool' = <<>> BY <1>2 DEF HangUp, handler
  <2>2. QED BY <2>1 DEF Talk, Settled, Dialogue, ConfusedIsDropped
<1>3. CASE Reset
  <2>1. tool' = "gone" /\ UNCHANGED <<hpc, todo, toTool>>
    BY <1>3 DEF Reset, handler, client, Basis, Ends
  <2>2. QED BY <2>1 DEF Talk, Settled, Dialogue, ConfusedIsDropped
<1>4. QED BY <1>1, <1>2, <1>3

\* Once the handler has closed, all that is left is to be dropped.
LEMMA CloseTalk ==
  ASSUME Basis, Talk, Close, RecvEnd \/ NoPayloadMemory \/ Doing({"drop"})
  PROVE  Talk'
<1>1. hpc' = "closed" /\ todo' = <<>> /\ toServer' = <<>> /\ UNCHANGED <<toTool, tool, wants>>
  BY DEF Close, client
<1>2. ASSUME tool \in {"idle", "busy"} PROVE Answered' /\ (tool = "idle" <=> wants = <<>>)
  <2>1. /\ conn \in {"open", "closed"}
        /\ tool = "idle" <=> wants = <<>>
        /\ Asked \/ Answered
    BY <1>2, Speaks
  <2>2. Rest' = <<Drop>> BY <1>1 DEF Rest
  <2>3. ~RecvEnd BY <2>1 DEF RecvEnd
  <2>4. CASE NoPayloadMemory
    <3>1. hpc = "payload" BY <2>4 DEF NoPayloadMemory
    <3>2. toTool = <<>> BY <2>1, <3>1 DEF Asked, Answered
    <3>3. <<Drop>> \in Seq(Steps) BY Letters
    <3>4. Stream' = <<Drop>> BY <1>1, <2>2, <3>2, <3>3, ConcatEmptySeq DEF Stream
    <3>5. One(Stream', Drop) BY <3>4 DEF One
    <3>6. Meets(Stream', wants', toServer') BY <3>5, MeetsOne
    <3>7. QED BY <1>1, <2>1, <3>6 DEF Answered
  <2>5. CASE Doing({"drop"})
    <3>1. hpc = "run" /\ todo # <<>> /\ todo \in Seq(Steps) /\ WellFormed(todo)
      BY <2>5 DEF Doing, Basis, TypeOK, Running
    <3>2. todo[1].do = "drop" BY <2>5, <3>1, SizeIs DEF Doing
    <3>3. One(todo, Drop) BY <3>1, <3>2, WellFormedTail
    <3>4. todo = <<Drop>> BY <3>1, <3>3 DEF One
    <3>5. Rest = todo BY <3>1 DEF Rest
    <3>6. Stream' = Stream BY <1>1, <2>2, <3>4, <3>5 DEF Stream
    <3>7. ~Asked
      <4>1. todo[1] # Keep BY <3>2, Fields
      <4>2. QED BY <3>1, <4>1 DEF Asked, One
    <3>8. Meets(Stream, wants, toServer) BY <2>1, <3>7 DEF Answered
    <3>9. Meets(Stream, wants, <<>>) BY <3>3, <3>5, <3>8, DropQuiet
    <3>10. QED BY <1>1, <2>1, <3>6, <3>9 DEF Answered
  <2>6. QED BY <2>3, <2>4, <2>5
<1>3. Settled' BY <1>1 DEF Settled
<1>4. ConfusedIsDropped' BY <1>1 DEF ConfusedIsDropped
<1>5. Dialogue' BY <1>1, <1>2 DEF Dialogue
<1>6. QED BY <1>3, <1>4, <1>5 DEF Talk

\* The handler that reads a header reads a request, and starts on its script.
LEMMA RecvHeaderTalk ==
  ASSUME "protect" \notin Names, Basis, Talk, RecvHeader
  PROVE  Talk'
<1> DEFINE m == Head(toServer)
<1>1. /\ hpc = "loop" /\ toServer # <<>> /\ toServer' = Tail(toServer)
      /\ UNCHANGED <<conn, toTool, junk, tool, wants>>
  BY DEF RecvHeader, client
<1>2. /\ toServer \in Seq(Messages) /\ m = toServer[1] /\ m \in Messages /\ Tail(toServer) \in Seq(Messages)
  BY <1>1, MessageTail DEF Basis, Traffic
<1>3. m.what = "request" => m.req \in Requests BY <1>2 DEF Messages
<1>4. hpc' = "run" /\ hpc' # hpc => todo' # <<>> /\ todo' \in Seq(Steps) /\ todo'[1].do # "apply"
  <2>1. SUFFICES ASSUME hpc' = "run", hpc' # hpc PROVE todo' # <<>> /\ todo' \in Seq(Steps) /\ todo'[1].do # "apply" OBVIOUS
  <2>2. m.what = "request" /\ todo' \in Scripts(m.req) BY <2>1 DEF RecvHeader
  <2>3. QED BY <1>3, <2>2, StartRunning
<1>5. Settled' BY <1>1, <1>4 DEF Settled
<1>6. tool # "confused" BY <1>1, Confused
<1>7. ASSUME tool \in {"idle", "busy"}
      PROVE  (tool = "idle" <=> wants = <<>>) /\ (Asked' \/ Answered')
  <2>1. (tool = "idle" <=> wants = <<>>) /\ (Asked \/ Answered) BY <1>7, Speaks
  <2>2. ~Answered
    <3>1. SUFFICES ASSUME Answered PROVE FALSE OBVIOUS
    <3>2. Rest = <<Keep>> BY <1>1 DEF Rest
    <3>3. One(Rest, Keep) BY <3>2 DEF One
    <3>4. toServer = <<>> BY <3>1, <3>3, KeptQuiet DEF Answered
    <3>5. QED BY <1>1, <3>4
  <2>3. PICK r \in Requests : toServer[1] = Request(r) /\ Owes(r, wants, Tail(toServer))
    BY <1>1, <2>1, <2>2 DEF Asked
  <2>4. tool = "busy" /\ toTool = <<>> BY <2>1, <2>2 DEF Asked
  <2>5. m.what = "request" /\ m.req = r BY <1>2, <2>3, MessageIs
  <2>6. CASE r.bare
    <3>1. hpc' = "run" /\ todo' \in Scripts(r) BY <2>5, <2>6 DEF RecvHeader
    <3>2. toServer' = <<>> /\ wants = Wants(r) BY <1>1, <2>3, <2>6 DEF Owes
    <3>3. Meets(todo', Wants(r), <<>>) BY <3>1, StartMeets
    <3>4. Stream' = todo'
      <4>1. todo' \in Seq(Steps) BY <1>1, <1>4, <3>1
      <4>2. QED BY <1>1, <2>4, <3>1, <4>1, ConcatEmptySeq DEF Stream, Rest
    <3>5. Answered' BY <1>1, <3>1, <3>2, <3>3, <3>4 DEF Answered
    <3>6. QED BY <2>1, <3>5
  <2>7. CASE ~r.bare
    <3>1. hpc' = "payload" /\ req' = r BY <2>5, <2>7 DEF RecvHeader
    <3>2. Asked' BY <1>1, <2>3, <2>4, <2>7, <3>1 DEF Asked
    <3>3. QED BY <2>1, <3>2
  <2>8. QED BY <2>6, <2>7
<1>8. QED BY <1>1, <1>5, <1>6, <1>7 DEF Talk, Dialogue, ConfusedIsDropped

\* The payload is that of the request.
LEMMA RecvPayloadTalk ==
  ASSUME "protect" \notin Names, Basis, Talk, RecvPayload
  PROVE  Talk'
<1>1. /\ hpc = "payload" /\ hpc' = "run" /\ todo' \in Scripts(req')
      /\ UNCHANGED <<toTool, filled, tool, wants>>
  BY DEF RecvPayload, client
<1>2. req \in Requests /\ req' \in Requests
  <2>1. req \in Requests BY <1>1 DEF Basis, Running
  <2>2. QED BY <2>1 DEF RecvPayload
<1>3. todo' # <<>> /\ todo' \in Seq(Steps) /\ todo'[1].do # "apply" BY <1>1, <1>2, StartRunning
<1>4. Settled' BY <1>3 DEF Settled
<1>5. tool # "confused" BY <1>1, Confused
<1>6. ASSUME tool \in {"idle", "busy"}
      PROVE  (tool = "idle" <=> wants = <<>>) /\ Answered'
  <2>1. conn \in {"open", "closed"} /\ (tool = "idle" <=> wants = <<>>) /\ (Asked \/ Answered)
    BY <1>6, Speaks
  <2>2. toTool = <<>> /\ ~req.bare /\ Owes(req, wants, toServer) BY <1>1, <2>1 DEF Asked, Answered
  <2>3. Arrives(Word) /\ req' = req BY <2>1 DEF RecvPayload, Fails
  <2>4. toServer # <<>> /\ toServer' = IF Head(toServer).size = Word THEN Tail(toServer)
                 ELSE <<Bytes(Head(toServer).size - Word)>> \o Tail(toServer)
    BY <2>3 DEF Arrives, Has
  <2>5. Stream' = todo' BY <1>1, <1>3, <2>2, ConcatEmptySeq DEF Stream, Rest
  <2>6. CASE toServer = <<Bytes(Word)>> /\ wants = Wants(req)
    <3>1. Head(toServer) = Bytes(Word) /\ Tail(toServer) = <<>> BY <2>6
    <3>2. Head(toServer).size = Word BY <3>1 DEF Bytes
    <3>3. toServer' = <<>> BY <2>4, <3>1, <3>2
    <3>4. Meets(todo', Wants(req), <<>>) BY <1>1, <1>2, <2>3, StartMeets
    <3>5. Answered' BY <1>1, <2>5, <2>6, <3>3, <3>4 DEF Answered
    <3>6. QED BY <2>1, <3>5
  <2>7. CASE req.name \in TextNames /\ toServer = <<Bytes(Word), Bytes(req.length)>> /\ One(wants, Status)
    <3>1. Head(toServer) = Bytes(Word) /\ Tail(toServer) = <<Bytes(req.length)>> BY <2>7
    <3>2. Head(toServer).size = Word BY <3>1 DEF Bytes
    <3>3. toServer' = <<Bytes(req.length)>> BY <2>4, <3>1, <3>2
    <3>4. Meets(todo', wants, <<Bytes(req.length)>>) BY <1>1, <1>2, <2>2, <2>3, <2>7, StartText
    <3>5. Answered' BY <1>1, <2>5, <3>3, <3>4 DEF Answered
    <3>6. QED BY <2>1, <3>5
  <2>8. QED BY <2>2, <2>4, <2>6, <2>7 DEF Owes
<1>7. QED BY <1>1, <1>4, <1>5, <1>6 DEF Talk, Dialogue, ConfusedIsDropped

\* An answer goes from the script to those on their way.
LEMMA AnswerTalk ==
  ASSUME Basis, Talk, Answer
  PROVE  Talk'
<1>1. /\ hpc = "run" /\ todo # <<>> /\ todo \in Seq(Steps) /\ Head(todo) = todo[1]
      /\ todo[1] \in Steps /\ todo[1].do \in Answers
      /\ Tail(todo) \in Seq(Steps)
      /\ Tail(todo)[1].do = "apply" => todo[1].do = "take"
  <2>1. Doing(Answers) /\ Answers \cap {"keep", "drop"} = {} BY DEF Answer, Answers
  <2>2. QED BY <2>1, RunningStep
<1>2. /\ todo' = Tail(todo) /\ UNCHANGED <<conn, toServer, hpc, req, filled, junk, tool, wants>>
      /\ toTool' = IF conn = "open" THEN Append(toTool, Head(todo)) ELSE toTool
  BY DEF Answer, client
<1>3. Settled'
  <2>1. todo'[1].do # "apply" BY <1>1, <1>2 DEF Answers
  <2>2. QED BY <2>1 DEF Settled
<1>4. todo[1].do \notin {"keep", "drop"} BY <1>1 DEF Answers
<1>5. tool # "confused" BY <1>1, <1>4, Confused
<1>6. ASSUME tool \in {"idle", "busy"}
      PROVE  (tool = "idle" <=> wants = <<>>) /\ Answered'
  <2>1. conn \in {"open", "closed"} /\ (tool = "idle" <=> wants = <<>>) /\ (Asked \/ Answered)
    BY <1>6, Speaks
  <2>2. conn = "open" BY <1>1, <2>1 DEF Basis, Ends
  <2>3. ~Asked
    <3>1. todo[1] # Keep BY <1>4, Fields
    <3>2. QED BY <1>1, <3>1 DEF Asked, One
  <2>4. Stream' = Stream
    <3>1. Rest = todo /\ Rest' = Tail(todo) BY <1>1, <1>2 DEF Rest
    <3>2. toTool' = Append(toTool, todo[1]) BY <1>1, <1>2, <2>2
    <3>3. toTool \in Seq(Steps) BY DEF Basis, Traffic
    <3>4. Append(toTool, todo[1]) \o Tail(todo) = toTool \o todo BY <1>1, <3>3, ConcatMove
    <3>5. QED BY <3>1, <3>2, <3>4 DEF Stream
  <2>5. Answered' BY <1>1, <1>2, <2>1, <2>3, <2>4 DEF Answered
  <2>6. QED BY <2>1, <2>5
<1>7. QED BY <1>2, <1>3, <1>5, <1>6 DEF Talk, Dialogue, ConfusedIsDropped

\* What arrives is what the handler waits for.
LEMMA FillTalk ==
  ASSUME Basis, Talk, Fill
  PROVE  Talk'
<1>1. /\ hpc = "run" /\ todo # <<>> /\ todo \in Seq(Steps) /\ Head(todo) = todo[1]
      /\ todo[1].do = "take" /\ todo[1].size \in Nat
      /\ Tail(todo) \in Seq(Steps)
  <2>1. Doing({"take"}) /\ {"take"} \cap {"keep", "drop"} = {} BY DEF Fill
  <2>2. QED BY <2>1, RunningStep
<1>2. todo' = Tail(todo) /\ UNCHANGED <<toTool, hpc, req, junk, tool, wants>> BY DEF Fill, client
<1>3. tool # "confused" BY <1>1, Confused
<1>4. CASE tool = "gone"
  <2>1. toTool' = <<>> BY <1>2, <1>4 DEF Basis, Ends
  <2>2. QED BY <1>2, <1>4, <2>1 DEF Talk, Settled, Dialogue, ConfusedIsDropped
<1>5. CASE tool \in {"idle", "busy"}
  <2>1. conn \in {"open", "closed"} /\ (tool = "idle" <=> wants = <<>>) /\ (Asked \/ Answered)
    BY <1>5, Speaks
  <2>2. ~Asked
    <3>1. todo[1] # Keep BY <1>1, Fields
    <3>2. QED BY <1>1, <3>1 DEF Asked, One
  <2>3. Arrives(todo[1].size) BY <1>1, <2>1 DEF Fill, Fails
  <2>4. toServer # <<>> /\ Head(toServer).size >= todo[1].size
        /\ toServer' = IF Head(toServer).size = todo[1].size THEN Tail(toServer)
                 ELSE <<Bytes(Head(toServer).size - todo[1].size)>> \o Tail(toServer)
    BY <2>3 DEF Arrives, Has
  <2>5. Meets(Stream, wants, toServer) BY <2>1, <2>2 DEF Answered
  <2>6. toTool = <<>> /\ Stream = todo BY <1>1, <2>4, <2>5, TakeNow
  <2>7. wants \in Seq(Steps) /\ toServer \in Seq(Messages) BY DEF Basis, Traffic
  <2>8. /\ Len(toServer) = 1 /\ todo[1].size \in 1..toServer[1].size
        /\ todo[1].size = toServer[1].size => Meets(Tail(todo), wants, <<>>)
        /\ todo[1].size < toServer[1].size => Meets(Tail(todo), wants, <<Bytes(toServer[1].size - todo[1].size)>>)
    <3>1. Meets(todo, wants, toServer) BY <2>5, <2>6
    <3>2. QED BY <1>1, <2>4, <2>7, <3>1, MeetsTake
  <2>9. Head(toServer) = toServer[1] /\ Tail(toServer) = <<>> /\ toServer[1].size \in Nat
    <3>1. Head(toServer) = toServer[1] /\ toServer[1].size \in Nat BY <2>4, <2>7, MessageTail
    <3>2. Tail(toServer) = <<>> BY <2>7, <2>8, MessageOne
    <3>3. QED BY <3>1, <3>2
  <2>10. Meets(Tail(todo), wants, toServer')
    <3>1. CASE todo[1].size = toServer[1].size
      <4>1. toServer' = <<>> BY <2>4, <2>9, <3>1
      <4>2. QED BY <2>8, <3>1, <4>1
    <3>2. CASE todo[1].size < toServer[1].size
      <4> DEFINE b == Bytes(toServer[1].size - todo[1].size)
      <4>1. b \in Messages
        <5>1. toServer[1].size - todo[1].size \in Nat BY <1>1, <2>9, <3>2
        <5>2. QED BY <5>1, MessageIs
      <4>2. todo[1].size # toServer[1].size BY <1>1, <2>9, <3>2
      <4>3. toServer' = <<b>> \o <<>> BY <2>4, <2>9, <4>2
      <4>4. <<b>> \in Seq(Messages) BY <4>1
      <4>5. toServer' = <<b>> BY <4>3, <4>4, ConcatEmptySeq
      <4>6. QED BY <2>8, <3>2, <4>5
    <3>3. todo[1].size = toServer[1].size \/ todo[1].size < toServer[1].size BY <2>8, <2>9
    <3>4. QED BY <3>1, <3>2, <3>3
  <2>11. Stream' = Tail(todo)
    <3>1. Rest' = Tail(todo) BY <1>1, <1>2 DEF Rest
    <3>2. QED BY <1>1, <1>2, <2>6, <3>1, ConcatEmptySeq DEF Stream
  <2>12. Answered' BY <1>1, <1>2, <2>10, <2>11 DEF Answered
  <2>13. Settled' BY <1>2, <2>6 DEF Settled
  <2>14. QED BY <1>2, <1>3, <2>1, <2>12, <2>13 DEF Talk, Dialogue, ConfusedIsDropped
<1>6. QED BY <1>3, <1>4, <1>5 DEF Basis, TypeOK

\* The handler applies what it has received, with nothing on its way.
LEMMA UseTalk ==
  ASSUME Basis, Talk, Use
  PROVE  Talk'
<1>1. /\ hpc = "run" /\ todo # <<>> /\ todo \in Seq(Steps) /\ todo[1].do = "apply"
      /\ Tail(todo) \in Seq(Steps)
      /\ Tail(todo)[1].do = "apply" => todo[1].do = "take"
  <2>1. Doing({"apply"}) /\ {"apply"} \cap {"keep", "drop"} = {} BY DEF Use
  <2>2. QED BY <2>1, RunningStep
<1>2. todo' = Tail(todo) /\ UNCHANGED <<conn, toServer, toTool, hpc, req, tool, wants>>
  BY DEF Use, client
<1>3. toTool = <<>> BY <1>1 DEF Talk, Settled
<1>4. Settled' BY <1>2, <1>3 DEF Settled
<1>5. tool # "confused" BY <1>1, Confused
<1>6. ASSUME tool \in {"idle", "busy"}
      PROVE  (tool = "idle" <=> wants = <<>>) /\ Answered'
  <2>1. (tool = "idle" <=> wants = <<>>) /\ (Asked \/ Answered) BY <1>6, Speaks
  <2>2. ~Asked
    <3>1. todo[1] # Keep BY <1>1, Fields
    <3>2. QED BY <1>1, <3>1 DEF Asked, One
  <2>3. Rest = todo /\ Rest' = Tail(todo) BY <1>1, <1>2 DEF Rest
  <2>4. Stream = todo /\ Stream' = Tail(todo) BY <1>1, <1>2, <1>3, <2>3, ConcatEmptySeq DEF Stream
  <2>5. Meets(todo, wants, toServer) BY <2>1, <2>2, <2>4 DEF Answered
  <2>6. wants \in Seq(Steps) /\ toServer \in Seq(Messages) BY DEF Basis, Traffic
  <2>7. Meets(Tail(todo), wants, toServer) BY <1>1, <2>5, <2>6, MeetsApply
  <2>8. Answered' BY <1>1, <1>2, <2>4, <2>7 DEF Answered
  <2>9. QED BY <2>1, <2>8
<1>7. QED BY <1>2, <1>4, <1>5, <1>6 DEF Talk, Dialogue, ConfusedIsDropped

\* The handler is ready for the next request.
LEMMA KeepTalk ==
  ASSUME Basis, Talk, Doing({"keep"}), hpc' = "loop", todo' = <<>>,
         UNCHANGED <<toServer, toTool, tool, wants>>
  PROVE  Talk'
<1>1. hpc = "run" /\ todo # <<>> /\ todo \in Seq(Steps) /\ WellFormed(todo)
  BY DEF Doing, Basis, TypeOK, Running
<1>2. todo[1].do = "keep" BY <1>1, SizeIs DEF Doing
<1>3. One(todo, Keep) BY <1>1, <1>2, WellFormedTail
<1>4. todo = <<Keep>> BY <1>1, <1>3 DEF One
<1>5. Rest' = Rest BY <1>1, <1>4 DEF Rest
<1>6. Stream' = Stream BY <1>5 DEF Stream
<1>7. tool # "confused" BY <1>1, <1>2, Confused
<1>8. ASSUME tool \in {"idle", "busy"}
      PROVE  (tool = "idle" <=> wants = <<>>) /\ (Asked' \/ Answered')
  <2>1. (tool = "idle" <=> wants = <<>>) /\ (Asked \/ Answered) BY <1>8, Speaks
  <2>2. Asked => Asked' BY <1>1 DEF Asked
  <2>3. Answered => Answered' BY <1>6 DEF Answered
  <2>4. QED BY <2>1, <2>2, <2>3
<1>9. Settled' BY DEF Settled
<1>10. QED BY <1>7, <1>8, <1>9 DEF Talk, Dialogue, ConfusedIsDropped

\* No step breaks the dialogue.
LEMMA StepTalk == "protect" \notin Names /\ Basis /\ Talk /\ [Next]_vars => Talk'
<1> SUFFICES ASSUME "protect" \notin Names, Basis, Talk, [Next]_vars PROVE Talk' OBVIOUS
<1>1. CASE UNCHANGED vars
  <2>1. Asked' <=> Asked BY <1>1 DEF vars, Asked
  <2>2. Stream' = Stream BY <1>1 DEF vars, Stream, Rest
  <2>3. Answered' <=> Answered BY <1>1, <2>2 DEF vars, Answered
  <2>4. QED BY <1>1, <2>1, <2>3 DEF vars, Talk, Settled, Dialogue, ConfusedIsDropped
<1>2. ASSUME NEW r \in Requests, Ask(r) PROVE Talk' BY <1>2, AskTalk
<1>3. CASE Send \/ Receive \/ SeeClosed \/ HangUp \/ Reset
  BY <1>3, SendTalk, ReceiveTalk, LeaveTalk
<1>4. CASE RecvHeader \/ RecvPayload BY <1>4, RecvHeaderTalk, RecvPayloadTalk
<1>5. CASE RecvEnd \/ NoPayloadMemory
  <2>1. Close BY <1>5 DEF RecvEnd, NoPayloadMemory
  <2>2. QED BY <1>5, <2>1, CloseTalk
<1>6. CASE Answer \/ Fill \/ Use BY <1>6, AnswerTalk, FillTalk, UseTalk
<1>7. CASE Return
  <2>1. CASE Doing({"drop"}) /\ Close BY <2>1, CloseTalk
  <2>2. CASE /\ Doing({"keep"})
             /\ hpc' = "loop" /\ todo' = <<>> /\ req' = NoRequest
             /\ UNCHANGED <<conn, toServer, toTool, filled, junk, client>>
    <3>1. UNCHANGED <<toServer, toTool, tool, wants>> BY <2>2 DEF client
    <3>2. QED BY <2>2, <3>1, KeepTalk
  <2>3. QED BY <1>7, <2>1, <2>2 DEF Return
<1>8. QED BY <1>1, <1>2, <1>3, <1>4, <1>5, <1>6, <1>7 DEF Next

\* If no tool sends CMD_PROC_PROTECT, the scripts of all handlers meet the protocol of
\* the tool at every step, whatever fails, for every size of a transfer and a piece.
THEOREM ScriptsMeetTool ==
  ASSUME "protect" \notin Names
  PROVE  Spec => [](Basis /\ Talk)
<1>1. Init => Basis /\ Talk BY TypeInit, TalkInit
<1>2. Basis /\ Talk /\ [Next]_vars => (Basis /\ Talk)' BY StepBasis, StepTalk
<1>3. QED BY <1>1, <1>2, PTL DEF Spec

\* A tool that wants nothing has nothing to come.
LEMMA TalkInSync == Basis /\ Talk => InSync
<1> SUFFICES ASSUME Basis, Talk, tool = "idle"
    PROVE  /\ toTool = <<>>
           /\ \A k \in 1..Len(todo) : todo[k].do \notin {"ok", "err", "data", "end", "take"}
           /\ toServer = <<>> \/ todo = <<Drop>>
  BY DEF InSync
<1>1. wants = <<>> /\ Answered BY Speaks DEF Asked
<1>2. Meets(Stream, <<>>, toServer) BY <1>1 DEF Answered
<1>3. Stream \in Seq(Steps) /\ toServer \in Seq(Messages) BY StreamType DEF Basis, Traffic
<1>4. One(Stream, Drop) \/ (One(Stream, Keep) /\ toServer = <<>>) BY <1>2, <1>3, MeetsRest
<1>5. toTool = <<>> /\ (One(Rest, Drop) \/ One(Rest, Keep)) BY <1>4, StreamOne
<1>6. ASSUME NEW k \in 1..Len(todo)
      PROVE  todo[k].do \notin {"ok", "err", "data", "end", "take"}
  <2>1. todo # <<>> BY <1>6
  <2>2. hpc = "run" BY <2>1 DEF Basis, Ends
  <2>3. Rest = todo BY <2>2 DEF Rest
  <2>4. Len(todo) = 1 /\ (todo[1] = Drop \/ todo[1] = Keep) BY <1>5, <2>3 DEF One
  <2>5. k = 1 BY <2>4
  <2>6. QED BY <2>4, <2>5, Fields
<1>7. toServer = <<>> \/ todo = <<Drop>>
  <2>1. SUFFICES ASSUME toServer # <<>> PROVE todo = <<Drop>> OBVIOUS
  <2>2. One(Stream, Drop) BY <1>4, <2>1
  <2>3. One(Rest, Drop) BY <2>2, StreamOne
  <2>4. hpc # "closed" BY <2>1 DEF Basis, Ends
  <2>5. hpc = "run"
    <3>1. Keep # Drop BY Fields
    <3>2. QED BY <2>3, <2>4, <3>1 DEF One, Rest
  <2>6. todo \in Seq(Steps) /\ One(todo, Drop) BY <2>3, <2>5 DEF Rest, Basis, Running
  <2>7. QED BY <2>6 DEF One
<1>8. QED BY <1>5, <1>6, <1>7

\* A tool that waits for an answer has a handler that can go on.
LEMMA TalkNoStandoff == Basis /\ Talk => NoStandoff
<1> SUFFICES ASSUME Basis, Talk, tool = "busy", toTool = <<>>, Head(wants).do # "give", Waits
    PROVE  FALSE
  BY DEF NoStandoff
<1>1. Asked \/ Answered BY Speaks
<1>2. /\ wants \in Seq(Steps) /\ wants # <<>> /\ Head(wants) = wants[1]
      /\ toServer \in Seq(Messages)
  <2>1. wants \in Seq(Steps) /\ wants # <<>> /\ toServer \in Seq(Messages)
    BY DEF Basis, TypeOK, Traffic
  <2>2. QED BY <2>1, SeqTail
<1>3. Doing({"take"}) => /\ hpc = "run" /\ todo[1].do = "take" /\ Head(todo) = todo[1]
                         /\ todo # <<>> /\ todo[1].size \in Nat
  <2>1. {"take"} \cap {"keep", "drop"} = {} OBVIOUS
  <2>2. QED BY <2>1, RunningStep
<1>4. CASE Asked
  <2>1. CASE (hpc = "loop" \/ (hpc = "run" /\ One(todo, Keep))) /\ toServer # <<>>
    <3>1. Doing({"take"}) BY <2>1 DEF Waits
    <3>2. QED BY <1>3, <2>1, <3>1, Fields DEF One
  <2>2. CASE hpc = "payload" /\ req \in Requests /\ ~req.bare /\ Owes(req, wants, toServer)
    <3>1. ~Has(Word) BY <1>3, <2>2 DEF Waits
    <3>2. CASE wants = <<Give(Word)>> \o Wants(req)
      <4>1. Wants(req) \in Seq(Steps) BY <2>2, WantsType
      <4>2. Give(Word) \in Steps BY Letters DEF Word
      <4>3. <<Give(Word)>> \in Seq(Steps) /\ Len(<<Give(Word)>>) = 1 BY <4>2
      <4>4. wants[1] = Give(Word) BY <3>2, <4>1, <4>3, SeqConcat
      <4>5. QED BY <1>2, <4>4, Fields
    <3>3. CASE toServer # <<>> /\ Head(toServer) = Bytes(Word)
      BY <3>1, <3>3 DEF Has, Bytes, Word
    <3>4. \/ wants = <<Give(Word)>> \o Wants(req)
          \/ toServer = <<Bytes(Word)>>
          \/ toServer = <<Bytes(Word), Bytes(req.length)>>
      BY <2>2 DEF Owes
    <3>5. toServer = <<Bytes(Word)>> => toServer # <<>> /\ Head(toServer) = Bytes(Word)
      OBVIOUS
    <3>6. toServer = <<Bytes(Word), Bytes(req.length)>>
            => toServer # <<>> /\ Head(toServer) = Bytes(Word)
      OBVIOUS
    <3>7. QED BY <3>2, <3>3, <3>4, <3>5, <3>6
  <2>3. QED BY <1>4, <2>1, <2>2 DEF Asked
<1>5. CASE Answered
  <2>1. Meets(Stream, wants, toServer) /\ hpc # "payload" BY <1>5 DEF Answered
  <2>2. Stream = Rest /\ Stream \in Seq(Steps) /\ Stream # <<>> BY StreamType
  <2>3. CASE hpc = "loop" /\ toServer = <<>>
    <3>1. Stream[1].do = "keep" BY <2>2, <2>3, Fields DEF Rest
    <3>2. Resting(Stream, wants) BY <1>2, <2>1, <2>2, <3>1, FirstLetter
    <3>3. QED BY <1>2, <3>2 DEF Resting
  <2>4. CASE Doing({"take"}) /\ ~Has(Head(todo).size)
    <3>1. Stream = todo /\ Stream[1].do = "take" BY <1>3, <2>2, <2>4 DEF Rest
    <3>2. CASE toServer = <<>>
      <4>1. Offering(Stream, wants) BY <1>2, <2>1, <2>2, <3>1, <3>2, FirstLetter
      <4>2. QED BY <1>2, <4>1 DEF Offering
    <3>3. CASE toServer # <<>>
      <4>1. /\ toServer[1] = Bytes(toServer[1].size)
            /\ Stream[1].size \in 1..toServer[1].size
        BY <1>2, <2>1, <2>2, <3>1, <3>3, MeetsTake
      <4>2. toServer[1].what = "bytes" BY <4>1 DEF Bytes
      <4>3. Head(toServer) = toServer[1] /\ toServer[1].size \in Nat BY <1>2, <3>3, MessageTail
      <4>4. toServer[1].size >= todo[1].size BY <1>3, <2>4, <3>1, <4>1, <4>3
      <4>5. Has(todo[1].size) BY <3>3, <4>2, <4>3, <4>4 DEF Has
      <4>6. QED BY <1>3, <2>4, <4>5
    <3>4. QED BY <3>2, <3>3
  <2>5. QED BY <2>1, <2>3, <2>4 DEF Waits
<1>6. QED BY <1>1, <1>4, <1>5

\* A tool that wants nothing more has all its answers, and its handler has read all it
\* was sent or is about to drop it: no handler, on no path, sends a word more or less.
THEOREM ToolInSync ==
  ASSUME "protect" \notin Names
  PROVE  Spec => []InSync
<1>1. Spec => [](Basis /\ Talk) BY ScriptsMeetTool
<1>2. QED BY <1>1, TalkInSync, PTL

\* In the middle of a command tool and handler never wait for each other: whatever
\* fails, a tool that is owed an answer has a handler that has all it needs to go on.
THEOREM NobodyStandsOff ==
  ASSUME "protect" \notin Names
  PROVE  Spec => []NoStandoff
<1>1. Spec => [](Basis /\ Talk) BY ScriptsMeetTool
<1>2. QED BY <1>1, TalkNoStandoff, PTL

\* The one answer a tool may not expect, a scan that fails after it reported success,
\* is the last before its client is dropped.
THEOREM ConfusedEnds ==
  ASSUME "protect" \notin Names
  PROVE  Spec => []ConfusedIsDropped
<1>1. Spec => [](Basis /\ Talk) BY ScriptsMeetTool
<1>2. Basis /\ Talk => ConfusedIsDropped BY DEF Talk
<1>3. QED BY <1>1, <1>2, PTL

=============================================================================
