------------------------------ MODULE Commands ------------------------------
(***************************************************************************)
(* One tool and the handler thread that serves it: which statuses and data *)
(* the handler of each command sends and receives, in which order, and how *)
(* that meets a tool that follows the protocol.  Bytes are counted, their  *)
(* values are left out.  A handler is the set of its possible scripts, one *)
(* for every way its allocations and system calls may turn out; the tool   *)
(* is external, and knows only the script of success.                       *)
(***************************************************************************)
EXTENDS Naturals, Sequences

CONSTANTS
  NetMax,      \* NET_MAX_LENGTH, the most bytes read and written at once
  MaxLength,   \* longest transfer a tool asks for (bounds the model)
  Names,       \* the commands the tool uses, see AllNames
  Faults       \* "alloc": pfmalloc fails; "kernel": a system call fails

StatusNames == {"breakpt", "watchpt", "stopgo", "singlestep", "attach"}
ThreadNames == {"stopthr", "resumethr"}
GetNames    == {"getregs", "getfpregs", "getdbregs"}
SetNames    == {"setregs", "setfpregs", "setdbregs"}
TextNames   == {"print", "notify"}
AllNames    ==
  {"version", "list", "read", "write", "maps", "install", "call", "elf",
   "protect", "scan", "console_scan", "info", "alloc", "free",
   "detach", "threads", "thrinfo", "kbase", "kread", "kwrite", "end", "cinfo"}
  \cup StatusNames \cup ThreadNames \cup GetNames \cup SetNames \cup TextNames

ASSUME CommandsAssumption ==
  /\ NetMax \in Nat \ {0} /\ MaxLength \in Nat \ {0}
  /\ Names \subseteq AllNames
  /\ Faults \subseteq {"alloc", "kernel"}

\* Commands whose payload says how much is to follow.
Sized == {"read", "write", "elf", "scan", "kread", "kwrite"} \cup SetNames \cup TextNames

\* Handlers that do not look at the payload, and those that answer a missing
\* payload without dropping the client.
NoPayload == {"version", "list", "detach", "threads", "singlestep", "kbase",
              "end", "cinfo", "console_scan"}
Lenient   == {"protect", "info", "alloc", "free"}

\* A request: name, length field, and whether it comes without a payload.
Requests ==
  {q \in [name : Names, length : 1..MaxLength, bare : BOOLEAN] :
     /\ q.name \in Sized \/ q.length = 1
     /\ q.name \in NoPayload => q.bare}

VARIABLES
  conn,      \* "open", "left" (end of stream), "reset", "spent" (a reset that
             \* has been reported) or "closed" by us
  toServer,  \* requests and byte counts on their way to the server
  toTool,    \* answers on their way to the tool
  hpc,       \* the handler: "loop", "payload", "run" or "closed"
  req,       \* the request it works on
  todo,      \* what is left of its script
  filled,    \* its last receive delivered the bytes
  junk,      \* bytes never received have been taken for a payload or applied
  tool,      \* "idle", "busy", "confused" or "gone"
  wants      \* what the tool still expects or owes

vars == <<conn, toServer, toTool, hpc, req, todo, filled, junk, tool, wants>>

-----------------------------------------------------------------------------
\* Steps of a handler.
Step(what, size) == [do |-> what, size |-> size]
Ok       == Step("ok", 0)       \* net_send_status, CMD_SUCCESS
Err      == Step("err", 0)      \* net_send_status, any other
Data(n)  == Step("data", n)     \* net_send_data
End      == Step("end", 0)      \* net_send_data, the end flag of a scan
Take(n)  == Step("take", n)     \* net_recv_data, forced
Apply    == Step("apply", 0)    \* the buffer goes to a process or the kernel
Keep     == Step("keep", 0)     \* return 0
Drop     == Step("drop", 0)     \* return anything else

\* A word, a table or a register file: what it holds is left out.
Word == 1

If(fault, script) == IF fault \in Faults THEN {script} ELSE {}
NoMemory == If("alloc", <<Err, Drop>>)
NoKernel == If("kernel", <<Err, Drop>>)

\* The pieces of a transfer of len bytes: all but the last are full.
ChunksOf(len) ==
  [i \in 1..((len + NetMax - 1) \div NetMax) |->
     IF i * NetMax <= len THEN NetMax ELSE len % NetMax]

\* The handlers of server.c and proc.c.
VersionScripts == {<<Data(Word), Data(Word), Keep>>}

ListScripts == {<<Ok, Data(Word), Data(Word), Keep>>} \cup NoMemory \cup NoKernel

ReadScripts(len) ==
  {<<Ok>> \o [i \in 1..Len(ChunksOf(len)) |-> Data(ChunksOf(len)[i])] \o <<Keep>>}
    \cup NoMemory

\* Variation: no status follows the last chunk.
WriteScriptsMute(len) ==
  {<<Ok>> \o [i \in 1..2 * Len(ChunksOf(len)) |->
                IF i % 2 = 1 THEN Take(ChunksOf(len)[(i + 1) \div 2]) ELSE Apply]
          \o <<Keep>>} \cup NoMemory

WriteScripts(len) ==
  {<<Ok>> \o [i \in 1..2 * Len(ChunksOf(len)) |->
                IF i % 2 = 1 THEN Take(ChunksOf(len)[(i + 1) \div 2]) ELSE Apply]
          \o <<Ok, Keep>>} \cup NoMemory

\* Variation: a second status follows the entries.
MapsScriptsTwice == {<<Ok, Data(Word), Data(Word), Ok, Keep>>} \cup NoMemory \cup NoKernel
MapsScripts == {<<Ok, Data(Word), Data(Word), Keep>>} \cup NoMemory \cup NoKernel

InstallScripts == {<<Ok, Data(Word), Keep>>} \cup NoKernel

\* The result of sys_proc_cmd is ignored.
CallScripts == {<<Ok, Data(Word), Keep>>}

ElfScripts(len) ==
  {<<Ok, Take(len), Apply, Ok, Keep>>} \cup NoMemory
    \cup If("kernel", <<Ok, Take(len), Apply, Err, Drop>>)

\* CMD_DATA_NULL follows CMD_SUCCESS.
ProtectScripts == {<<Ok, Err, Keep>>}

\* The scanned value comes in; up to two matches and the end flag go out.
\* Variation: a client that was told of success keeps its connection.
ScanScriptsKeep(len) ==
  {<<Ok, Take(len), Ok>> \o [i \in 1..n |-> Data(Word)] \o <<End, Keep>> : n \in 0..2}
    \cup NoMemory \cup If("alloc", <<Ok, Take(len), Ok, Err, Keep>>)

ScanScripts(len) ==
  {<<Ok, Take(len), Ok>> \o [i \in 1..n |-> Data(Word)] \o <<End, Keep>> : n \in 0..2}
    \cup NoMemory
    \cup If("kernel", <<Ok, Take(len), Err, Drop>>)
    \cup If("alloc", <<Ok, Take(len), Err, Drop>>)
    \cup If("alloc", <<Ok, Take(len), Ok, Err, Drop>>)

InfoScripts  == {<<Ok, Data(Word), Keep>>}
AllocScripts == {<<Ok, Data(Word), Keep>>}
FreeScripts  == {<<Ok, Keep>>}

\* What proc_handle makes of a command it does not know.
UnknownScripts == {<<Drop>>}

\* The handlers of ddebug.c.
StatusScripts  == {<<Ok, Keep>>} \cup NoKernel
DetachScripts  == {<<Ok, Keep>>}
ThreadsScripts == {<<Ok, Data(Word), Data(Word), Keep>>} \cup NoMemory
                    \cup NoKernel \cup If("kernel", <<Err, Keep>>)
ThreadScripts  == {<<Ok, Keep>>} \cup NoKernel \cup If("kernel", <<Err, Keep>>)
GetScripts     == {<<Ok, Data(Word), Keep>>} \cup NoKernel
ThrinfoScripts == {<<Ok, Data(Word), Keep>>} \cup NoKernel
\* Variation: the registers are received before the request is granted.
SetScriptsLate(len) == {<<Take(len), Ok, Apply, Ok, Keep>>} \cup NoKernel
                    \cup If("kernel", <<Take(len), Ok, Apply, Err, Drop>>)
SetScripts(len) == {<<Ok, Take(len), Apply, Ok, Keep>>} \cup NoKernel
                    \cup If("kernel", <<Ok, Take(len), Apply, Err, Drop>>)

\* The handlers of kern.c and console.c.
KernBaseScripts       == {<<Ok, Data(Word), Keep>>}
KernReadScripts(len)  == {<<Ok, Data(len), Keep>>} \cup NoMemory
\* Variation: the kernel is written before the data is there.
KernWriteScriptsEarly(len) == {<<Ok, Apply, Take(len), Ok, Keep>>} \cup NoMemory
KernWriteScripts(len) == {<<Ok, Take(len), Apply, Ok, Keep>>} \cup NoMemory
TextScripts(len)      == {<<Take(len), Ok, Keep>>} \cup NoMemory \* zeroed first
EndScripts            == {<<Drop>>}
\* Variation: nothing is returned.
ConsoleInfoScriptsNoReturn == {<<Ok>>}
ConsoleInfoScripts    == {<<Ok, Keep>>}

\* cmd_handler and the four dispatchers below it.
Scripts(r) ==
  IF r.bare /\ r.name \notin NoPayload
  THEN IF r.name \in Lenient THEN {<<Err, Keep>>} ELSE {<<Err, Drop>>}
  ELSE CASE r.name = "version"    -> VersionScripts
         [] r.name = "list"       -> ListScripts
         [] r.name = "read"       -> ReadScripts(r.length)
         [] r.name = "write"      -> WriteScripts(r.length)
         [] r.name = "maps"       -> MapsScripts
         [] r.name = "install"    -> InstallScripts
         [] r.name = "call"       -> CallScripts
         [] r.name = "elf"        -> ElfScripts(r.length)
         [] r.name = "protect"    -> ProtectScripts
         [] r.name = "scan"       -> ScanScripts(r.length)
         [] r.name = "info"       -> InfoScripts
         [] r.name = "alloc"      -> AllocScripts
         [] r.name = "free"       -> FreeScripts
         [] r.name = "console_scan" -> UnknownScripts
         [] r.name = "detach"     -> DetachScripts
         [] r.name = "threads"    -> ThreadsScripts
         [] r.name = "thrinfo"    -> ThrinfoScripts
         [] r.name \in StatusNames -> StatusScripts
         [] r.name \in ThreadNames -> ThreadScripts
         [] r.name \in GetNames   -> GetScripts
         [] r.name \in SetNames   -> SetScripts(r.length)
         [] r.name = "kbase"      -> KernBaseScripts
         [] r.name = "kread"      -> KernReadScripts(r.length)
         [] r.name = "kwrite"     -> KernWriteScripts(r.length)
         [] r.name \in TextNames  -> TextScripts(r.length)
         [] r.name = "end"        -> EndScripts
         [] r.name = "cinfo"      -> ConsoleInfoScripts

-----------------------------------------------------------------------------
\* What the tool expects (external).
Status  == Step("status", 0)
Get(n)  == Step("get", n)
Give(n) == Step("give", n)
List    == Step("list", 0)
Closed  == Step("closed", 0)

Wants(r) ==
  IF r.bare /\ r.name \notin NoPayload THEN <<Status>>
  ELSE CASE r.name = "version"              -> <<Get(2)>>
         [] r.name \in {"list", "maps", "threads"} -> <<Status, Get(2)>>
         [] r.name \in {"read", "kread"}    -> <<Status, Get(r.length)>>
         [] r.name \in {"write", "elf", "kwrite"} \cup SetNames
                                            -> <<Status, Give(r.length), Status>>
         [] r.name \in {"install", "call", "info", "alloc", "thrinfo", "kbase"}
                            \cup GetNames   -> <<Status, Get(1)>>
         [] r.name = "scan"                 -> <<Status, Give(r.length), Status, List>>
         [] r.name \in TextNames            -> <<Give(r.length), Status>>
         [] r.name = "end"                  -> <<Closed>>
         [] OTHER                           -> <<Status>>

NoRequest == [name |-> "end", length |-> 1, bare |-> TRUE]
Request(r) == [what |-> "request", req |-> r, size |-> 0]
Bytes(n)   == [what |-> "bytes", req |-> NoRequest, size |-> n]

Init ==
  /\ conn = "open" /\ toServer = <<>> /\ toTool = <<>>
  /\ hpc = "loop" /\ req = NoRequest /\ todo = <<>>
  /\ filled = FALSE /\ junk = FALSE
  /\ tool = "idle" /\ wants = <<>>

handler == <<hpc, req, todo, filled, junk>>
client  == <<tool, wants>>

-----------------------------------------------------------------------------
\* The tool.
Ask(r) ==
  /\ tool = "idle" /\ conn = "open"
  /\ toServer' = Append(toServer, Request(r))
  /\ wants' = (IF r.bare THEN <<>> ELSE <<Give(Word)>>) \o Wants(r)
  /\ tool' = "busy"
  /\ UNCHANGED <<conn, toTool, handler>>

Send ==
  /\ tool = "busy" /\ Head(wants).do = "give" /\ conn = "open"
  /\ toServer' = Append(toServer, Bytes(Head(wants).size))
  /\ wants' = Tail(wants)
  /\ UNCHANGED <<conn, toTool, handler, tool>>

\* What is left to want after the answer s.
Accepts(s) ==
  LET w == Head(wants) IN
  CASE w.do = "status" /\ s.do = "ok"  -> {Tail(wants)}
    [] w.do = "status" /\ s.do = "err" -> {<<>>}
    [] w.do = "get" /\ s.do = "data" /\ s.size < w.size
         -> {<<Get(w.size - s.size)>> \o Tail(wants)}
    [] w.do = "get" /\ s.do = "data" /\ s.size = w.size -> {Tail(wants)}
    [] w.do = "list" /\ s.do = "data" -> {wants}
    [] w.do = "list" /\ s.do = "end"  -> {Tail(wants)}
    [] OTHER -> {}

Receive ==
  /\ tool = "busy" /\ toTool # <<>>
  /\ toTool' = Tail(toTool)
  /\ \/ \E left \in Accepts(Head(toTool)) :
          /\ wants' = left
          /\ tool' = IF left = <<>> THEN "idle" ELSE "busy"
     \/ /\ Accepts(Head(toTool)) = {}
        /\ wants' = <<>> /\ tool' = "confused"
  /\ UNCHANGED <<conn, toServer, handler>>

SeeClosed ==
  /\ conn = "closed" /\ tool # "gone" /\ toTool = <<>>
  /\ tool' = "gone" /\ wants' = <<>>
  /\ UNCHANGED <<conn, toServer, toTool, handler>>

\* A reset overtakes what has not arrived.
Cut == \E n \in 0..Len(toServer) : toServer' = SubSeq(toServer, 1, n)

HangUp ==
  /\ tool # "gone" /\ conn = "open"
  /\ \/ conn' = "left" /\ UNCHANGED toServer
     \/ conn' = "reset" /\ Cut
  /\ tool' = "gone" /\ wants' = <<>> /\ toTool' = <<>>
  /\ UNCHANGED <<handler>>

\* A peer that has left may answer what still comes with a reset.
Reset ==
  /\ conn = "left" /\ conn' = "reset" /\ Cut
  /\ UNCHANGED <<toTool, handler, client>>

-----------------------------------------------------------------------------
\* handle_client: a request, or bytes that are no request (invalid magic).
RecvHeader ==
  /\ hpc = "loop" /\ toServer # <<>>
  /\ LET m == Head(toServer) IN
       IF m.what = "request"
         THEN /\ req' = m.req /\ filled' = FALSE
              /\ IF m.req.bare
                   THEN hpc' = "run" /\ todo' \in Scripts(m.req)
                   ELSE hpc' = "payload" /\ UNCHANGED todo
         ELSE UNCHANGED <<hpc, req, todo, filled>>
  /\ toServer' = Tail(toServer)
  /\ UNCHANGED <<conn, toTool, junk, client>>

Close ==
  /\ conn' = "closed" /\ hpc' = "closed" /\ todo' = <<>> /\ toServer' = <<>>
  /\ req' = NoRequest
  /\ UNCHANGED <<toTool, filled, junk, client>>

\* Variation: the end of the stream goes unnoticed.
RecvEndIgnored ==
  /\ hpc = "loop" /\ toServer = <<>> /\ conn # "open" /\ conn # "left"
  /\ Close

RecvEnd ==
  /\ hpc = "loop" /\ toServer = <<>> /\ conn \in {"left", "reset", "spent"}
  /\ Close

\* net_recv_data, forced: n bytes, or an error when the connection is reset,
\* which the socket reports once; at the end of the stream it reads on and on.
Has(n) ==
  toServer # <<>> /\ Head(toServer).what = "bytes" /\ Head(toServer).size >= n

Arrives(n) ==
  /\ Has(n)
  /\ toServer' = IF Head(toServer).size = n THEN Tail(toServer)
                 ELSE <<Bytes(Head(toServer).size - n)>> \o Tail(toServer)

Fails == conn = "reset" /\ toServer = <<>> /\ conn' = "spent" /\ UNCHANGED toServer

\* The payload.  The caller takes the -1 of a reset for success and goes on
\* with whatever the buffer held.
RecvPayload ==
  /\ hpc = "payload" /\ hpc' = "run"
  /\ \/ Arrives(Word) /\ UNCHANGED <<conn, req, junk>>
     \/ /\ Fails /\ junk' = TRUE
        /\ \E r \in Requests : r.name = req.name /\ ~r.bare /\ req' = r
  /\ todo' \in Scripts(req')
  /\ UNCHANGED <<toTool, filled, client>>

NoPayloadMemory ==
  /\ hpc = "payload" /\ "alloc" \in Faults
  /\ Close

Doing(what) == hpc = "run" /\ Head(todo).do \in what

\* The handlers ignore what net_send_data and net_recv_data return.
Answer ==
  /\ Doing({"ok", "err", "data", "end"})
  /\ todo' = Tail(todo)
  /\ toTool' = IF conn = "open" THEN Append(toTool, Head(todo)) ELSE toTool
  /\ UNCHANGED <<conn, toServer, hpc, req, filled, junk, client>>

Fill ==
  /\ Doing({"take"})
  /\ todo' = Tail(todo)
  /\ \/ Arrives(Head(todo).size) /\ filled' = TRUE /\ UNCHANGED conn
     \/ Fails /\ filled' = FALSE
  /\ UNCHANGED <<toTool, hpc, req, junk, client>>

Use ==
  /\ Doing({"apply"})
  /\ todo' = Tail(todo)
  /\ junk' = (junk \/ ~filled) /\ filled' = FALSE
  /\ UNCHANGED <<conn, toServer, toTool, hpc, req, client>>

Return ==
  \/ /\ Doing({"keep"})
     /\ hpc' = "loop" /\ todo' = <<>> /\ req' = NoRequest
     /\ UNCHANGED <<conn, toServer, toTool, filled, junk, client>>
  \/ Doing({"drop"}) /\ Close

Tool == Send \/ Receive \/ SeeClosed
Handler == RecvHeader \/ RecvEnd \/ RecvPayload \/ Answer \/ Fill \/ Use \/ Return

Next ==
  \/ \E r \in Requests : Ask(r)
  \/ Send \/ Receive \/ SeeClosed \/ HangUp \/ Reset
  \/ RecvHeader \/ RecvEnd \/ RecvPayload \/ NoPayloadMemory
  \/ Answer \/ Fill \/ Use \/ Return

\* A tool that waits for an answer reads it and sends what it owes.
Spec == Init /\ [][Next]_vars /\ WF_vars(Tool) /\ WF_vars(Handler)

-----------------------------------------------------------------------------
TypeOK ==
  /\ conn \in {"open", "left", "reset", "spent", "closed"}
  /\ hpc \in {"loop", "payload", "run", "closed"} /\ (hpc = "run" => todo # <<>>)
  /\ tool \in {"idle", "busy", "confused", "gone"} /\ (tool = "busy" => wants # <<>>)
  /\ \A k \in 1..Len(toTool) : toTool[k].do \in {"ok", "err", "data", "end"}
  /\ req \in Requests \cup {NoRequest}

\* A tool that wants nothing more has nothing more to come: no answer is on its way,
\* and the handler has none left to send and nothing left to receive.  It has read
\* all that it was sent, unless it is about to drop the client (print and notify
\* leave their text unread when they cannot allocate).  The next answer is then to
\* the next request.
InSync ==
  tool = "idle" =>
    /\ toTool = <<>>
    /\ \A k \in 1..Len(todo) : todo[k].do \notin {"ok", "err", "data", "end", "take"}
    /\ toServer = <<>> \/ todo = <<Drop>>

\* The handler waits for bytes that are not there.
Waits ==
  \/ hpc = "loop" /\ toServer = <<>>
  \/ hpc = "payload" /\ ~Has(Word)
  \/ Doing({"take"}) /\ ~Has(Head(todo).size)

\* Nowhere in a command do tool and handler wait for each other, the one for an answer
\* and the other for bytes: neither has a timeout (net_recv_data, net_send_data).
NoStandoff ==
  tool = "busy" /\ toTool = <<>> /\ Head(wants).do # "give" => ~Waits

\* Where a tool that follows the protocol meets an answer it did not expect (a
\* scan reports its second failure after it has reported success), the server
\* is about to drop it, and says nothing more.
ConfusedIsDropped == tool = "confused" => hpc = "closed" \/ todo = <<Drop>>

\* What was never received is used, as the payload of a command or as the data of a
\* write, only once the connection has been reset and the tool is gone: what a tool
\* that is there has a handler do, it has sent in full.
InventedAfterReset == junk => conn \in {"spent", "closed"} /\ tool = "gone"

\* Every request is answered in full, or the connection is closed.
EveryRequestAnswered == tool = "busy" ~> tool # "busy"

\* A receive that waits for bytes nobody will send: at the end of the stream
\* net_recv_data reads on and on.
Starved ==
  /\ conn \in {"left", "spent"} /\ toServer = <<>>
  /\ hpc = "payload" \/ Doing({"take"})

\* The handler of a tool that has left ends, unless the tool left owing bytes.
LeaverIsDropped == conn \in {"left", "reset"} ~> hpc = "closed" \/ Starved

=============================================================================
