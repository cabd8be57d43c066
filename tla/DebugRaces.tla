----------------------------- MODULE DebugRaces -----------------------------
(***************************************************************************)
(* Where the threads of DebugServer can get in each other's way, and what  *)
(* holds until they do.  The server has no lock: the slot table and the    *)
(* three debugger globals are kept by the order of a few statements and by *)
(* the test of g_debugging alone.  Two history variables remember whether  *)
(* one of the meetings that these do not exclude has happened; they guard  *)
(* nothing, every behaviour of DebugServer is a behaviour here.            *)
(***************************************************************************)
EXTENDS DebugServer

VARIABLES
  stolen,     \* a connection was given the slot of a running free_client
  disturbed   \* one of the other meetings below has taken place

history == <<stolen, disturbed>>

Step(c, from, to) == pc[c] = from /\ pc'[c] = to

(***************************************************************************)
(* The meetings.                                                           *)
(***************************************************************************)
\* c is past the tests that let it work on the session, and not done with it.
InsidePCs == CleanPCs \cup (AttachPCs \ {"attach"}) \cup
               {"detach", "command", "intr", "sigkill", "rebootClean"}
Inside(c) == pc[c] \in InsidePCs

\* Nobody but c is inside, and no other client is marked as debugging.
Turn(c) ==
  /\ \A d \in Conns \ {c} : ~Inside(d)
  /\ \A i \in Slots : debugging[i] => i = svc[c]

\* alloc_client hands out a slot whose id free_client has cleared already,
\* and which free_client is about to tear down.
SlotTaken ==
  \E c, d \in Conns : Step(c, "none", "setfd") /\ Freeing(d)

\* g_debugging is read twice and set much later.  An attach finds it clear
\* while somebody else is inside, or finds it set at the first test and clear
\* at the second: the globals it goes on with are then not its own.
Overtaken(c) ==
  \/ /\ Step(c, "check", "setcli")
     /\ \E d \in Conns \ {c} : Inside(d)
  \/ /\ Step(c, "attach", "trace")
     /\ \/ curCli # svc[c] \/ curCtx # svc[c]
        \/ \E d \in Conns \ {c} : Inside(d)

\* A debug command from a client without a session; or a reboot that cleans
\* up the session of somebody else.
Uninvited(c) ==
  \/ /\ Step(c, "loop", "detach") \/ Step(c, "loop", "command")
     /\ ~debugging[svc[c]]
  \/ Step(c, "loop", "rebootClean") /\ ~Turn(c)

\* check_debug_interrupt learns of SIGKILL: it cleans up and then uses the
\* globals that the cleanup has cleared.
Signalled(c) == Step(c, "intr", "clearDbg")

\* The freed payload is overwritten between PT_ATTACH and the last reading
\* of the pid.
Overwritten(c) == Attaching(c) /\ pc' = pc /\ want'[c] # want[c]

Disturbance ==
  \E c \in Conns :
    Overtaken(c) \/ Uninvited(c) \/ Signalled(c) \/ Overwritten(c)

-----------------------------------------------------------------------------
HInit == Init /\ stolen = FALSE /\ disturbed = FALSE

HNext ==
  /\ Next
  /\ stolen' = (stolen \/ SlotTaken)
  /\ disturbed' = (disturbed \/ Disturbance)

hvars == <<vars, history>>

HSafeSpec == HInit /\ [][HNext]_hvars

HSpec == HSafeSpec /\ Fairness

Calm == ~stolen /\ ~disturbed

(***************************************************************************)
(* Safety: what each meeting is to blame for.                              *)
(***************************************************************************)
\* Slots are shared or robbed only after a connection was accepted between
\* the first statement of a free_client and its last (alloc_client,
\* free_client); no other interleaving of accept loop and handlers, no race
\* for the debugger and no failure does it.
SlotsLostByAccept == stolen \/ SlotOwned

\* A NULL curdbgcli or curdbgctx is followed only after one of the meetings:
\* as long as none has happened, attaches that arrive while somebody debugs,
\* clients that leave at any point and calls that fail cannot crash the
\* server (debug_cleanup, connect_debugger, handle_client).
CrashHasCause == Calm => NoCrash

\* Nor can they make the mark of a client, the globals, the interrupt channel
\* and the traced process disagree.
InconsistencyHasCause == Calm => SessionConsistent

\* CMD_SUCCESS to an attach is sent to the client that got the session, for
\* the process it asked for, unless one of the meetings has happened: the
\* attaches of others that are refused meanwhile do not redirect it.
AttachAnswersOwner ==
  [][\A c \in Conns : Calm' /\ Step(c, "bind", "loop") =>
       /\ curCli' = svc[c] /\ curCtx' = svc[c]
       /\ debugging'[svc[c]] /\ ctxPid'[svc[c]] = want[c]]_hvars

\* CMD_ALREADY_DEBUG is sent only when somebody debugs, or another client is
\* still busy with a session that begins or ends.
AlreadyDebugTruthful ==
  [][\A c \in Conns : Calm' /\ Step(c, "attach", "free") =>
       \/ \E i \in Slots : debugging[i]
       \/ \E d \in Conns \ {c} :
            Holds(d) /\ pc[d] \notin {"loop", "payload"}]_hvars

(***************************************************************************)
(* The session a client sees, read off the threads and the slots.          *)
(***************************************************************************)
Active(c)    == Live(c) /\ debugging[svc[c]] /\ ~Attaching(c)
Rebooting(c) == pc[c] = "rebootClean" \/ (pc[c] \in CleanPCs /\ after[c] = "reboot")
Ending(c)    == /\ pc[c] \in CleanPCs \ {"clearDbg"}
                /\ ctx[c] # NoSlot /\ ctxPid[ctx[c]] \in Traced

Involved(c)  == Attaching(c) \/ Active(c) \/ Ending(c)

SessionOwner ==
  IF /\ \E c \in Conns : Involved(c)
     /\ \A c \in Conns : ~Rebooting(c)
  THEN CHOOSE c \in Conns : Involved(c)
  ELSE NoConn

SessionStage ==
  CASE \E c \in Conns : Rebooting(c) -> "rebooting"
    [] SessionOwner = NoConn /\ \A c \in Conns : ~Rebooting(c) -> "idle"
    [] SessionOwner \in Conns /\ Attaching(SessionOwner) -> "attaching"
    [] SessionOwner \in Conns /\ Active(SessionOwner) -> "active"
    [] OTHER -> "ending"

SessionTarget ==
  CASE SessionOwner = NoConn -> NoPid
    [] SessionStage = "attaching" -> want[SessionOwner]
    [] SessionStage = "active" -> ctxPid[svc[SessionOwner]]
    [] OTHER -> ctxPid[ctx[SessionOwner]]

Promise == INSTANCE DebuggerPromise WITH
  Clients <- Conns, Processes <- Pids, Nobody <- NoConn, Nothing <- NoPid,
  stage <- SessionStage, owner <- SessionOwner, held <- SessionTarget,
  leaked <- Traced \ {SessionTarget}

\* Until one of the meetings happens, every step of the threads is a step of
\* DebuggerPromise or shows nothing: sessions follow one another, whichever
\* attaches come in between and are refused, and the process of one is let
\* go before the next begins.
OneSessionAtATime ==
  /\ Promise!Init
  /\ [][Calm' => [Promise!Next]_(Promise!promise)]_hvars

(***************************************************************************)
(* Liveness.                                                               *)
(***************************************************************************)
\* A client that leaves is forgotten: its handler ends and its socket is
\* closed, unless the server dies, the client tore a command apart, or one of
\* the meetings happens.
LeaverIsFreed ==
  \A c \in Conns :
    peer[c] = "left" /\ Live(c) ~>
      \/ pc[c] = "done" /\ c \notin sock
      \/ pc[c] = "payload" \/ host # "up" \/ ~Calm

\* The session of a client that leaves ends with it: the debugger is free
\* again and the process it was attached to is no longer traced.
LeaverEndsSession ==
  \A c \in Conns, p \in Pids :
    peer[c] = "left" /\ Active(c) /\ ctxPid[svc[c]] = p
      ~> \/ ~gDebugging /\ p \notin Traced
         \/ pc[c] = "payload" \/ host # "up" \/ ~Calm

=============================================================================
