-------------------------- MODULE DebuggerPromise --------------------------
(***************************************************************************)
(* What the debugger half of the server promises its clients: there is one *)
(* debugger, it serves one client and one process at a time, and whoever   *)
(* comes next finds it idle.  An attach that fails half way may leave the  *)
(* process traced; such a process cannot be attached to again.              *)
(***************************************************************************)
CONSTANTS Clients, Processes, Nobody, Nothing

VARIABLES
  stage,    \* of the session: "idle", "attaching", "active",
            \* "ending", or "rebooting"
  owner,    \* the client the session belongs to
  held,     \* the process it is about
  leaked    \* processes left traced by failed attaches

promise == <<stage, owner, held, leaked>>

Init == stage = "idle" /\ owner = Nobody /\ held = Nothing /\ leaked = {}

Begin(c, p) ==
  /\ stage = "idle" /\ p \notin leaked
  /\ stage' = "attaching" /\ owner' = c /\ held' = p
  /\ UNCHANGED leaked

GiveUp ==
  /\ stage = "attaching"
  /\ stage' = "idle" /\ owner' = Nobody /\ held' = Nothing
  /\ leaked' = leaked \cup {held}

Open ==
  /\ stage = "attaching" /\ stage' = "active"
  /\ UNCHANGED <<owner, held, leaked>>

\* The owner leaves or detaches.
Close ==
  /\ stage = "active" /\ stage' = "ending"
  /\ UNCHANGED <<owner, held, leaked>>

Release ==
  /\ stage = "ending"
  /\ stage' = "idle" /\ owner' = Nobody /\ held' = Nothing
  /\ UNCHANGED leaked

\* A client reboots the console.  The cleanup before it abandons the session
\* and may let traced processes go; only then the next session can begin.
Reboot ==
  /\ stage # "rebooting" /\ stage' = "rebooting"
  /\ owner' = Nobody /\ held' = Nothing
  /\ leaked' = leaked \cup (IF held = Nothing THEN {} ELSE {held})

Shutdown ==
  /\ stage = "rebooting" /\ stage' \in {"rebooting", "idle"}
  /\ leaked' \in SUBSET leaked
  /\ UNCHANGED <<owner, held>>

Next ==
  \/ \E c \in Clients, p \in Processes : Begin(c, p)
  \/ GiveUp \/ Open \/ Close \/ Release \/ Reboot \/ Shutdown

Spec == Init /\ [][Next]_promise

=============================================================================
