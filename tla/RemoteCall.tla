----------------------------- MODULE RemoteCall -----------------------------
(***************************************************************************)
(* What CMD_PROC_CALL promises: the function of a call is entered at most   *)
(* once, one function at a time, and its value is answered only after it    *)
(* has returned.  A call may fail at any point, and then it may or may not  *)
(* have happened; a function may stay unfinished for ever.                  *)
(***************************************************************************)
CONSTANTS Calls, Nobody

VARIABLES
  status,   \* of each call, in the order of the actions below
  inside    \* the call whose function is being executed

promise == <<status, inside>>

Init == status = [c \in Calls |-> "new"] /\ inside = Nobody

Move(c, from, to) ==
  /\ status[c] \in from
  /\ status' = [status EXCEPT ![c] = to]

Ask(c) == Move(c, {"new"}, "asked") /\ UNCHANGED inside

Enter(c) == Move(c, {"asked"}, "entered") /\ inside = Nobody /\ inside' = c

Return(c) == Move(c, {"entered"}, "returned") /\ inside = c /\ inside' = Nobody

Answer(c) == Move(c, {"returned"}, "answered") /\ UNCHANGED inside

Fail(c) == Move(c, {"asked", "entered", "returned"}, "failed") /\ UNCHANGED inside

Next == \E c \in Calls : Ask(c) \/ Enter(c) \/ Return(c) \/ Answer(c) \/ Fail(c)

Spec == Init /\ [][Next]_promise

=============================================================================
