---------------------------- MODULE CallContract ----------------------------
(***************************************************************************)
(* What an ACP request promises its caller, with no wire in sight: a call  *)
(* is issued once, ends once, and a call that ends well does so because    *)
(* the agent answered that very call.  The client of                       *)
(* internal/client/client.go implements this: see RpcClient.               *)
(***************************************************************************)

CONSTANT Calls

VARIABLES
  status,     \* status[c]: where call c is
  answered    \* the calls the agent has answered

vars == <<status, answered>>

Statuses == {"unused", "open", "ok", "failed"}

Init ==
  /\ status = [c \in Calls |-> "unused"]
  /\ answered = {}

Move(c, from, to) ==
  /\ status[c] = from
  /\ status' = [status EXCEPT ![c] = to]
  /\ UNCHANGED answered

Issue(c) == Move(c, "unused", "open")

\* The agent answers a request it was sent, perhaps after the caller gave up.
Answer(c) ==
  /\ status[c] # "unused"
  /\ answered' = answered \cup {c}
  /\ UNCHANGED status

Complete(c) == c \in answered /\ Move(c, "open", "ok")

Fail(c) == Move(c, "open", "failed")

Next == \E c \in Calls : Issue(c) \/ Answer(c) \/ Complete(c) \/ Fail(c)

Spec == Init /\ [][Next]_vars
=============================================================================
