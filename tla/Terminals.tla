----------------------------- MODULE Terminals -----------------------------
(***************************************************************************)
(* Terminals: the processes codeye runs for its agent                      *)
(* (internal/tools/terminal/manager.go), driven by the client's read loop  *)
(* (internal/client/client.go), which serves one request at a time and     *)
(* stands still while it waits for a process to exit.                      *)
(*                                                                         *)
(* Process p is the one of the p-th Create.  It and what it started write  *)
(* to one pipe; exec.Cmd copies the pipe into the buffer, and a goroutine  *)
(* per process waits for both to end, records the result and sends one     *)
(* value on the done channel.  Output is reduced to its length.            *)
(***************************************************************************)
EXTENDS Naturals, Sequences, FiniteSets

CONSTANTS
  MaxRequests, \* bound on the requests the agent makes
  MaxCreates,  \* bound on those among them that create a terminal
  PipeCap,     \* requests the agent may write before the first is read
  MaxOut,      \* bound on the output of a process
  Named,       \* identifiers the agent names, given out to it or not
  Torn         \* a read of the buffer while it is being written

ASSUME ConstantsAssumption ==
  /\ MaxRequests \in Nat /\ MaxCreates \in Nat
  /\ PipeCap \in Nat /\ MaxOut \in Nat
  /\ Named \subseteq 1..MaxCreates /\ Torn \notin Nat

Procs == 1..MaxCreates
Ids == 1..MaxCreates
Requests == [kind : {"output", "wait", "kill", "release"}, id : Named]
              \cup [kind : {"create"}, id : {0}]
Outcomes == {"ok", "failed", "signal"}

VARIABLES
  inbox,   \* requests written and not read
  sent,    \* how many the agent wrote
  reader,  \* the process the read loop waits for in Wait, 0 when in none
  reply,   \* the last reply
  next,    \* Manager.next
  creates, \* calls of Create
  procs,   \* Manager.procs: the process registered under each id, 0 for none
  given,   \* the process each id was given out for
  life,    \* "none", "running" or "exited"
  outcome, \* how the process ended
  termed,  \* processes sent SIGTERM
  pipe,    \* does the process or a descendant hold the pipe open?
  written, \* output written to the pipe
  buffer,  \* output copied to the buffer
  waiter,  \* the goroutine of Create
  exit,    \* proc.exit
  done     \* does the done channel hold its value?

wire == <<inbox, sent>>
table == <<next, creates, procs, given>>
child == <<life, outcome, pipe, written>>
result == <<buffer, waiter, exit, done>>
vars == <<wire, reader, reply, table, child, termed, result>>

Replies == [kind : {"none", "create", "output", "wait", "kill", "release"},
            id : Ids \cup {0}, ok : BOOLEAN,
            exit : Outcomes, output : Nat \cup {Torn}]

\* Every variable holds values of its kind, and only processes that were
\* started are registered or waited for.
TypeOK ==
  /\ inbox \in Seq(Requests) /\ sent \in Nat
  /\ reader \in Procs \cup {0} /\ reply \in Replies
  /\ next \in Nat /\ creates \in Nat
  /\ procs \in [Ids -> Procs \cup {0}] /\ given \in [Ids -> Procs \cup {0}]
  /\ life \in [Procs -> {"none", "running", "exited"}]
  /\ outcome \in [Procs -> Outcomes] /\ termed \subseteq Procs
  /\ pipe \in [Procs -> BOOLEAN]
  /\ written \in [Procs -> Nat] /\ buffer \in [Procs -> Nat]
  /\ waiter \in [Procs -> {"none", "reaping", "copying", "recording",
                           "sending", "done"}]
  /\ exit \in [Procs -> Outcomes] /\ done \in [Procs -> BOOLEAN]
  /\ \A i \in Ids : procs[i] # 0 => life[procs[i]] # "none"
  /\ reader # 0 => life[reader] # "none"

\* proc.exit is a zero WaitResult first: exit code 0.
Init ==
  /\ inbox = <<>> /\ sent = 0 /\ reader = 0
  /\ reply = [kind |-> "none", id |-> 0, ok |-> TRUE,
              exit |-> "ok", output |-> 0]
  /\ next = 0 /\ creates = 0
  /\ procs = [i \in Ids |-> 0] /\ given = [i \in Ids |-> 0]
  /\ life = [p \in Procs |-> "none"] /\ outcome = [p \in Procs |-> "ok"]
  /\ termed = {} /\ pipe = [p \in Procs |-> FALSE]
  /\ written = [p \in Procs |-> 0] /\ buffer = [p \in Procs |-> 0]
  /\ waiter = [p \in Procs |-> "none"] /\ exit = [p \in Procs |-> "ok"]
  /\ done = [p \in Procs |-> FALSE]

-----------------------------------------------------------------------------
(* The agent *)

Creating == Cardinality({k \in 1..Len(inbox) : inbox[k].kind = "create"})

\* It may name terminals that do not exist, or no more.
Ask(r) ==
  /\ sent < MaxRequests
  /\ r.kind = "create" => creates + Creating < MaxCreates
  /\ Len(inbox) < PipeCap
  /\ inbox' = Append(inbox, r) /\ sent' = sent + 1
  /\ UNCHANGED <<reader, reply, table, child, termed, result>>

-----------------------------------------------------------------------------
(* The read loop and the manager *)

Receive(kind) ==
  /\ reader = 0 /\ inbox # <<>> /\ Head(inbox).kind = kind
  /\ inbox' = Tail(inbox)
  /\ UNCHANGED sent

Answer(kind, id, ok, how, output) ==
  /\ reply' = [kind |-> kind, id |-> id, ok |-> ok,
               exit |-> how, output |-> output]

\* Mutant of NextId: the lowest number that looks free.
FreeId == Cardinality({i \in Ids : procs[i] # 0}) + 1

NextId == next + 1

\* The process runs, is registered, and its goroutine waits for it.
Started(p, id, ok) ==
  IF ok THEN /\ procs' = [procs EXCEPT ![id] = p]
             /\ life' = [life EXCEPT ![p] = "running"]
             /\ pipe' = [pipe EXCEPT ![p] = TRUE]
             /\ waiter' = [waiter EXCEPT ![p] = "reaping"]
        ELSE UNCHANGED <<procs, life, pipe, waiter>>

\* A start that fails uses up its number.
Create(ok) ==
  LET p == creates + 1
      id == NextId
  IN /\ Receive("create") /\ p \in Procs /\ id \in Ids
     /\ creates' = p /\ next' = id
     /\ Started(p, id, ok)
     /\ given' = [given EXCEPT ![id] = IF ok /\ @ = 0 THEN p ELSE @]
     /\ Answer("create", id, ok, "ok", 0)
     /\ UNCHANGED <<reader, outcome, termed, written, buffer, exit, done>>

\* Has Wait received the value?
Taken(p) == waiter[p] = "done" /\ ~done[p]

\* The buffer is read under the manager's lock and written without it; only
\* the done channel orders the two.
Readings(p) == IF Taken(p) THEN {buffer[p]} ELSE 0..buffer[p] \cup {Torn}

Output ==
  LET id == Head(inbox).id
      p == procs[id]
  IN /\ Receive("output")
     /\ \/ p = 0 /\ Answer("output", id, FALSE, "ok", 0)
        \/ p # 0 /\ \E v \in Readings(p) : Answer("output", id, TRUE, "ok", v)
     /\ UNCHANGED <<reader, table, child, termed, result>>

\* Wait looks the terminal up, gives the lock back and waits.
Wait ==
  LET id == Head(inbox).id
      p == procs[id]
  IN /\ Receive("wait")
     /\ \/ p = 0 /\ Answer("wait", id, FALSE, "ok", 0) /\ UNCHANGED reader
        \/ p # 0 /\ reader' = p /\ UNCHANGED reply
     /\ UNCHANGED <<table, child, termed, result>>

WaitReturns ==
  /\ reader # 0 /\ done[reader]
  /\ done' = [done EXCEPT ![reader] = FALSE]
  /\ \E id \in Ids :
       given[id] = reader /\ Answer("wait", id, TRUE, exit[reader], 0)
  /\ reader' = 0
  /\ UNCHANGED <<wire, table, child, termed, buffer, waiter, exit>>

Unreaped == {p \in Procs : waiter[p] = "reaping"}

\* A process that was reaped gets no signal; the manager reports the error.
Kill ==
  LET id == Head(inbox).id
      p == procs[id]
  IN /\ Receive("kill")
     /\ \/ /\ p \in Unreaped
           /\ termed' = termed \cup {p}
           /\ Answer("kill", id, TRUE, "ok", 0)
        \/ /\ p \notin Unreaped
           /\ Answer("kill", id, FALSE, "ok", 0)
           /\ UNCHANGED termed
     /\ UNCHANGED <<reader, table, child, result>>

\* The process is forgotten, not stopped.
Release ==
  LET id == Head(inbox).id
  IN /\ Receive("release")
     /\ procs' = [procs EXCEPT ![id] = 0]
     /\ Answer("release", id, TRUE, "ok", 0)
     /\ UNCHANGED <<reader, next, creates, given, child, termed, result>>

Reading ==
  \/ \E ok \in BOOLEAN : Create(ok)
  \/ Output \/ Wait \/ WaitReturns \/ Kill \/ Release

-----------------------------------------------------------------------------
(* Processes, and the goroutines exec.Cmd and Create run for them *)

Emit(p) ==
  /\ pipe[p] /\ written[p] < MaxOut
  /\ written' = [written EXCEPT ![p] = @ + 1]
  /\ UNCHANGED <<wire, reader, reply, table, life, outcome, pipe, termed,
                 result>>

\* A descendant may hold the pipe open when the process is gone.
Exit(p) ==
  /\ life[p] = "running"
  /\ life' = [life EXCEPT ![p] = "exited"]
  /\ \E o \in IF p \in termed THEN Outcomes ELSE {"ok", "failed"} :
       outcome' = [outcome EXCEPT ![p] = o]
  /\ \E open \in BOOLEAN : pipe' = [pipe EXCEPT ![p] = open]
  /\ UNCHANGED <<wire, reader, reply, table, written, termed, result>>

HangUp(p) ==
  /\ life[p] = "exited" /\ pipe[p]
  /\ pipe' = [pipe EXCEPT ![p] = FALSE]
  /\ UNCHANGED <<wire, reader, reply, table, life, outcome, written, termed,
                 result>>

Child(p) == Emit(p) \/ Exit(p) \/ HangUp(p)

Copy(p) ==
  /\ buffer[p] < written[p]
  /\ buffer' = [buffer EXCEPT ![p] = @ + 1]
  /\ UNCHANGED <<wire, reader, reply, table, child, termed, waiter, exit, done>>

Goes(p, from, to) ==
  /\ waiter[p] = from /\ waiter' = [waiter EXCEPT ![p] = to]
  /\ UNCHANGED <<wire, reader, reply, table, child, termed, buffer>>

\* Mutant of Waited: the process alone is waited for, not the copying.
WaitedForProcess(p) ==
  /\ \/ Goes(p, "reaping", "copying") /\ life[p] = "exited"
     \/ Goes(p, "copying", "recording")
  /\ UNCHANGED <<exit, done>>

\* cmd.Wait: the process is reaped, then its output copied to the end.
Waited(p) ==
  /\ \/ Goes(p, "reaping", "copying") /\ life[p] = "exited"
     \/ Goes(p, "copying", "recording") /\ ~pipe[p] /\ buffer[p] = written[p]
  /\ UNCHANGED <<exit, done>>

\* Mutant of Finish: the value is sent before the result is there.
FinishSwapped(p) ==
  \/ /\ Goes(p, "recording", "sending")
     /\ done' = [done EXCEPT ![p] = TRUE]
     /\ UNCHANGED exit
  \/ /\ Goes(p, "sending", "done")
     /\ exit' = [exit EXCEPT ![p] = outcome[p]]
     /\ UNCHANGED done

\* Mutant of Finish: an error of cmd.Wait ends the goroutine.
FinishUnlessFailed(p) ==
  \/ /\ Goes(p, "recording", "sending")
     /\ exit' = [exit EXCEPT ![p] = outcome[p]]
     /\ UNCHANGED done
  \/ /\ Goes(p, "sending", "done") /\ outcome[p] = "ok"
     /\ done' = [done EXCEPT ![p] = TRUE]
     /\ UNCHANGED exit

Finish(p) ==
  \/ /\ Goes(p, "recording", "sending")
     /\ exit' = [exit EXCEPT ![p] = outcome[p]]
     /\ UNCHANGED done
  \/ /\ Goes(p, "sending", "done")
     /\ done' = [done EXCEPT ![p] = TRUE]
     /\ UNCHANGED exit

Next ==
  \/ \E r \in Requests : Ask(r)
  \/ Reading
  \/ \E p \in Procs : Child(p) \/ Copy(p) \/ Waited(p) \/ Finish(p)

\* The goroutines run; nothing makes an agent ask or a process end.
Spec ==
  /\ Init /\ [][Next]_vars
  /\ WF_vars(Reading)
  /\ \A p \in Procs : WF_vars(Copy(p)) /\ WF_vars(Waited(p)) /\ WF_vars(Finish(p))

-----------------------------------------------------------------------------
(* Properties *)

\* An identifier names one process for good: after a release no later request
\* with it reaches another process (manager.go:37, 91).
NamesOneProcess == \A i \in Ids : procs[i] # 0 => procs[i] = given[i]

\* A wait is told how its own process ended, never the zero result the field
\* starts with, though it reads the field without the lock (manager.go:50, 75).
WaitIsTruthful ==
  reply.kind = "wait" /\ reply.ok =>
    LET p == given[reply.id]
    IN life[p] = "exited" /\ reply.exit = outcome[p]

\* Once a wait was answered the output is complete and stable: Output then
\* returns all that the process and its descendants wrote (manager.go:49, 64).
OutputCompleteAfterWait ==
  reply.kind = "output" /\ reply.ok =>
    LET p == given[reply.id]
    IN Taken(p) => reply.output = written[p]

\* The read loop is in a wait that nothing ends: the process or a descendant
\* goes on, or an earlier wait took the one value of the channel.
Held == reader # 0 /\ (life[reader] = "running" \/ pipe[reader] \/ Taken(reader))

\* The read loop does not stand still over an unanswered request unless it is
\* held: a process that ended, failed or not, lets its first wait return
\* (manager.go:52, 74).
AnsweredUnlessHeld == []<>((inbox = <<>> /\ reader = 0) \/ Held)
=============================================================================
