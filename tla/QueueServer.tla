---------------------------- MODULE QueueServer ----------------------------
(***************************************************************************)
(* The command queue of a working session: Server.Run                      *)
(* (internal/queue/server.go) and its clients, Send                        *)
(* (internal/queue/client.go), over a unix socket.                         *)
(*                                                                         *)
(* A member of Conns is one execution of Send and the connection it makes; *)
(* each accepted connection is served by a goroutine of its own.           *)
(***************************************************************************)
EXTENDS Naturals, Sequences, FiniteSets

CONSTANTS
  Conns,     \* connections, one request each
  Silent,    \* clients that connect and never send a line
  Malformed, \* clients whose line may be something else than a request
  MaxDepth,  \* Server.MaxDepth; 0 admits everything
  TTLs,      \* values Server.TTL may have, in clock ticks; 0 never expires
  MaxAge     \* bound on the ticks counted since the last accept

ASSUME ConstantsAssumption ==
  /\ IsFiniteSet(Conns)
  /\ Silent \subseteq Conns /\ Malformed \subseteq Conns
  /\ MaxDepth \in Nat /\ TTLs \subseteq Nat
  /\ MaxAge \in Nat /\ \A t \in TTLs : MaxAge > t

VARIABLES
  server,   \* the accept loop: "accepting", "returned", then "exited"
  listener, \* "open" or "closed"
  backlog,  \* connections the kernel holds for Accept, oldest first
  age,      \* ticks since last was set
  ttl,      \* Server.TTL, set once
  depth,    \* the depth counter
  handler,  \* handler[c]: where the goroutine of connection c stands
  reply,    \* reply[c]: the response it has decided on
  client,   \* client[c]: where Send stands
  got       \* got[c]: the response Send returned

runVars == <<server, listener, backlog, age, ttl>>
vars == <<runVars, depth, handler, reply, client, got>>

Replies == {"none", "ok", "failed", "protocol", "overload"}

HandlerPlaces ==
  {"none", "reading", "admitting", "running", "replying", "refusing",
   "releasing", "closed"}

ClientPlaces == {"idle", "dialed", "sent", "returned", "error", "gone"}

\* The goroutines between depth++ and depth--.
Holding == {c \in Conns : handler[c] \in {"running", "replying", "releasing"}}

TypeOK ==
  /\ server \in {"accepting", "returned", "exited"}
  /\ listener \in {"open", "closed"}
  /\ backlog \in Seq(Conns)
  /\ age \in 0..MaxAge /\ ttl \in TTLs
  /\ depth \in Nat
  /\ handler \in [Conns -> HandlerPlaces]
  /\ reply \in [Conns -> Replies]
  /\ client \in [Conns -> ClientPlaces]
  /\ got \in [Conns -> Replies]

Init ==
  /\ server = "accepting" /\ listener = "open" /\ backlog = <<>>
  /\ age = 0 /\ ttl \in TTLs /\ depth = 0
  /\ handler = [c \in Conns |-> "none"]
  /\ reply = [c \in Conns |-> "none"]
  /\ client = [c \in Conns |-> "idle"]
  /\ got = [c \in Conns |-> "none"]

-----------------------------------------------------------------------------
(* Send *)

\* The kernel completes a connection before Accept sees it.
Dial(c) ==
  /\ client[c] = "idle"
  /\ IF listener = "open"
     THEN /\ backlog' = Append(backlog, c)
          /\ client' = [client EXCEPT ![c] = "dialed"]
     ELSE /\ client' = [client EXCEPT ![c] = "error"]
          /\ UNCHANGED backlog
  /\ UNCHANGED <<server, listener, age, ttl, depth, handler, reply, got>>

Write(c) ==
  /\ client[c] = "dialed" /\ c \notin Silent
  /\ client' = [client EXCEPT ![c] = "sent"]
  /\ UNCHANGED <<runVars, depth, handler, reply, got>>

Waits(c) == client[c] \in {"dialed", "sent"}

\* A reply is readable as soon as it is written, before the slot is released.
Read(c) ==
  /\ client[c] = "sent"
  /\ reply[c] # "none" /\ handler[c] \in {"releasing", "closed"}
  /\ client' = [client EXCEPT ![c] = "returned"]
  /\ got' = [got EXCEPT ![c] = reply[c]]
  /\ UNCHANGED <<runVars, depth, handler, reply>>

\* The deadline of the connection.  A line already written stays readable.
GiveUp(c) ==
  /\ Waits(c)
  /\ client' = [client EXCEPT ![c] = IF @ = "sent" THEN "gone" ELSE "error"]
  /\ UNCHANGED <<runVars, depth, handler, reply, got>>

-----------------------------------------------------------------------------
(* The accept loop and its ticker *)

Accept ==
  /\ server = "accepting" /\ listener = "open" /\ backlog # <<>>
  /\ backlog' = Tail(backlog)
  /\ handler' = [handler EXCEPT ![Head(backlog)] = "reading"]
  /\ age' = 0
  /\ UNCHANGED <<server, listener, ttl, depth, reply, client, got>>

Tick ==
  /\ listener = "open" /\ age < MaxAge
  /\ age' = age + 1
  /\ UNCHANGED <<server, listener, backlog, ttl, depth, handler, reply, client,
                 got>>

\* Closing the listener resets the connections it has not accepted.
Reset(lost) ==
  client' = [c \in Conns |-> IF c \in lost /\ Waits(c) THEN "error"
                             ELSE client[c]]

Backlogged == {backlog[i] : i \in 1..Len(backlog)}

CloseListener ==
  /\ listener = "open"
  /\ listener' = "closed"
  /\ Reset(Backlogged)
  /\ backlog' = <<>>
  /\ UNCHANGED <<server, age, ttl, depth, handler, reply, got>>

\* Mutant of Expired: the clock starts with the first connection.
ExpiredOnceUsed == ttl > 0 /\ age > ttl /\ \E c \in Conns : handler[c] # "none"

Expired == ttl > 0 /\ age > ttl

\* The ticker looks at the time of the last accept and at nothing else.
Expire == Expired /\ CloseListener

\* The context of Run is cancelled.
Cancelled == CloseListener

\* Run returns without waiting for its goroutines.
RunReturns ==
  /\ server = "accepting" /\ listener = "closed"
  /\ server' = "returned"
  /\ UNCHANGED <<listener, backlog, age, ttl, depth, handler, reply, client,
                 got>>

\* The process ends: connections still open are reset.
Exit ==
  /\ server = "returned"
  /\ server' = "exited"
  /\ Reset({c \in Conns : handler[c] \notin {"none", "releasing", "closed"}})
  /\ UNCHANGED <<listener, backlog, age, ttl, depth, handler, reply, got>>

-----------------------------------------------------------------------------
(* One connection's goroutine *)

Alive == server # "exited"

Step(c, from, to) ==
  /\ Alive /\ handler[c] = from
  /\ handler' = [handler EXCEPT ![c] = to]
  /\ UNCHANGED <<runVars, client, got>>

Decide(c, r) == reply' = [reply EXCEPT ![c] = r]

\* Mutant of ReadRequest: requests are read one at a time.
ReadRequestInTurn(c) ==
  /\ client[c] \in {"sent", "gone"}
  /\ \A d \in Conns \ {c} : handler[d] # "reading"
  /\ Step(c, "reading", "admitting")
  /\ UNCHANGED <<depth, reply>>

\* readReq waits for a line for as long as the client keeps the connection.
ReadRequest(c) ==
  /\ client[c] \in {"sent", "gone"}
  /\ Step(c, "reading", "admitting")
  /\ UNCHANGED <<depth, reply>>

ReadFails(c) ==
  /\ \/ client[c] \in {"sent", "gone"} /\ c \in Malformed
     \/ client[c] = "error"
  /\ Step(c, "reading", "refusing")
  /\ Decide(c, "protocol")
  /\ UNCHANGED depth

\* Mutant of Full: one fewer than the limit.
FullEarly == MaxDepth > 0 /\ depth + 1 >= MaxDepth

Full == MaxDepth > 0 /\ depth >= MaxDepth

\* The check and the increment are one critical section.
Admit(c) ==
  /\ ~Full
  /\ Step(c, "admitting", "running")
  /\ depth' = depth + 1
  /\ UNCHANGED reply

Refuse(c) ==
  /\ Full
  /\ Step(c, "admitting", "refusing")
  /\ Decide(c, "overload")
  /\ UNCHANGED depth

\* dispatch returns; the command's own deadline makes it fail at the latest.
Dispatched(c, r) ==
  /\ Step(c, "running", "replying")
  /\ Decide(c, r)
  /\ UNCHANGED depth

WriteReply(c) ==
  /\ Step(c, "replying", "releasing")
  /\ UNCHANGED <<depth, reply>>

WriteRefusal(c) ==
  /\ Step(c, "refusing", "closed")
  /\ UNCHANGED <<depth, reply>>

\* Mutant of ReleaseSlot: the early return of the error path keeps the slot.
ReleaseSlotUnlessFailed(c) ==
  /\ Step(c, "releasing", "closed")
  /\ depth' = IF reply[c] = "failed" THEN depth ELSE depth - 1
  /\ UNCHANGED reply

\* The deferred decrement runs after the response was written.
ReleaseSlot(c) ==
  /\ Step(c, "releasing", "closed")
  /\ depth' = depth - 1
  /\ UNCHANGED reply

Serve(c) ==
  \/ ReadRequest(c) \/ ReadFails(c) \/ Admit(c) \/ Refuse(c)
  \/ \E r \in {"ok", "failed"} : Dispatched(c, r)
  \/ WriteReply(c) \/ WriteRefusal(c) \/ ReleaseSlot(c)

-----------------------------------------------------------------------------
Next ==
  \/ \E c \in Conns : \/ Dial(c) \/ Write(c) \/ Read(c) \/ GiveUp(c)
                      \/ Serve(c)
  \/ Accept \/ Tick \/ Expire \/ Cancelled \/ RunReturns \/ Exit

Spec == Init /\ [][Next]_vars

\* The server's goroutines run, time passes, and deadlines end every wait:
\* that of Send and the five minutes of a dispatched command.  A client that
\* never writes is no execution of Send and may keep its connection for ever.
Fairness ==
  /\ \A c \in Conns : WF_vars(Serve(c))
  /\ \A c \in Conns \ Silent : WF_vars(Read(c) \/ GiveUp(c))
  /\ WF_vars(Accept) /\ WF_vars(Tick) /\ WF_vars(Expire)
  /\ WF_vars(RunReturns) /\ WF_vars(Exit)

FairSpec == Spec /\ Fairness

-----------------------------------------------------------------------------
(* Properties *)

\* The counter is the number of goroutines that hold a slot, on every path
\* through the handler (server.go 80-100).
DepthExact == depth = Cardinality(Holding)

\* Never more commands at once than the limit allows.
DepthBounded == MaxDepth > 0 => Cardinality(Holding) <= MaxDepth

\* A client is told of an overload only if, when it was refused, the limit's
\* worth of commands were really still holding their slots.
OverloadIsReal ==
  [][\A c \in Conns : reply[c] # "overload" /\ reply'[c] = "overload" =>
       Cardinality(Holding) >= MaxDepth]_vars

\* A request whose connection was accepted is answered, whatever silent
\* clients do beside it, unless the process ends or its client gives up.
AcceptedIsAnswered ==
  \A c \in Conns \ Silent :
    handler[c] = "reading" ~> reply[c] # "none" \/ server = "exited"

\* Slots come back: once the clients are done, failures, refusals and lost
\* clients have left no slot taken (server.go 94-100), so a later command is
\* never refused on account of an earlier one.
SlotsComeBack == <>[](depth = 0 \/ server = "exited")

\* With a TTL an idle server stops by itself.
IdleServerStops == ttl > 0 => <>(server = "exited")
=============================================================================
