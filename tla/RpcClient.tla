----------------------------- MODULE RpcClient -----------------------------
(***************************************************************************)
(* The request/response core of the ACP client (internal/client/client.go, *)
(* internal/acp/transport.go).  Goroutines call `call` concurrently; one   *)
(* goroutine runs `readLoop`; deferred permission prompts run in goroutines *)
(* of their own; `Close` runs beside all of them.  The agent is a process  *)
(* at the other end of two byte pipes.                                     *)
(*                                                                         *)
(* A member of Calls is one execution of `call`: it owns the channel made  *)
(* at line 316, so a channel is named by the call that made it.            *)
(***************************************************************************)
EXTENDS Naturals, Sequences

CONSTANTS
  Calls,      \* executions of `call`
  TimedCalls, \* those whose context has a deadline
  InReqs,     \* requests the agent makes of the client
  AskReqs,    \* those answered by the interactive permission prompter
  MaxIds,     \* bound on the identifiers drawn from idSeq
  PipeCap,    \* bound on the lines a pipe holds before a write blocks
  MaxNoise,   \* bound on the lines that are no request and no response
  NoCall,     \* no call: a nil channel, an empty buffer
  NoReq       \* no inbound request

ASSUME ConstantsAssumption ==
  /\ TimedCalls \subseteq Calls
  /\ AskReqs \subseteq InReqs
  /\ MaxIds \in Nat /\ MaxNoise \in Nat
  /\ PipeCap \in Nat \ {0}
  /\ NoCall \notin Calls
  /\ NoReq \notin InReqs

VARIABLES
  idSeq,      \* last identifier given out
  pc,         \* pc[c]: where call c stands
  id,         \* id[c]: the local variable id of call c, 0 before it is drawn
  pending,    \* pending[i]: the channel registered under i, NoCall if none
  chan,       \* chan[c]: the buffered response, named by the call it answers
  got,        \* got[c]: the response call c returned with
  reader,     \* readLoop: its place and the locals it carries
  deferred,   \* inbound requests whose prompt goroutine has yet to reply
  stop,       \* Close: "open", "closing" (stop closed), "closed" (killed)
  toAgent,    \* lines on the agent's stdin
  fromAgent,  \* lines on the agent's stdout
  agent,      \* "up" or "dead"
  heard,      \* requests the agent has read
  answered,   \* calls the agent has answered
  asked,      \* inbound requests the agent has made
  replies,    \* replies[k]: how many replies were written for k
  noise       \* other lines the agent has written

callVars  == <<idSeq, pc, id, got>>
tableVars == <<pending, chan>>
readVars  == <<reader, deferred>>
agentVars == <<agent, heard, answered, asked, noise>>
vars == <<callVars, tableVars, readVars, stop, toAgent, fromAgent, agentVars,
          replies>>

Ids == 1..MaxIds

Request(i, c)  == [kind |-> "request", id |-> i, of |-> c]
Response(i, c) == [kind |-> "response", id |-> i, of |-> c]
Inbound(k)     == [kind |-> "inbound", req |-> k]
Reply(k)       == [kind |-> "reply", req |-> k]
Noise(n)       == [kind |-> n]

NoiseKinds == {"update", "garbage", "blank"}

Requests  == {Request(i, c) : i \in Ids, c \in Calls}
Responses == {Response(i, c) : i \in Ids, c \in Calls}
ToLines   == Requests \cup {Reply(k) : k \in InReqs}
FromLines == Responses \cup {Inbound(k) : k \in InReqs}
                       \cup {Noise(n) : n \in NoiseKinds}

At(place)     == [at |-> place, to |-> NoCall, of |-> NoCall, req |-> NoReq]
Sending(c, d) == [at |-> "send", to |-> c, of |-> d, req |-> NoReq]
Replying(k)   == [at |-> "reply", to |-> NoCall, of |-> NoCall, req |-> k]

ReaderStates ==
  {At(place) : place \in {"check", "read", "halted"}}
    \cup {Sending(c, d) : c \in Calls, d \in Calls}
    \cup {Replying(k) : k \in InReqs}

TypeOK ==
  /\ idSeq \in 0..MaxIds
  /\ pc \in [Calls -> {"idle", "writing", "waiting", "returned", "failed"}]
  /\ id \in [Calls -> 0..MaxIds]
  /\ pending \in [Ids -> Calls \cup {NoCall}]
  /\ chan \in [Calls -> Calls \cup {NoCall}]
  /\ got \in [Calls -> Calls \cup {NoCall}]
  /\ reader \in ReaderStates
  /\ deferred \subseteq InReqs
  /\ stop \in {"open", "closing", "closed"}
  /\ toAgent \in Seq(ToLines)
  /\ fromAgent \in Seq(FromLines)
  /\ agent \in {"up", "dead"}
  /\ heard \subseteq Requests
  /\ answered \subseteq Calls
  /\ asked \subseteq InReqs
  /\ replies \in [InReqs -> Nat]
  /\ noise \in 0..MaxNoise

Init ==
  /\ idSeq = 0
  /\ pc = [c \in Calls |-> "idle"]
  /\ id = [c \in Calls |-> 0]
  /\ pending = [i \in Ids |-> NoCall]
  /\ chan = [c \in Calls |-> NoCall]
  /\ got = [c \in Calls |-> NoCall]
  /\ reader = At("check")
  /\ deferred = {}
  /\ stop = "open"
  /\ toAgent = <<>>
  /\ fromAgent = <<>>
  /\ agent = "up"
  /\ heard = {}
  /\ answered = {}
  /\ asked = {}
  /\ replies = [k \in InReqs |-> 0]
  /\ noise = 0

(***************************************************************************)
(* WriteMessage: one line at a time under the transport's mutex.  A write  *)
(* waits for room in the pipe and fails once the agent is gone; it looks   *)
(* at no context and at no stop channel.                                   *)
(***************************************************************************)
WriteLine(line) ==
  /\ agent = "up"
  /\ Len(toAgent) < PipeCap
  /\ toAgent' = Append(toAgent, line)

WriteFails == agent = "dead" /\ UNCHANGED toAgent

\* A reply's write error is discarded (`_ = c.transport.WriteMessage`).
WriteReply(k) ==
  \/ /\ WriteLine(Reply(k))
     /\ replies' = [replies EXCEPT ![k] = @ + 1]
  \/ WriteFails /\ UNCHANGED replies

-----------------------------------------------------------------------------
(* call *)

\* Mutants of NextId: the counter read outside its lock; free numbers reused.
StaleId == IF idSeq = 0 THEN 1 ELSE idSeq
FreeId == CHOOSE i \in Ids :
            pending[i] = NoCall /\ \A j \in 1..(i - 1) : pending[j] # NoCall

NextId == idSeq + 1

\* The request is registered before it is written.
Begin(c) ==
  /\ pc[c] = "idle"
  /\ NextId \in Ids
  /\ idSeq' = NextId
  /\ id' = [id EXCEPT ![c] = NextId]
  /\ pending' = [pending EXCEPT ![NextId] = c]
  /\ pc' = [pc EXCEPT ![c] = "writing"]
  /\ UNCHANGED <<chan, got, readVars, stop, toAgent, fromAgent, agentVars,
                 replies>>

Send(c) ==
  /\ pc[c] = "writing"
  /\ WriteLine(Request(id[c], c))
  /\ pc' = [pc EXCEPT ![c] = "waiting"]
  /\ UNCHANGED <<idSeq, id, got, tableVars, readVars, stop, fromAgent,
                 agentVars, replies>>

\* The error return of line 322 leaves the pending entry behind.
SendFails(c) ==
  /\ pc[c] = "writing"
  /\ WriteFails
  /\ pc' = [pc EXCEPT ![c] = "failed"]
  /\ UNCHANGED <<idSeq, id, got, tableVars, readVars, stop, fromAgent,
                 agentVars, replies>>

\* Mutant of Unregister: the entry stays.
KeepEntry(i) == pending

Unregister(i) == [pending EXCEPT ![i] = NoCall]

\* Mutant of Timeout: the deadline is looked at by the reader.
TimeoutWhileReading(c) ==
  /\ pc[c] = "waiting" /\ reader # At("halted")
  /\ c \in TimedCalls
  /\ pending' = Unregister(id[c])
  /\ pc' = [pc EXCEPT ![c] = "failed"]
  /\ UNCHANGED <<idSeq, id, got, chan, readVars, stop, toAgent, fromAgent,
                 agentVars, replies>>

Timeout(c) ==
  /\ pc[c] = "waiting"
  /\ c \in TimedCalls
  /\ pending' = Unregister(id[c])
  /\ pc' = [pc EXCEPT ![c] = "failed"]
  /\ UNCHANGED <<idSeq, id, got, chan, readVars, stop, toAgent, fromAgent,
                 agentVars, replies>>

\* Mutant of Receive: a reader that ends closes the channels.
ReceiveOrClosed(c) ==
  /\ pc[c] = "waiting"
  /\ chan[c] # NoCall \/ reader = At("halted")
  /\ got' = [got EXCEPT ![c] = chan[c]]
  /\ chan' = [chan EXCEPT ![c] = NoCall]
  /\ pc' = [pc EXCEPT ![c] = "returned"]
  /\ UNCHANGED <<idSeq, id, pending, readVars, stop, toAgent, fromAgent,
                 agentVars, replies>>

Receive(c) ==
  /\ pc[c] = "waiting"
  /\ chan[c] # NoCall
  /\ got' = [got EXCEPT ![c] = chan[c]]
  /\ chan' = [chan EXCEPT ![c] = NoCall]
  /\ pc' = [pc EXCEPT ![c] = "returned"]
  /\ UNCHANGED <<idSeq, id, pending, readVars, stop, toAgent, fromAgent,
                 agentVars, replies>>

CallStep(c) == Send(c) \/ SendFails(c) \/ Receive(c)

-----------------------------------------------------------------------------
(* readLoop *)

\* The stop channel is polled between lines only.
CheckStop ==
  /\ reader = At("check")
  /\ reader' = IF stop = "open" THEN At("read") ELSE At("halted")
  /\ UNCHANGED <<callVars, tableVars, deferred, stop, toAgent, fromAgent,
                 agentVars, replies>>

ReadLine(line) ==
  /\ reader = At("read")
  /\ fromAgent # <<>>
  /\ line = Head(fromAgent)
  /\ fromAgent' = Tail(fromAgent)

\* Mutants of Dispatch: the entry is left for the caller to delete; only the
\* newest request is expected to be answered.
DispatchKeeping(line) ==
  LET ch == pending[line.id] IN
  /\ pending' = pending
  /\ reader' = IF ch = NoCall THEN At("check") ELSE Sending(ch, line.of)

DispatchLatest(line) ==
  LET ch == IF line.id = idSeq THEN pending[line.id] ELSE NoCall IN
  /\ pending' = Unregister(line.id)
  /\ reader' = IF ch = NoCall THEN At("check") ELSE Sending(ch, line.of)

\* Lookup and delete under one lock; the send to the channel comes after it.
Dispatch(line) ==
  LET ch == pending[line.id] IN
  /\ pending' = Unregister(line.id)
  /\ reader' = IF ch = NoCall THEN At("check") ELSE Sending(ch, line.of)

ReadResponse ==
  \E i \in Ids, c \in Calls :
    /\ ReadLine(Response(i, c))
    /\ Dispatch(Response(i, c))
    /\ UNCHANGED <<callVars, chan, deferred, stop, toAgent, agentVars, replies>>

\* Mutants of HandleInbound: no return after the goroutine is started; a return
\* with no reply.
HandleInboundTwice(k) ==
  /\ deferred' = IF k \in AskReqs THEN deferred \cup {k} ELSE deferred
  /\ reader' = Replying(k)

HandleInboundUnanswered(k) == reader' = At("check") /\ UNCHANGED deferred

\* A permission request in Ask mode is answered from a goroutine of its own;
\* every other request is answered before the next line is read.
HandleInbound(k) ==
  IF k \in AskReqs
  THEN deferred' = deferred \cup {k} /\ reader' = At("check")
  ELSE reader' = Replying(k) /\ UNCHANGED deferred

ReadInbound ==
  \E k \in InReqs :
    /\ ReadLine(Inbound(k))
    /\ HandleInbound(k)
    /\ UNCHANGED <<callVars, tableVars, stop, toAgent, agentVars, replies>>

\* Undecodable lines are skipped; a blank line is a read error.
AfterNoise(n) == IF n = "blank" THEN At("halted") ELSE At("check")

ReadNoise ==
  \E n \in NoiseKinds :
    /\ ReadLine(Noise(n))
    /\ reader' = AfterNoise(n)
    /\ UNCHANGED <<callVars, tableVars, deferred, stop, toAgent, agentVars,
                   replies>>

ReadEOF ==
  /\ reader = At("read")
  /\ fromAgent = <<>> /\ agent = "dead"
  /\ reader' = At("halted")
  /\ UNCHANGED <<callVars, tableVars, deferred, stop, toAgent, fromAgent,
                 agentVars, replies>>

\* ch <- resp: the buffer holds one response, a second send would block.
Deliver ==
  /\ reader.at = "send"
  /\ chan[reader.to] = NoCall
  /\ chan' = [chan EXCEPT ![reader.to] = reader.of]
  /\ reader' = At("check")
  /\ UNCHANGED <<callVars, pending, deferred, stop, toAgent, fromAgent,
                 agentVars, replies>>

ReplyInline ==
  /\ reader.at = "reply"
  /\ WriteReply(reader.req)
  /\ reader' = At("check")
  /\ UNCHANGED <<callVars, tableVars, deferred, stop, fromAgent, agentVars>>

ReaderStep ==
  \/ CheckStop \/ ReadResponse \/ ReadInbound \/ ReadNoise \/ ReadEOF
  \/ Deliver \/ ReplyInline

ReplyDeferred(k) ==
  /\ k \in deferred
  /\ deferred' = deferred \ {k}
  /\ WriteReply(k)
  /\ UNCHANGED <<callVars, tableVars, reader, stop, fromAgent, agentVars>>

-----------------------------------------------------------------------------
(* Close: close the stop channel, wait for the reader or two seconds, kill *)

CloseStop ==
  /\ stop = "open"
  /\ stop' = "closing"
  /\ UNCHANGED <<callVars, tableVars, readVars, toAgent, fromAgent, agentVars,
                 replies>>

\* Mutant of CloseKill: the process is left running after the wait.
CloseWithoutKill ==
  /\ stop = "closing"
  /\ stop' = "closed"
  /\ UNCHANGED <<callVars, tableVars, readVars, toAgent, fromAgent, agentVars,
                 replies>>

CloseKill ==
  /\ stop = "closing"
  /\ stop' = "closed"
  /\ agent' = "dead"
  /\ toAgent' = <<>>
  /\ UNCHANGED <<callVars, tableVars, readVars, fromAgent, heard, answered,
                 asked, noise, replies>>

-----------------------------------------------------------------------------
(* The agent process, known only by the lines it reads and writes *)

AgentRead ==
  /\ agent = "up"
  /\ toAgent # <<>>
  /\ toAgent' = Tail(toAgent)
  /\ heard' = heard \cup ({Head(toAgent)} \cap Requests)
  /\ UNCHANGED <<callVars, tableVars, readVars, stop, fromAgent, agent,
                 answered, asked, noise, replies>>

AgentWrites(line) ==
  /\ agent = "up"
  /\ Len(fromAgent) < PipeCap
  /\ fromAgent' = Append(fromAgent, line)

\* A response echoes the identifier of a request the agent read; nothing
\* stops an agent from sending one twice or long after the caller gave up.
AgentAnswer ==
  \E r \in heard :
    /\ AgentWrites(Response(r.id, r.of))
    /\ answered' = answered \cup {r.of}
    /\ UNCHANGED <<callVars, tableVars, readVars, stop, toAgent, agent, heard,
                   asked, noise, replies>>

AgentAsk(k) ==
  /\ k \notin asked
  /\ AgentWrites(Inbound(k))
  /\ asked' = asked \cup {k}
  /\ UNCHANGED <<callVars, tableVars, readVars, stop, toAgent, agent, heard,
                 answered, noise, replies>>

AgentNoise(n) ==
  /\ noise < MaxNoise
  /\ AgentWrites(Noise(n))
  /\ noise' = noise + 1
  /\ UNCHANGED <<callVars, tableVars, readVars, stop, toAgent, agent, heard,
                 answered, asked, replies>>

AgentDies ==
  /\ agent = "up"
  /\ agent' = "dead"
  /\ toAgent' = <<>>
  /\ UNCHANGED <<callVars, tableVars, readVars, stop, fromAgent, heard,
                 answered, asked, noise, replies>>

-----------------------------------------------------------------------------
Next ==
  \/ \E c \in Calls : Begin(c) \/ CallStep(c) \/ Timeout(c)
  \/ ReaderStep
  \/ \E k \in InReqs : ReplyDeferred(k) \/ AgentAsk(k)
  \/ CloseStop \/ CloseKill
  \/ AgentRead \/ AgentAnswer \/ AgentDies
  \/ \E n \in NoiseKinds : AgentNoise(n)

Spec == Init /\ [][Next]_vars

\* Goroutines that can run do run, timers fire, and an agent that is up
\* reads its input.  Nothing makes it answer, and nothing makes it die.
Fairness ==
  /\ \A c \in Calls : WF_vars(CallStep(c)) /\ WF_vars(Timeout(c))
  /\ WF_vars(ReaderStep)
  /\ \A k \in InReqs : WF_vars(ReplyDeferred(k))
  /\ WF_vars(CloseKill)
  /\ WF_vars(AgentRead)

FairSpec == Spec /\ Fairness

-----------------------------------------------------------------------------
(* Properties *)

\* A response is handed to the call whose request it answers, whatever the
\* order, number and lateness of the agent's responses (readLoop 364-371).
OwnAnswer ==
  \A c \in Calls :
    /\ chan[c] \in {c, NoCall}
    /\ got[c] \in {c, NoCall}
    /\ pc[c] = "returned" => got[c] = c

Registered(c) == pending[id[c]] = c
InDelivery(c) == reader.at = "send" /\ reader.to = c
Delivered(c)  == chan[c] # NoCall

\* A waiting call has its response still to come, on its way from the reader,
\* or in its buffer, and never two of these: no wakeup is lost between the
\* registration, the write and the reader's lookup.
OneWakeup ==
  \A c \in Calls : pc[c] = "waiting" =>
    /\ Registered(c) \/ InDelivery(c) \/ Delivered(c)
    /\ ~(Registered(c) /\ InDelivery(c))
    /\ ~(Registered(c) /\ Delivered(c))
    /\ ~(InDelivery(c) /\ Delivered(c))

\* The reader never blocks on a channel: the one-slot buffer it sends to is
\* empty even when the caller has already gone.
ReaderNeverBlocks ==
  reader.at = "send" => chan[reader.to] = NoCall

\* An entry outlives its call only when the request could not be written.
NoLeakedEntry ==
  \A i \in Ids : pending[i] # NoCall =>
    LET c == pending[i] IN
    /\ id[c] = i
    /\ pc[c] \in {"writing", "waiting"} \/ (pc[c] = "failed" /\ agent = "dead")

\* The agent gets at most one reply to a request, inline or deferred.
RepliedOnce ==
  \A k \in InReqs :
    /\ replies[k] <= 1
    /\ k \in deferred \/ reader = Replying(k) => replies[k] = 0

\* A timed call that is past its write returns, even if the agent is silent
\* and the reader is gone.  (A call still blocked in its write does not.)
TimedCallReturns ==
  \A c \in TimedCalls :
    pc[c] = "waiting" ~> pc[c] \in {"returned", "failed"}

\* A call the agent answered comes back unless the reader halted first.
AnsweredCallReturns ==
  \A c \in Calls :
    pc[c] = "waiting" /\ c \in answered
      ~> pc[c] \in {"returned", "failed"} \/ reader = At("halted")

\* Every request the agent made is replied to, unless a side goes away.
InboundIsReplied ==
  \A k \in InReqs :
    k \in asked
      ~> replies[k] > 0 \/ agent = "dead" \/ reader = At("halted")

\* Closing the client ends the read loop (the kill turns into end of file).
CloseHalts == stop = "closing" ~> reader = At("halted")

\* The client implements the call contract.
Status ==
  [c \in Calls |->
     CASE pc[c] = "idle" -> "unused"
       [] pc[c] \in {"writing", "waiting"} -> "open"
       [] pc[c] = "returned" -> "ok"
       [] OTHER -> "failed"]

Contract == INSTANCE CallContract WITH status <- Status

ContractSpec == Contract!Spec
=============================================================================
