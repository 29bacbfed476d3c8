-------------------------- MODULE RpcClientProofs --------------------------
(***************************************************************************)
(* Theorems about RpcClient for every set of calls, every pipe capacity    *)
(* and every bound.                                                        *)
(***************************************************************************)
EXTENDS RpcClient, TLAPS

-----------------------------------------------------------------------------
(* Type correctness *)

\* Appending a line of S to a sequence over S gives a sequence over S.
LEMMA AppendType ==
  ASSUME NEW S, NEW q \in Seq(S), NEW x \in S
  PROVE  /\ Append(q, x) \in Seq(S)
         /\ Len(Append(q, x)) = Len(q) + 1
         /\ \A n \in 1..Len(q) + 1 :
              Append(q, x)[n] = IF n = Len(q) + 1 THEN x ELSE q[n]
OBVIOUS

\* Removing the first line keeps the others, one place earlier.
LEMMA TailType ==
  ASSUME NEW S, NEW q \in Seq(S), q # <<>>
  PROVE  /\ Head(q) \in S /\ Head(q) = q[1] /\ Len(q) > 0
         /\ Tail(q) \in Seq(S)
         /\ Len(Tail(q)) = Len(q) - 1
         /\ \A n \in 1..Len(q) - 1 : Tail(q)[n] = q[n + 1]
OBVIOUS

\* The line constructors build members of the line sets.
LEMMA LineTypes ==
  /\ \A i \in Ids, c \in Calls : Request(i, c) \in ToLines /\ Request(i, c) \in Requests
  /\ \A k \in InReqs : Reply(k) \in ToLines
  /\ \A i \in Ids, c \in Calls : Response(i, c) \in FromLines
  /\ \A k \in InReqs : Inbound(k) \in FromLines
  /\ \A n \in NoiseKinds : Noise(n) \in FromLines
BY DEF ToLines, FromLines, Requests, Responses

\* The reader's places have the reader's type.
LEMMA ReaderTypes ==
  /\ At("check") \in ReaderStates /\ At("read") \in ReaderStates
  /\ At("halted") \in ReaderStates
  /\ \A c, d \in Calls : Sending(c, d) \in ReaderStates
  /\ \A k \in InReqs : Replying(k) \in ReaderStates
BY DEF ReaderStates

\* A reader about to send holds two calls, one about to reply a request.
LEMMA ReaderFields ==
  ASSUME TypeOK
  PROVE  /\ reader.at = "send" => /\ reader.to \in Calls
                                  /\ reader.of \in Calls
                                  /\ reader = Sending(reader.to, reader.of)
         /\ reader.at = "reply" => /\ reader.req \in InReqs
                                   /\ reader = Replying(reader.req)
BY DEF TypeOK, ReaderStates, At, Sending, Replying

\* TypeOK is not inductive alone: a call that has begun has an identifier.
Typed == TypeOK /\ \A c \in Calls : pc[c] = "idle" \/ id[c] \in Ids

\* Nothing is drawn, registered or on the wire to begin with.
LEMMA TypedInit == Init => Typed
BY ReaderTypes, ConstantsAssumption DEF Init, Typed, TypeOK, Ids, Requests

\* Every step keeps the types: identifiers stay within MaxIds, the reader
\* holds only what it read, pipes hold only lines of the protocol.
LEMMA TypedStep == Typed /\ [Next]_vars => Typed'
<1> SUFFICES ASSUME Typed, [Next]_vars PROVE Typed'
  OBVIOUS
<1> USE ConstantsAssumption DEF Typed, readVars, agentVars, callVars, tableVars
<1>w. ASSUME NEW x \in ToLines, WriteLine(x) PROVE toAgent' \in Seq(ToLines)
  BY <1>w, AppendType DEF WriteLine, TypeOK
<1>f. ASSUME NEW x \in FromLines, AgentWrites(x)
      PROVE  fromAgent' \in Seq(FromLines)
  BY <1>f, AppendType DEF AgentWrites, TypeOK
<1>l. ASSUME NEW x, ReadLine(x) PROVE fromAgent' \in Seq(FromLines)
  BY <1>l, TailType DEF ReadLine, TypeOK
<1>r. ASSUME NEW k \in InReqs, WriteReply(k)
      PROVE  toAgent' \in Seq(ToLines) /\ replies' \in [InReqs -> Nat]
  BY <1>r, <1>w, LineTypes DEF WriteReply, WriteFails, TypeOK
<1>1. ASSUME NEW c \in Calls, Begin(c) PROVE Typed'
  BY <1>1 DEF Begin, NextId, Ids, TypeOK
<1>2. ASSUME NEW c \in Calls, Send(c) PROVE Typed'
  <2>1. id[c] \in Ids
    BY <1>2 DEF Send
  <2>2. toAgent' \in Seq(ToLines)
    BY <2>1, <1>2, <1>w, LineTypes DEF Send
  <2> QED
    BY <2>2, <1>2 DEF Send, TypeOK
<1>3. ASSUME NEW c \in Calls, SendFails(c) PROVE Typed'
  BY <1>3 DEF SendFails, WriteFails, TypeOK
<1>4. ASSUME NEW c \in Calls, Timeout(c) PROVE Typed'
  BY <1>4 DEF Timeout, Unregister, TypeOK
<1>5. ASSUME NEW c \in Calls, Receive(c) PROVE Typed'
  BY <1>5 DEF Receive, TypeOK
<1>6. CASE CheckStop
  BY <1>6, ReaderTypes DEF CheckStop, TypeOK
<1>7. CASE ReadResponse
  <2> PICK i \in Ids, c \in Calls :
        /\ ReadLine(Response(i, c))
        /\ Dispatch(Response(i, c))
        /\ UNCHANGED <<callVars, chan, deferred, stop, toAgent, agentVars,
                       replies>>
    BY <1>7 DEF ReadResponse
  <2>1. pending[i] \in Calls \cup {NoCall}
    BY DEF TypeOK
  <2>2. reader' \in ReaderStates
    BY <2>1, ReaderTypes DEF Dispatch, Response
  <2>3. pending' \in [Ids -> Calls \cup {NoCall}]
    BY DEF Dispatch, Response, Unregister, TypeOK
  <2> QED
    BY <2>2, <2>3, <1>l DEF TypeOK
<1>8. CASE ReadInbound
  <2> PICK k \in InReqs :
        /\ ReadLine(Inbound(k))
        /\ HandleInbound(k)
        /\ UNCHANGED <<callVars, tableVars, stop, toAgent, agentVars, replies>>
    BY <1>8 DEF ReadInbound
  <2>1. reader' \in ReaderStates /\ deferred' \subseteq InReqs
    BY ReaderTypes DEF HandleInbound, TypeOK
  <2> QED
    BY <2>1, <1>l DEF TypeOK
<1>9. CASE ReadNoise
  BY <1>9, <1>l, ReaderTypes DEF ReadNoise, AfterNoise, TypeOK
<1>10. CASE ReadEOF
  BY <1>10, ReaderTypes DEF ReadEOF, TypeOK
<1>11. CASE Deliver
  BY <1>11, ReaderTypes, ReaderFields DEF Deliver, TypeOK
<1>12. CASE ReplyInline
  BY <1>12, <1>r, ReaderTypes, ReaderFields DEF ReplyInline, TypeOK
<1>13. ASSUME NEW k \in InReqs, ReplyDeferred(k) PROVE Typed'
  BY <1>13, <1>r DEF ReplyDeferred, TypeOK
<1>14. CASE CloseStop
  BY <1>14 DEF CloseStop, TypeOK
<1>15. CASE CloseKill
  BY <1>15 DEF CloseKill, TypeOK
<1>16. CASE AgentRead
  BY <1>16, TailType DEF AgentRead, TypeOK
<1>17. CASE AgentAnswer
  <2> PICK r \in heard :
        /\ AgentWrites(Response(r.id, r.of))
        /\ answered' = answered \cup {r.of}
        /\ UNCHANGED <<callVars, tableVars, readVars, stop, toAgent, agent,
                       heard, asked, noise, replies>>
    BY <1>17 DEF AgentAnswer
  <2>1. r.id \in Ids /\ r.of \in Calls
    BY DEF TypeOK, Requests, Request
  <2>2. fromAgent' \in Seq(FromLines)
    BY <2>1, <1>f, LineTypes
  <2> QED
    BY <2>1, <2>2 DEF TypeOK
<1>18. ASSUME NEW k \in InReqs, AgentAsk(k) PROVE Typed'
  BY <1>18, <1>f, LineTypes DEF AgentAsk, TypeOK
<1>19. ASSUME NEW n \in NoiseKinds, AgentNoise(n) PROVE Typed'
  BY <1>19, <1>f, LineTypes DEF AgentNoise, TypeOK
<1>20. CASE AgentDies
  BY <1>20 DEF AgentDies, TypeOK
<1>21. CASE UNCHANGED vars
  BY <1>21 DEF vars, TypeOK
<1> QED
  BY <1>1, <1>2, <1>3, <1>4, <1>5, <1>6, <1>7, <1>8, <1>9, <1>10, <1>11,
     <1>12, <1>13, <1>14, <1>15, <1>16, <1>17, <1>18, <1>19, <1>20, <1>21
  DEF Next, CallStep, ReaderStep

\* Every reachable state is well typed.
THEOREM TypeCorrect == Spec => []TypeOK
<1>1. Typed => TypeOK
  BY DEF Typed
<1> QED
  BY <1>1, TypedInit, TypedStep, PTL DEF Spec

-----------------------------------------------------------------------------
(* The correlation of responses with calls *)

\* r names a call and the identifier that call drew, and was really sent.
Issued(r) == id[r.of] = r.id /\ pc[r.of] \notin {"idle", "writing"}

\* Identifiers are drawn once.
UniqueIds ==
  /\ \A c \in Calls : id[c] <= idSeq /\ (pc[c] = "idle" => id[c] = 0)
  /\ \A c, d \in Calls : id[c] = id[d] /\ id[c] # 0 => c = d

\* Everything on the wire, and in the agent's memory, was issued.
ToIssued ==
  \A n \in 1..Len(toAgent) :
    toAgent[n].kind = "request" => Issued(toAgent[n])

HeardIssued == \A r \in heard : Issued(r)

FromIssued ==
  \A n \in 1..Len(fromAgent) :
    fromAgent[n].kind = "response" =>
      Issued(fromAgent[n]) /\ fromAgent[n].of \in answered

\* A registered channel belongs to the call that drew the identifier, is
\* empty and is not in the reader's hands; its call is still under way,
\* or failed on a pipe whose agent is dead.
TableOwned ==
  \A i \in Ids : pending[i] # NoCall =>
    /\ id[pending[i]] = i
    /\ chan[pending[i]] = NoCall
    /\ ~InDelivery(pending[i])
    /\ \/ pc[pending[i]] \in {"writing", "waiting"}
       \/ pc[pending[i]] = "failed" /\ agent = "dead"

\* What the reader is about to send is the answer of the call it sends it to,
\* whose buffer is empty.
ReaderOwned ==
  reader.at = "send" =>
    /\ reader.of = reader.to
    /\ chan[reader.to] = NoCall
    /\ reader.to \in answered
    /\ pc[reader.to] \notin {"idle", "writing"}

\* Buffers and results hold the answer of their own call.
ChanOwned ==
  \A c \in Calls :
    /\ chan[c] = NoCall \/ (/\ chan[c] = c /\ c \in answered
                            /\ pc[c] \notin {"idle", "writing"})
    /\ got[c] \in {c, NoCall}
    /\ pc[c] = "returned" => got[c] = c

\* A call that is under way can still be woken.
Wakeable ==
  \A c \in Calls :
    /\ pc[c] = "writing" => Registered(c)
    /\ pc[c] = "waiting" => Registered(c) \/ InDelivery(c) \/ Delivered(c)

Correlated ==
  /\ UniqueIds
  /\ ToIssued /\ HeardIssued /\ FromIssued
  /\ TableOwned
  /\ ReaderOwned
  /\ ChanOwned
  /\ Wakeable

\* The correlation invariant gives the four properties the runs check.
LEMMA CorrelatedImplies ==
  Typed /\ Correlated =>
    OwnAnswer /\ OneWakeup /\ ReaderNeverBlocks /\ NoLeakedEntry
<1> SUFFICES ASSUME Typed, Correlated
             PROVE  OwnAnswer /\ OneWakeup /\ ReaderNeverBlocks /\ NoLeakedEntry
  OBVIOUS
<1> USE DEF Typed, Correlated
<1>1. OwnAnswer
  BY DEF ChanOwned, OwnAnswer
<1>2. OneWakeup
  <2> SUFFICES ASSUME NEW c \in Calls, pc[c] = "waiting"
               PROVE  /\ Registered(c) \/ InDelivery(c) \/ Delivered(c)
                      /\ ~(Registered(c) /\ InDelivery(c))
                      /\ ~(Registered(c) /\ Delivered(c))
                      /\ ~(InDelivery(c) /\ Delivered(c))
    BY DEF OneWakeup
  <2>1. id[c] \in Ids /\ c # NoCall
    BY ConstantsAssumption
  <2>2. Registered(c) => ~InDelivery(c) /\ ~Delivered(c)
    BY <2>1 DEF TableOwned, Registered, Delivered
  <2>3. InDelivery(c) => ~Delivered(c)
    BY DEF ReaderOwned, InDelivery, Delivered
  <2> QED
    BY <2>2, <2>3 DEF Wakeable
<1>3. ReaderNeverBlocks
  BY DEF ReaderOwned, ReaderNeverBlocks
<1>4. NoLeakedEntry
  BY DEF TableOwned, NoLeakedEntry
<1> QED
  BY <1>1, <1>2, <1>3, <1>4

\* With no call begun there is nothing to confuse.
LEMMA CorrelatedInit == Init => Correlated
<1> SUFFICES ASSUME Init PROVE Correlated
  OBVIOUS
<1> USE ConstantsAssumption DEF Init
<1>1. UniqueIds
  BY DEF UniqueIds
<1>2. ToIssued /\ HeardIssued /\ FromIssued
  BY DEF ToIssued, HeardIssued, FromIssued
<1>3. TableOwned /\ ReaderOwned
  BY DEF TableOwned, ReaderOwned, At
<1>4. ChanOwned /\ Wakeable
  BY DEF ChanOwned, Wakeable
<1> QED
  BY <1>1, <1>2, <1>3, <1>4 DEF Correlated

\* A line of kind request or response carries an identifier and a call.
LEMMA LineFields ==
  /\ \A x \in ToLines : x.kind = "request" =>
       x \in Requests /\ x.of \in Calls /\ x.id \in Ids
  /\ \A x \in FromLines : x.kind = "response" =>
       x.of \in Calls /\ x.id \in Ids
  /\ \A r \in Requests : r.of \in Calls /\ r.id \in Ids /\ r.kind = "request"
<1>1. \A r \in Requests : r.of \in Calls /\ r.id \in Ids /\ r.kind = "request"
  BY DEF Requests, Request
<1>2. \A x \in ToLines : x.kind = "request" => x \in Requests
  BY DEF ToLines, Reply
<1>3. ASSUME NEW x \in FromLines, x.kind = "response"
      PROVE  x.of \in Calls /\ x.id \in Ids
  <2>1. x \in Responses
    <3>1. \A k \in InReqs : Inbound(k).kind # "response"
      BY DEF Inbound
    <3>2. \A n \in NoiseKinds : Noise(n).kind # "response"
      BY DEF Noise, NoiseKinds
    <3> QED
      BY <1>3, <3>1, <3>2 DEF FromLines
  <2> QED
    BY <2>1 DEF Responses, Response
<1> QED
  BY <1>1, <1>2, <1>3

\* No step takes back a call's identifier or un-sends its request.
Forward ==
  \A d \in Calls : pc[d] \notin {"idle", "writing"} =>
    pc'[d] \notin {"idle", "writing"} /\ id'[d] = id[d]

\* What was issued stays issued while calls only move forward.
LEMMA IssuedStable ==
  ASSUME Forward, NEW r, r.of \in Calls, Issued(r)
  PROVE  Issued(r)'
BY DEF Forward, Issued

\* Lines, once written, stay issued whoever moves: whether a pipe keeps its
\* lines, loses the first one or gains a line x at the end.
LEMMA ToStable ==
  ASSUME Typed, ToIssued, Forward,
         \/ UNCHANGED toAgent
         \/ toAgent' = <<>>
         \/ toAgent # <<>> /\ toAgent' = Tail(toAgent)
         \/ \E x \in ToLines : /\ toAgent' = Append(toAgent, x)
                               /\ x.kind = "request" => Issued(x)'
  PROVE  ToIssued'
<1> USE DEF Typed, TypeOK
<1>1. ASSUME NEW x \in ToLines, x.kind = "request",
             NEW n \in 1..Len(toAgent), x = toAgent[n]
      PROVE  Issued(x)'
  BY <1>1, LineFields, IssuedStable DEF ToIssued
<1>0. \A n \in 1..Len(toAgent) : toAgent[n] \in ToLines
  OBVIOUS
<1>2. CASE UNCHANGED toAgent
  BY <1>0, <1>1, <1>2 DEF ToIssued, Issued
<1>3. CASE toAgent' = <<>>
  BY <1>3 DEF ToIssued
<1>4. CASE toAgent # <<>> /\ toAgent' = Tail(toAgent)
  <2> SUFFICES ASSUME NEW n \in 1..Len(toAgent'),
                      toAgent'[n].kind = "request"
               PROVE  Issued(toAgent[n])'
    BY DEF ToIssued
  <2>1. n + 1 \in 1..Len(toAgent) /\ toAgent'[n] = toAgent[n + 1]
    BY <1>4, TailType
  <2> QED
    BY <2>1, <1>0, <1>1 DEF Issued
<1>5. CASE \E x \in ToLines : /\ toAgent' = Append(toAgent, x)
                              /\ x.kind = "request" => Issued(x)'
  BY <1>0, <1>1, <1>5, AppendType DEF ToIssued, Issued
<1> QED
  BY <1>2, <1>3, <1>4, <1>5

\* What the agent has read stays issued while calls only move forward.
LEMMA HeardStable ==
  ASSUME Typed, HeardIssued, Forward, UNCHANGED heard
  PROVE  HeardIssued'
<1> SUFFICES ASSUME NEW r \in heard PROVE Issued(r)'
  BY DEF HeardIssued
<1>1. r.of \in Calls /\ Issued(r)
  BY LineFields DEF HeardIssued, Typed, TypeOK
<1> QED
  BY <1>1, IssuedStable

\* Responses on the wire stay answers to issued requests.
LEMMA FromStable ==
  ASSUME Typed, FromIssued, Forward, answered \subseteq answered',
         \/ UNCHANGED fromAgent
         \/ fromAgent # <<>> /\ fromAgent' = Tail(fromAgent)
         \/ \E x \in FromLines :
              /\ fromAgent' = Append(fromAgent, x)
              /\ x.kind = "response" => Issued(x)' /\ x.of \in answered'
  PROVE  FromIssued'
<1> USE DEF Typed, TypeOK
<1>1. ASSUME NEW x \in FromLines, x.kind = "response",
             NEW n \in 1..Len(fromAgent), x = fromAgent[n]
      PROVE  Issued(x)' /\ x.of \in answered'
  BY <1>1, LineFields, IssuedStable DEF FromIssued
<1>0. \A n \in 1..Len(fromAgent) : fromAgent[n] \in FromLines
  OBVIOUS
<1>2. CASE UNCHANGED fromAgent
  BY <1>0, <1>1, <1>2 DEF FromIssued, Issued
<1>3. CASE fromAgent # <<>> /\ fromAgent' = Tail(fromAgent)
  <2> SUFFICES ASSUME NEW n \in 1..Len(fromAgent'),
                      fromAgent'[n].kind = "response"
               PROVE  Issued(fromAgent[n])' /\ fromAgent'[n].of \in answered'
    BY DEF FromIssued
  <2>1. n + 1 \in 1..Len(fromAgent) /\ fromAgent'[n] = fromAgent[n + 1]
    BY <1>3, TailType
  <2> QED
    BY <2>1, <1>0, <1>1 DEF Issued
<1>4. CASE \E x \in FromLines :
              /\ fromAgent' = Append(fromAgent, x)
              /\ x.kind = "response" => Issued(x)' /\ x.of \in answered'
  BY <1>0, <1>1, <1>4, AppendType DEF FromIssued, Issued
<1> QED
  BY <1>2, <1>3, <1>4

\* A step that touches no call, no table and no delivery keeps all but the
\* wire: the agent may only die and answer more.
LEMMA QuietStep ==
  ASSUME Typed, Correlated, UNCHANGED <<idSeq, pc, id, got, pending, chan>>,
         reader' = reader \/ (reader.at # "send" /\ reader'.at # "send"),
         answered \subseteq answered', agent = "dead" => agent' = "dead",
         ToIssued', HeardIssued', FromIssued'
  PROVE  Correlated'
<1> USE DEF Correlated
<1>1. UniqueIds'
  BY DEF UniqueIds
<1>2. \A c \in Calls : InDelivery(c)' <=> InDelivery(c)
  BY DEF InDelivery
<1>3. TableOwned'
  BY <1>2, ConstantsAssumption DEF TableOwned, Typed, TypeOK
<1>4. ReaderOwned'
  BY DEF ReaderOwned
<1>5. ChanOwned'
  BY DEF ChanOwned
<1>6. Wakeable'
  BY <1>2 DEF Wakeable, Registered, Delivered
<1> QED
  BY <1>1, <1>3, <1>4, <1>5, <1>6

\* Calls: drawing an identifier, writing, failing, giving up, receiving.
LEMMA CorrelatedCallStep ==
  ASSUME Typed, Correlated, NEW c \in Calls,
         Begin(c) \/ Send(c) \/ SendFails(c) \/ Timeout(c) \/ Receive(c)
  PROVE  Correlated'
<1> USE ConstantsAssumption
    DEF Correlated, Typed, TypeOK, readVars, agentVars, tableVars
<1>1. CASE Begin(c)
  <2> USE <1>1 DEF Begin, NextId, Ids
  <2>1. Forward
    BY DEF Forward
  <2>2. UniqueIds'
    BY DEF UniqueIds
  <2>3. ToIssued' /\ HeardIssued' /\ FromIssued'
    BY <2>1, ToStable, HeardStable, FromStable
  <2>4. TableOwned'
    BY DEF TableOwned, UniqueIds, ChanOwned, ReaderOwned, InDelivery
  <2>5. ReaderOwned'
    BY ReaderFields DEF ReaderOwned
  <2>6. ChanOwned'
    BY DEF ChanOwned
  <2>7. Wakeable'
    BY DEF Wakeable, Registered, InDelivery, Delivered, UniqueIds
  <2> QED
    BY <2>2, <2>3, <2>4, <2>5, <2>6, <2>7
<1>2. CASE Send(c)
  <2> USE <1>2 DEF Send, WriteLine
  <2>1. Forward
    BY DEF Forward
  <2>2. UniqueIds'
    BY DEF UniqueIds
  <2>3. Request(id[c], c) \in ToLines
    BY LineTypes
  <2>4. Issued(Request(id[c], c))'
    BY DEF Issued, Request
  <2>5. ToIssued' /\ HeardIssued' /\ FromIssued'
    BY <2>1, <2>3, <2>4, ToStable, HeardStable, FromStable
  <2>6. TableOwned'
    BY DEF TableOwned, InDelivery
  <2>7. ReaderOwned' /\ ChanOwned'
    BY ReaderFields DEF ReaderOwned, ChanOwned
  <2>8. Wakeable'
    BY DEF Wakeable, Registered, InDelivery, Delivered
  <2> QED
    BY <2>2, <2>5, <2>6, <2>7, <2>8
<1>3. CASE SendFails(c)
  <2> USE <1>3 DEF SendFails, WriteFails
  <2>1. Forward
    BY DEF Forward
  <2>2. UniqueIds'
    BY DEF UniqueIds
  <2>3. ToIssued' /\ HeardIssued' /\ FromIssued'
    BY <2>1, ToStable, HeardStable, FromStable
  <2>4. TableOwned'
    BY DEF TableOwned, InDelivery
  <2>5. ReaderOwned' /\ ChanOwned'
    BY ReaderFields DEF ReaderOwned, ChanOwned
  <2>6. Wakeable'
    BY DEF Wakeable, Registered, InDelivery, Delivered
  <2> QED
    BY <2>2, <2>3, <2>4, <2>5, <2>6
<1>4. CASE Timeout(c)
  <2> USE <1>4 DEF Timeout, Unregister
  <2>1. Forward
    BY DEF Forward
  <2>2. UniqueIds'
    BY DEF UniqueIds
  <2>3. ToIssued' /\ HeardIssued' /\ FromIssued'
    BY <2>1, ToStable, HeardStable, FromStable
  <2>4. TableOwned'
    BY DEF TableOwned, InDelivery
  <2>5. ReaderOwned' /\ ChanOwned'
    BY ReaderFields DEF ReaderOwned, ChanOwned
  <2>6. Wakeable'
    <3>1. ASSUME NEW d \in Calls, d # c, pc[d] \in {"writing", "waiting"}
          PROVE  id[d] \in Ids /\ pending'[id[d]] = pending[id[d]]
      BY <3>1 DEF UniqueIds, Ids
    <3> QED
      BY <3>1 DEF Wakeable, Registered, InDelivery, Delivered
  <2> QED
    BY <2>2, <2>3, <2>4, <2>5, <2>6
<1>5. CASE Receive(c)
  <2> USE <1>5 DEF Receive
  <2>1. Forward
    BY DEF Forward
  <2>2. UniqueIds'
    BY DEF UniqueIds
  <2>3. ToIssued' /\ HeardIssued' /\ FromIssued'
    BY <2>1, ToStable, HeardStable, FromStable
  <2>4. TableOwned'
    BY DEF TableOwned, InDelivery
  <2>5. ReaderOwned' /\ ChanOwned'
    BY ReaderFields DEF ReaderOwned, ChanOwned
  <2>6. Wakeable'
    BY DEF Wakeable, Registered, InDelivery, Delivered
  <2> QED
    BY <2>2, <2>3, <2>4, <2>5, <2>6
<1> QED
  BY <1>1, <1>2, <1>3, <1>4, <1>5

\* The reader: lookup and delete, delivery, and the steps that touch neither.
LEMMA CorrelatedReaderStep ==
  ASSUME Typed, Correlated, ReaderStep
  PROVE  Correlated'
<1> USE ConstantsAssumption
    DEF Correlated, Typed, TypeOK, readVars, agentVars, tableVars, callVars
<1>0. (callVars' = callVars) => Forward
  BY DEF Forward
<1>1. CASE CheckStop
  BY <1>0, <1>1, ToStable, HeardStable, FromStable, QuietStep
  DEF CheckStop, At
<1>2. CASE ReadResponse
  <2> PICK i \in Ids, c \in Calls :
        /\ ReadLine(Response(i, c))
        /\ Dispatch(Response(i, c))
        /\ UNCHANGED <<callVars, chan, deferred, stop, toAgent, agentVars,
                       replies>>
    BY <1>2 DEF ReadResponse
  <2>1. fromAgent # <<>> /\ Head(fromAgent) = Response(i, c)
        /\ fromAgent' = Tail(fromAgent) /\ reader.at # "send"
    BY DEF ReadLine, At
  <2>2. ToIssued' /\ HeardIssued' /\ FromIssued'
    BY <1>0, <2>1, ToStable, HeardStable, FromStable
  <2>3. id[c] = i /\ pc[c] \notin {"idle", "writing"} /\ c \in answered
    <3>1. 1 \in 1..Len(fromAgent) /\ fromAgent[1] = Response(i, c)
      BY <2>1, TailType
    <3> QED
      BY <3>1 DEF FromIssued, Issued, Response
  <2>4. pending[i] \in {c, NoCall}
    BY <2>3 DEF TableOwned, UniqueIds, Ids
  <2>5. pending' = [pending EXCEPT ![i] = NoCall]
    BY DEF Dispatch, Unregister, Response
  <2>6. CASE pending[i] = NoCall
    <3>1. pending' = pending
      BY <2>5, <2>6
    <3>2. reader' = At("check")
      BY <2>6 DEF Dispatch, Response
    <3> QED
      BY <2>1, <2>2, <3>1, <3>2, QuietStep DEF At
  <2>7. CASE pending[i] = c
    <3>1. reader' = Sending(c, c)
      BY <2>7 DEF Dispatch, Response
    <3>2. reader'.at = "send" /\ reader'.to = c /\ reader'.of = c
      BY <3>1 DEF Sending
    <3>3. chan[c] = NoCall
      BY <2>7 DEF TableOwned
    <3>4. UniqueIds' /\ ChanOwned'
      BY DEF UniqueIds, ChanOwned
    <3>5. ReaderOwned'
      BY <2>3, <3>2, <3>3 DEF ReaderOwned
    <3>6. TableOwned'
      BY <2>3, <2>5, <2>7, <3>2 DEF TableOwned, InDelivery
    <3>7. Wakeable'
      <4>1. ASSUME NEW d \in Calls, d # c, pc[d] \in {"writing", "waiting"}
            PROVE  id[d] \in Ids /\ pending'[id[d]] = pending[id[d]]
        BY <4>1, <2>3, <2>5 DEF UniqueIds, Ids
      <4> QED
        BY <4>1, <2>1, <2>3, <3>2
        DEF Wakeable, Registered, InDelivery, Delivered
    <3> QED
      BY <2>2, <3>4, <3>5, <3>6, <3>7
  <2> QED
    BY <2>4, <2>6, <2>7
<1>3. CASE ReadInbound
  <2> PICK k \in InReqs :
        /\ ReadLine(Inbound(k))
        /\ HandleInbound(k)
        /\ UNCHANGED <<callVars, tableVars, stop, toAgent, agentVars, replies>>
    BY <1>3 DEF ReadInbound
  <2>1. reader.at # "send" /\ reader'.at # "send"
    BY DEF ReadLine, HandleInbound, At, Replying
  <2> QED
    BY <1>0, <2>1, ToStable, HeardStable, FromStable, QuietStep DEF ReadLine
<1>4. CASE ReadNoise
  <2> PICK n \in NoiseKinds :
        /\ ReadLine(Noise(n))
        /\ reader' = AfterNoise(n)
        /\ UNCHANGED <<callVars, tableVars, deferred, stop, toAgent, agentVars,
                       replies>>
    BY <1>4 DEF ReadNoise
  <2>1. reader.at # "send" /\ reader'.at # "send"
    BY DEF ReadLine, AfterNoise, At
  <2> QED
    BY <1>0, <2>1, ToStable, HeardStable, FromStable, QuietStep DEF ReadLine
<1>5. CASE ReadEOF
  BY <1>0, <1>5, ToStable, HeardStable, FromStable, QuietStep DEF ReadEOF, At
<1>6. CASE Deliver
  <2> USE <1>6 DEF Deliver
  <2>1. ToIssued' /\ HeardIssued' /\ FromIssued'
    BY <1>0, ToStable, HeardStable, FromStable
  <2>2. reader'.at # "send" /\ reader.to \in Calls
    BY ReaderFields DEF At
  <2>3. UniqueIds' /\ ReaderOwned'
    BY <2>2 DEF UniqueIds, ReaderOwned
  <2>4. ChanOwned'
    BY <2>2 DEF ChanOwned, ReaderOwned
  <2>5. TableOwned'
    BY <2>2 DEF TableOwned, InDelivery
  <2>6. Wakeable'
    BY <2>2 DEF Wakeable, Registered, InDelivery, Delivered, ReaderOwned
  <2> QED
    BY <2>1, <2>3, <2>4, <2>5, <2>6
<1>7. CASE ReplyInline
  <2> USE <1>7 DEF ReplyInline
  <2>1. reader.at # "send" /\ reader'.at # "send" /\ reader.req \in InReqs
    BY ReaderFields DEF At
  <2>2. ToIssued'
    BY <1>0, <2>1, ToStable, LineTypes
    DEF WriteReply, WriteLine, WriteFails, Reply
  <2> QED
    BY <1>0, <2>1, <2>2, HeardStable, FromStable, QuietStep
<1> QED
  BY <1>1, <1>2, <1>3, <1>4, <1>5, <1>6, <1>7 DEF ReaderStep

\* The deferred replies, Close and the agent.
LEMMA CorrelatedOtherStep ==
  ASSUME Typed, Correlated,
         \/ \E k \in InReqs : ReplyDeferred(k) \/ AgentAsk(k)
         \/ CloseStop \/ CloseKill
         \/ AgentRead \/ AgentAnswer \/ AgentDies
         \/ \E n \in NoiseKinds : AgentNoise(n)
  PROVE  Correlated'
<1> USE ConstantsAssumption
    DEF Correlated, Typed, TypeOK, readVars, agentVars, tableVars, callVars
<1>0. (callVars' = callVars) => Forward
  BY DEF Forward
<1>1. ASSUME NEW k \in InReqs, ReplyDeferred(k) PROVE Correlated'
  <2>1. ToIssued'
    BY <1>0, <1>1, ToStable, LineTypes
    DEF ReplyDeferred, WriteReply, WriteLine, WriteFails, Reply
  <2> QED
    BY <1>0, <1>1, <2>1, HeardStable, FromStable, QuietStep DEF ReplyDeferred
<1>2. ASSUME NEW k \in InReqs, AgentAsk(k) PROVE Correlated'
  BY ZenonT(40), <1>0, <1>2, LineTypes, ToStable, HeardStable, FromStable, QuietStep
  DEF AgentAsk, AgentWrites, Inbound
<1>3. CASE CloseStop \/ CloseKill \/ AgentDies
  BY <1>0, <1>3, ToStable, HeardStable, FromStable, QuietStep
  DEF CloseStop, CloseKill, AgentDies
<1>4. CASE AgentRead
  <2> USE <1>4 DEF AgentRead
  <2>1. ToIssued' /\ FromIssued'
    BY <1>0, ToStable, FromStable
  <2>2. HeardIssued'
    <3>1. 1 \in 1..Len(toAgent) /\ toAgent[1] = Head(toAgent)
      BY TailType
    <3>2. Head(toAgent) \in Requests => Issued(Head(toAgent))
      BY <3>1, LineFields DEF ToIssued
    <3> QED
      BY <3>2 DEF HeardIssued, Issued
  <2> QED
    BY <2>1, <2>2, QuietStep
<1>5. CASE AgentAnswer
  <2> PICK r \in heard :
        /\ AgentWrites(Response(r.id, r.of))
        /\ answered' = answered \cup {r.of}
        /\ UNCHANGED <<callVars, tableVars, readVars, stop, toAgent, agent,
                       heard, asked, noise, replies>>
    BY <1>5 DEF AgentAnswer
  <2>1. Response(r.id, r.of) \in FromLines
    BY LineFields, LineTypes
  <2>2. Issued(Response(r.id, r.of))'
    BY DEF HeardIssued, Issued, Response
  <2>3. FromIssued'
    BY <1>0, <2>1, <2>2, FromStable DEF AgentWrites, Response
  <2> QED
    BY <1>0, <2>3, ToStable, HeardStable, QuietStep
<1>6. ASSUME NEW n \in NoiseKinds, AgentNoise(n) PROVE Correlated'
  BY <1>0, <1>6, LineTypes, ToStable, HeardStable, FromStable, QuietStep
  DEF AgentNoise, AgentWrites, Noise, NoiseKinds
<1> QED
  BY <1>1, <1>2, <1>3, <1>4, <1>5, <1>6

\* Every step of the client, of Close and of the agent keeps the correlation.
LEMMA CorrelatedStep == Typed /\ Correlated /\ [Next]_vars => Correlated'
<1> SUFFICES ASSUME Typed, Correlated, [Next]_vars PROVE Correlated'
  OBVIOUS
<1>1. CASE UNCHANGED vars
  <2>1. Forward
    BY <1>1 DEF Forward, vars, callVars
  <2> QED
    BY <1>1, <2>1, ToStable, HeardStable, FromStable, QuietStep
    DEF vars, callVars, tableVars, readVars, agentVars, Correlated
<1> QED
  BY <1>1, CorrelatedCallStep, CorrelatedReaderStep, CorrelatedOtherStep
  DEF Next, CallStep

\* Responses reach the call they answer (client.go 314-373).
THEOREM ResponsesCorrelate == Spec => []OwnAnswer
<1>1. Init => Typed /\ Correlated
  BY TypedInit, CorrelatedInit
<1>2. Typed /\ Correlated /\ [Next]_vars => (Typed /\ Correlated)'
  BY TypedStep, CorrelatedStep
<1>3. Typed /\ Correlated => OwnAnswer
  BY CorrelatedImplies
<1> QED
  BY <1>1, <1>2, <1>3, PTL DEF Spec

\* No wakeup is lost or doubled between registration and delivery.
THEOREM WakeupsKept == Spec => []OneWakeup
<1>1. Init => Typed /\ Correlated
  BY TypedInit, CorrelatedInit
<1>2. Typed /\ Correlated /\ [Next]_vars => (Typed /\ Correlated)'
  BY TypedStep, CorrelatedStep
<1>3. Typed /\ Correlated => OneWakeup
  BY CorrelatedImplies
<1> QED
  BY <1>1, <1>2, <1>3, PTL DEF Spec

\* readLoop never blocks on a caller's channel, however late the caller is.
THEOREM ReaderIsFree == Spec => []ReaderNeverBlocks
<1>1. Init => Typed /\ Correlated
  BY TypedInit, CorrelatedInit
<1>2. Typed /\ Correlated /\ [Next]_vars => (Typed /\ Correlated)'
  BY TypedStep, CorrelatedStep
<1>3. Typed /\ Correlated => ReaderNeverBlocks
  BY CorrelatedImplies
<1> QED
  BY <1>1, <1>2, <1>3, PTL DEF Spec

\* The pending table leaks only entries whose write failed.
THEOREM TableIsTidy == Spec => []NoLeakedEntry
<1>1. Init => Typed /\ Correlated
  BY TypedInit, CorrelatedInit
<1>2. Typed /\ Correlated /\ [Next]_vars => (Typed /\ Correlated)'
  BY TypedStep, CorrelatedStep
<1>3. Typed /\ Correlated => NoLeakedEntry
  BY CorrelatedImplies
<1> QED
  BY <1>1, <1>2, <1>3, PTL DEF Spec

-----------------------------------------------------------------------------
(* The client implements the call contract *)

\* A step that changes no call's place changes nothing the contract sees but
\* the set of answered calls.
LEMMA StatusUnchanged == UNCHANGED pc => UNCHANGED Status
BY DEF Status

\* The client starts where the contract starts.
LEMMA ContractInit == Init => Contract!Init
BY DEF Init, Status, Contract!Init

\* Every step of the client is a step of the contract or invisible to it.
LEMMA ContractStep ==
  Typed /\ Correlated /\ [Next]_vars => [Contract!Next]_(Contract!vars)
<1> SUFFICES ASSUME Typed, Correlated, [Next]_vars
             PROVE  Contract!Next \/ UNCHANGED Contract!vars
  BY DEF Contract!vars
<1> USE DEF Typed, TypeOK, readVars, agentVars, tableVars, callVars
<1>1. ASSUME NEW c \in Calls, Begin(c) PROVE Contract!Issue(c)
  BY <1>1 DEF Begin, Status, Contract!Issue, Contract!Move
<1>2. ASSUME NEW c \in Calls, Send(c) PROVE UNCHANGED Contract!vars
  BY <1>2 DEF Send, Status, Contract!vars
<1>3. ASSUME NEW c \in Calls, SendFails(c) \/ Timeout(c) PROVE Contract!Fail(c)
  BY <1>3 DEF SendFails, Timeout, Status, Contract!Fail, Contract!Move
<1>4. ASSUME NEW c \in Calls, Receive(c) PROVE Contract!Complete(c)
  <2>1. c \in answered
    BY <1>4 DEF Receive, Correlated, ChanOwned
  <2> QED
    BY <1>4, <2>1 DEF Receive, Status, Contract!Complete, Contract!Move
<1>5. CASE ReaderStep
  <2>1. UNCHANGED <<pc, answered>>
    BY <1>5 DEF ReaderStep, CheckStop, ReadResponse, ReadInbound, ReadNoise,
                ReadEOF, Deliver, ReplyInline
  <2> QED
    BY <2>1, StatusUnchanged DEF Contract!vars
<1>6. ASSUME NEW k \in InReqs, ReplyDeferred(k) \/ AgentAsk(k)
      PROVE  UNCHANGED Contract!vars
  BY <1>6, StatusUnchanged DEF ReplyDeferred, AgentAsk, Contract!vars
<1>7. CASE CloseStop \/ CloseKill \/ AgentRead \/ AgentDies
  BY <1>7, StatusUnchanged
  DEF CloseStop, CloseKill, AgentRead, AgentDies, Contract!vars
<1>8. CASE AgentAnswer
  <2> PICK r \in heard :
        answered' = answered \cup {r.of} /\ UNCHANGED pc
    BY <1>8 DEF AgentAnswer
  <2>1. r.of \in Calls /\ Status[r.of] # "unused"
    BY LineFields DEF Correlated, HeardIssued, Issued, Status
  <2>2. Contract!Answer(r.of)
    BY <2>1, StatusUnchanged DEF Contract!Answer
  <2> QED
    BY <2>1, <2>2 DEF Contract!Next
<1>9. ASSUME NEW n \in NoiseKinds, AgentNoise(n) PROVE UNCHANGED Contract!vars
  BY <1>9, StatusUnchanged DEF AgentNoise, Contract!vars
<1>10. CASE UNCHANGED vars
  BY <1>10, StatusUnchanged DEF vars, Contract!vars
<1> QED
  BY <1>1, <1>2, <1>3, <1>4, <1>5, <1>6, <1>7, <1>8, <1>9, <1>10
  DEF Next, CallStep, Contract!Next

\* The ACP client implements the contract of CallContract: a call that
\* returns a result was answered by the agent, and ends only once.
THEOREM ClientImplementsContract == Spec => ContractSpec
<1>1. Init => Typed /\ Correlated
  BY TypedInit, CorrelatedInit
<1>2. Typed /\ Correlated /\ [Next]_vars => (Typed /\ Correlated)'
  BY TypedStep, CorrelatedStep
<1> QED
  BY <1>1, <1>2, ContractInit, ContractStep, PTL
  DEF Spec, ContractSpec, Contract!Spec

-----------------------------------------------------------------------------
(* Inbound requests are replied to at most once *)

OnWire(k) == \E n \in 1..Len(fromAgent) : fromAgent[n] = Inbound(k)

\* A request is asked once; it is then on the wire at one place, or with the
\* reader, or with its prompt goroutine, or replied to, and only one of these.
OnePlace ==
  \A k \in InReqs :
    /\ replies[k] <= 1
    /\ OnWire(k) => /\ k \in asked /\ replies[k] = 0
                    /\ reader # Replying(k) /\ k \notin deferred
    /\ reader = Replying(k) => k \in asked /\ replies[k] = 0 /\ k \notin deferred
    /\ k \in deferred => k \in asked /\ replies[k] = 0
    /\ replies[k] > 0 => k \in asked
    /\ \A m, n \in 1..Len(fromAgent) :
         fromAgent[m] = Inbound(k) /\ fromAgent[n] = Inbound(k) => m = n

\* A line of another kind neither puts k on the wire nor takes it off.
LEMMA WireAppend ==
  ASSUME Typed, OnePlace, NEW x \in FromLines, fromAgent' = Append(fromAgent, x),
         NEW k \in InReqs, x # Inbound(k)
  PROVE  /\ OnWire(k)' <=> OnWire(k)
         /\ \A m, n \in 1..Len(fromAgent') :
              fromAgent'[m] = Inbound(k) /\ fromAgent'[n] = Inbound(k) => m = n
<1> USE DEF Typed, TypeOK
<1>1. /\ Len(fromAgent') = Len(fromAgent) + 1 /\ Len(fromAgent) \in Nat
      /\ \A n \in 1..Len(fromAgent) + 1 :
           fromAgent'[n] = IF n = Len(fromAgent) + 1 THEN x ELSE fromAgent[n]
  BY AppendType
<1> QED
  BY <1>1 DEF OnWire, OnePlace

\* Reading a line takes that line off the wire, and only that one.
LEMMA WireTail ==
  ASSUME Typed, OnePlace, fromAgent # <<>>, fromAgent' = Tail(fromAgent),
         NEW k \in InReqs
  PROVE  /\ OnWire(k)' => OnWire(k)
         /\ Head(fromAgent) = Inbound(k) => OnWire(k) /\ ~OnWire(k)'
         /\ \A m, n \in 1..Len(fromAgent') :
              fromAgent'[m] = Inbound(k) /\ fromAgent'[n] = Inbound(k) => m = n
<1> USE DEF Typed, TypeOK
<1>1. /\ Len(fromAgent') = Len(fromAgent) - 1 /\ Len(fromAgent) \in Nat
      /\ Len(fromAgent) > 0 /\ Head(fromAgent) = fromAgent[1]
      /\ \A n \in 1..Len(fromAgent) - 1 : fromAgent'[n] = fromAgent[n + 1]
  BY TailType
<1>2. OnWire(k)' => OnWire(k)
  BY <1>1 DEF OnWire
<1>3. ASSUME Head(fromAgent) = Inbound(k) PROVE OnWire(k) /\ ~OnWire(k)'
  <2>1. 1 \in 1..Len(fromAgent) /\ fromAgent[1] = Inbound(k)
    BY <1>1, <1>3
  <2>2. ASSUME NEW n \in 1..Len(fromAgent'), fromAgent'[n] = Inbound(k)
        PROVE  FALSE
    <3>1. n + 1 \in 1..Len(fromAgent) /\ fromAgent[n + 1] = Inbound(k)
      BY <1>1, <2>2
    <3> QED
      BY <2>1, <3>1 DEF OnePlace
  <2> QED
    BY <2>1, <2>2 DEF OnWire
<1>4. ASSUME NEW m \in 1..Len(fromAgent'), NEW n \in 1..Len(fromAgent'),
             fromAgent'[m] = Inbound(k), fromAgent'[n] = Inbound(k)
      PROVE  m = n
  <2>1. /\ m + 1 \in 1..Len(fromAgent) /\ n + 1 \in 1..Len(fromAgent)
        /\ fromAgent[m + 1] = Inbound(k) /\ fromAgent[n + 1] = Inbound(k)
    BY <1>1, <1>4
  <2>2. m + 1 = n + 1
    BY <2>1 DEF OnePlace
  <2> QED
    BY <2>2, <1>1
<1> QED
  BY <1>2, <1>3, <1>4

\* No request has been made of the client yet.
LEMMA OnePlaceInit == Init => OnePlace
BY DEF Init, OnePlace, OnWire, At, Replying

\* Steps that write no reply and read no line keep requests in their place.
LEMMA PlaceKept ==
  ASSUME Typed, OnePlace, UNCHANGED <<replies, asked, deferred>>,
         \A k \in InReqs : reader' = Replying(k) => reader = Replying(k),
         \/ UNCHANGED fromAgent
         \/ fromAgent # <<>> /\ fromAgent' = Tail(fromAgent)
         \/ \E x \in FromLines : /\ fromAgent' = Append(fromAgent, x)
                                 /\ \A k \in InReqs : x # Inbound(k)
  PROVE  OnePlace'
<1> SUFFICES ASSUME NEW k \in InReqs
             PROVE  /\ OnWire(k)' => OnWire(k)
                    /\ \A m, n \in 1..Len(fromAgent') :
                         fromAgent'[m] = Inbound(k) /\ fromAgent'[n] = Inbound(k)
                           => m = n
  BY DEF OnePlace
<1>1. CASE UNCHANGED fromAgent
  BY <1>1 DEF OnWire, OnePlace
<1>2. CASE fromAgent # <<>> /\ fromAgent' = Tail(fromAgent)
  BY <1>2, WireTail
<1>3. CASE \E x \in FromLines : /\ fromAgent' = Append(fromAgent, x)
                                /\ \A j \in InReqs : x # Inbound(j)
  BY <1>3, WireAppend
<1> QED
  BY <1>1, <1>2, <1>3

\* A reply written, or lost to a dead agent, for a request held by nobody
\* else leaves every request in one place.
LEMMA PlaceReplied ==
  ASSUME Typed, OnePlace, UNCHANGED <<asked, fromAgent>>,
         NEW k \in InReqs, WriteReply(k), reader' # Replying(k), k \notin deferred',
         reader = Replying(k) \/ k \in deferred,
         \A j \in InReqs \ {k} : /\ reader' = Replying(j) => reader = Replying(j)
                                 /\ j \in deferred' <=> j \in deferred
  PROVE  OnePlace'
<1> USE DEF Typed, TypeOK
<1>1. replies[k] = 0 /\ ~OnWire(k) /\ k \in asked
  BY DEF OnePlace
<1>2. /\ replies'[k] \in {0, 1}
      /\ \A j \in InReqs \ {k} : replies'[j] = replies[j]
  BY <1>1 DEF WriteReply
<1>3. \A j \in InReqs : OnWire(j)' <=> OnWire(j)
  BY DEF OnWire
<1> SUFFICES ASSUME NEW j \in InReqs
             PROVE  (/\ replies[j] <= 1
                     /\ OnWire(j) => /\ j \in asked /\ replies[j] = 0
                                     /\ reader # Replying(j) /\ j \notin deferred
                     /\ reader = Replying(j) =>
                          j \in asked /\ replies[j] = 0 /\ j \notin deferred
                     /\ j \in deferred => j \in asked /\ replies[j] = 0
                     /\ replies[j] > 0 => j \in asked)'
  BY DEF OnePlace
<1>4. CASE j = k
  BY <1>1, <1>2, <1>3, <1>4
<1>5. CASE j # k
  BY <1>2, <1>3, <1>5 DEF OnePlace
<1> QED
  BY <1>4, <1>5

\* Every step moves a request from one place to the next, never into two.
LEMMA OnePlaceStep == Typed /\ OnePlace /\ [Next]_vars => OnePlace'
<1> SUFFICES ASSUME Typed, OnePlace, [Next]_vars PROVE OnePlace'
  OBVIOUS
<1> USE DEF readVars, agentVars, tableVars, callVars
<1>0. \A k \in InReqs : At("check") # Replying(k) /\ At("read") # Replying(k)
                        /\ At("halted") # Replying(k)
  BY DEF At, Replying
<1>1. ASSUME NEW c \in Calls,
             Begin(c) \/ Send(c) \/ SendFails(c) \/ Timeout(c) \/ Receive(c)
      PROVE  OnePlace'
  BY <1>1, PlaceKept DEF Begin, Send, SendFails, Timeout, Receive
<1>2. CASE CheckStop \/ ReadEOF \/ Deliver
  BY <1>0, <1>2, PlaceKept DEF CheckStop, ReadEOF, Deliver
<1>3. CASE ReadResponse
  <2>1. \A c, d \in Calls, k \in InReqs : Sending(c, d) # Replying(k)
    BY DEF Sending, Replying
  <2> PICK i \in Ids, c \in Calls :
        /\ ReadLine(Response(i, c))
        /\ Dispatch(Response(i, c))
        /\ UNCHANGED <<callVars, chan, deferred, stop, toAgent, agentVars,
                       replies>>
    BY <1>3 DEF ReadResponse
  <2>2. pending[i] = NoCall \/ pending[i] \in Calls
    BY DEF Typed, TypeOK
  <2>3. reader' = At("check") \/ \E ch \in Calls : reader' = Sending(ch, c)
    BY <2>2 DEF Dispatch, Response
  <2> QED
    BY <1>0, <2>1, <2>3, PlaceKept DEF ReadLine
<1>4. CASE ReadInbound
  <2> PICK k \in InReqs :
        /\ ReadLine(Inbound(k))
        /\ HandleInbound(k)
        /\ UNCHANGED <<callVars, tableVars, stop, toAgent, agentVars, replies>>
    BY <1>4 DEF ReadInbound
  <2>1. /\ fromAgent # <<>> /\ fromAgent' = Tail(fromAgent)
        /\ Head(fromAgent) = Inbound(k) /\ reader = At("read")
    BY DEF ReadLine
  <2>2. OnWire(k) /\ ~OnWire(k)'
    BY <2>1, WireTail
  <2>3. k \in asked /\ replies[k] = 0 /\ k \notin deferred
    BY <2>2 DEF OnePlace
  <2>4. \/ reader' = Replying(k) /\ deferred' = deferred
        \/ reader' = At("check") /\ deferred' = deferred \cup {k}
    BY DEF HandleInbound
  <2>5. \A j \in InReqs \ {k} : Replying(k) # Replying(j)
    BY DEF Replying
  <2> SUFFICES ASSUME NEW j \in InReqs
               PROVE  (/\ replies[j] <= 1
                       /\ OnWire(j) => /\ j \in asked /\ replies[j] = 0
                                       /\ reader # Replying(j) /\ j \notin deferred
                       /\ reader = Replying(j) =>
                            j \in asked /\ replies[j] = 0 /\ j \notin deferred
                       /\ j \in deferred => j \in asked /\ replies[j] = 0
                       /\ replies[j] > 0 => j \in asked)'
    BY <2>1, WireTail DEF OnePlace
  <2>6. CASE j = k
    BY <1>0, <2>2, <2>3, <2>4, <2>6 DEF OnePlace
  <2>7. CASE j # k
    <3>1. OnWire(j)' => OnWire(j)
      BY <2>1, WireTail
    <3> QED
      BY <1>0, <2>4, <2>5, <2>7, <3>1 DEF OnePlace
  <2> QED
    BY <2>6, <2>7
<1>5. CASE ReadNoise
  BY <1>0, <1>5, PlaceKept DEF ReadNoise, ReadLine, AfterNoise
<1>6. CASE ReplyInline
  <2>1. reader.req \in InReqs /\ reader = Replying(reader.req)
    BY <1>6, ReaderFields DEF ReplyInline, Typed
  <2>2. reader.req \notin deferred
    BY <2>1 DEF OnePlace
  <2> QED
    BY <1>0, <1>6, <2>1, <2>2, PlaceReplied DEF ReplyInline
<1>7. ASSUME NEW k \in InReqs, ReplyDeferred(k) PROVE OnePlace'
  <2>1. reader # Replying(k)
    BY <1>7 DEF ReplyDeferred, OnePlace
  <2> QED
    BY <1>7, <2>1, PlaceReplied DEF ReplyDeferred
<1>8. ASSUME NEW k \in InReqs, AgentAsk(k) PROVE OnePlace'
  <2> USE <1>8 DEF AgentAsk, AgentWrites
  <2>1. /\ Len(fromAgent') = Len(fromAgent) + 1 /\ Len(fromAgent) \in Nat
        /\ \A n \in 1..Len(fromAgent) + 1 :
             fromAgent'[n] = IF n = Len(fromAgent) + 1 THEN Inbound(k)
                             ELSE fromAgent[n]
    BY AppendType, LineTypes DEF Typed, TypeOK
  <2>2. ~OnWire(k) /\ replies[k] = 0 /\ reader # Replying(k) /\ k \notin deferred
    BY DEF OnePlace, Typed, TypeOK
  <2>3. \A m, n \in 1..Len(fromAgent') :
          fromAgent'[m] = Inbound(k) /\ fromAgent'[n] = Inbound(k) => m = n
    BY <2>1, <2>2 DEF OnWire
  <2>4. \A j \in InReqs \ {k} :
          /\ OnWire(j)' <=> OnWire(j)
          /\ \A m, n \in 1..Len(fromAgent') :
               fromAgent'[m] = Inbound(j) /\ fromAgent'[n] = Inbound(j) => m = n
    <3>1. \A j \in InReqs \ {k} : Inbound(k) # Inbound(j)
      BY DEF Inbound
    <3> QED
      BY <3>1, WireAppend, LineTypes
  <2> QED
    BY <2>2, <2>3, <2>4 DEF OnePlace
<1>9. CASE CloseStop \/ CloseKill \/ AgentRead \/ AgentDies
  BY <1>9, PlaceKept DEF CloseStop, CloseKill, AgentRead, AgentDies
<1>10. CASE AgentAnswer
  <2> PICK r \in heard :
        /\ AgentWrites(Response(r.id, r.of))
        /\ UNCHANGED <<readVars, asked, replies>>
    BY <1>10 DEF AgentAnswer
  <2>1. Response(r.id, r.of) \in FromLines
    BY LineFields, LineTypes DEF Typed, TypeOK
  <2>2. \A j \in InReqs : Response(r.id, r.of) # Inbound(j)
    BY DEF Response, Inbound
  <2> QED
    BY <2>1, <2>2, PlaceKept DEF AgentWrites
<1>11. ASSUME NEW n \in NoiseKinds, AgentNoise(n) PROVE OnePlace'
  <2>1. \A j \in InReqs : Noise(n) # Inbound(j)
    BY DEF Noise, Inbound, NoiseKinds
  <2> QED
    BY <1>11, <2>1, PlaceKept, LineTypes DEF AgentNoise, AgentWrites
<1>12. CASE UNCHANGED vars
  BY <1>12, PlaceKept DEF vars
<1> QED
  BY <1>1, <1>2, <1>3, <1>4, <1>5, <1>6, <1>7, <1>8, <1>9, <1>10, <1>11,
     <1>12
  DEF Next, CallStep, ReaderStep

\* The agent never gets two replies to one request (client.go 375-519).
THEOREM RepliesOnce == Spec => []RepliedOnce
<1>1. Init => Typed /\ OnePlace
  BY TypedInit, OnePlaceInit
<1>2. Typed /\ OnePlace /\ [Next]_vars => (Typed /\ OnePlace)'
  BY TypedStep, OnePlaceStep
<1>3. Typed /\ OnePlace => RepliedOnce
  BY DEF OnePlace, RepliedOnce
<1> QED
  BY <1>1, <1>2, <1>3, PTL DEF Spec
=============================================================================
