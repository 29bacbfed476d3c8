------------------------- MODULE PromptStreamProofs -------------------------
(***************************************************************************)
(* What PromptStream returns and shows, for any number of prompts, updates *)
(* and replayed updates and a pipe of any size.                            *)
(***************************************************************************)
EXTENDS PromptStream, TLAPS

IsUpdate(l, p)   == l.line = "update" /\ l.of = p
IsResponse(l, p) == l.line = "response" /\ l.of = p

\* An update of the history from before the load response.
Early(l) == IsUpdate(l, Load) /\ l.n <= MaxReplay

NoLine(p)     == \A i \in 1..Len(stream) : stream[i].of # p
NoResponse(p) == \A i \in 1..Len(stream) : ~IsResponse(stream[i], p)

\* Updates are withheld while a session is being loaded, and there are no
\* prompts before that is over.
Loading ==
  /\ suppress <=> lpc \in {"call", "drain"}
  /\ lpc # "call" => loadResp # "none"
  /\ active => Loaded
  /\ \A p \in Prompts : ppc[p] # "idle" => Loaded

\* The history: what came before the load response is read before it.
Answered ==
  loadResp # "none" \/ \E i \in 1..Len(stream) : IsResponse(stream[i], Load)

History ==
  /\ Answered => replayed >= MaxReplay
  /\ \A i \in 1..Len(stream) : Early(stream[i]) =>
       /\ loadResp = "none"
       /\ \A j \in 1..i-1 : ~IsResponse(stream[j], Load)
  /\ reader # None => ~Early(reader)
  /\ \A i \in 1..Len(shown) : ~Early(shown[i])
  /\ \A i \in 1..Len(chunks) : ~Early(chunks[i])

\* A prompt is sent, and answered, once at a time, and its response is the
\* last line of it.
Turn(p) ==
  /\ ppc[p] \in {"idle", "entered", "answered"} =>
       p \notin open /\ NoLine(p) /\ sent[p] = <<>>
  /\ ppc[p] = "idle" => tries[p] = 0
  /\ ppc[p] \in {"entered", "answered"} => tries[p] <= 1
  /\ ppc[p] \in {"collected", "done"} => resp[p] \in {"own", "plain"}
  /\ p \in open => NoResponse(p) /\ resp[p] = "none"
  /\ resp[p] # "none" => NoLine(p) /\ (reader # None => reader.of # p)
  /\ resp[p] = "notfound" => sent[p] = <<>>
  /\ \A i, j \in 1..Len(stream) :
       IsResponse(stream[i], p) /\ i < j => stream[j].of # p
  /\ \A i \in 1..Len(stream) :
       IsResponse(stream[i], p) /\ stream[i].status = "notfound" => sent[p] = <<>>

Turns == \A p \in Prompts : Turn(p)

\* One of the updates emitted in all.
Sent(all, u) == u.n \in 1..Len(all) /\ all[u.n] = u

\* Updates are numbered, and only what was emitted is anywhere.
Number(p) ==
  /\ \A i \in 1..Len(sent[p]) : IsUpdate(sent[p][i], p) /\ sent[p][i].n = i
  /\ \A i \in 1..Len(stream) : IsUpdate(stream[i], p) => Sent(sent[p], stream[i])
  /\ reader # None /\ IsUpdate(reader, p) => Sent(sent[p], reader)
  /\ \A i \in 1..Len(shown) : IsUpdate(shown[i], p) => Sent(sent[p], shown[i])

Numbered == \A p \in Prompts : Number(p)

\* The updates of p in a sequence are in order; those of one come before
\* those of another.
Ordered(p, s) ==
  \A j, k \in 1..Len(s) :
    j < k /\ IsUpdate(s[j], p) /\ IsUpdate(s[k], p) => s[j].n < s[k].n

Before(p, s, t) ==
  \A j \in 1..Len(s), k \in 1..Len(t) :
    IsUpdate(s[j], p) /\ IsUpdate(t[k], p) => s[j].n < t[k].n

In(s, u) == \E j \in 1..Len(s) : s[j] = u

\* What was emitted is shown, with the reader or in the stream, in this order.
Streams(p) ==
  /\ \A i \in 1..Len(sent[p]) :
       \/ In(shown, sent[p][i]) \/ In(stream, sent[p][i])
       \/ reader # None /\ reader = sent[p][i]
  /\ Ordered(p, shown) /\ Ordered(p, stream) /\ Before(p, shown, stream)
  /\ reader # None /\ IsUpdate(reader, p) =>
       /\ \A j \in 1..Len(shown) : IsUpdate(shown[j], p) => shown[j].n < reader.n
       /\ \A k \in 1..Len(stream) : IsUpdate(stream[k], p) => reader.n < stream[k].n

Streaming == \A p \in Prompts : Streams(p)

\* No other prompt has anything to do with the agent.
Alone(p) ==
  \A q \in Prompts \ {p} : ppc[q] # "calling" /\ q \notin open /\ NoLine(q)

Clean(p, s) ==
  \A i \in 1..Len(s) :
    IF s[i].of = p THEN IsUpdate(s[i], p) /\ Sent(sent[p], s[i])
    ELSE IsUpdate(s[i], Load) /\ ~Early(s[i])

\* While p has the agent to itself, the buffer is its own.
Buffers(p) ==
  p \notin overlapped /\ ppc[p] = "calling" =>
    /\ active /\ Alone(p) /\ Clean(p, chunks)
    /\ \A i \in 1..Len(sent[p]) : In(chunks, sent[p][i]) \/ In(stream, sent[p][i])
    /\ Ordered(p, chunks) /\ Before(p, chunks, stream)

Buffering == \A p \in Prompts : Buffers(p)

\* And what it has returned stays so.
Collects(p) ==
  p \notin overlapped /\ ppc[p] = "collected" /\ resp[p] = "plain" =>
    /\ Clean(p, text[p])
    /\ \A i \in 1..Len(sent[p]) : In(text[p], sent[p][i])
    /\ Ordered(p, text[p])

Collected == \A p \in Prompts : Collects(p)

IInv == /\ TypeOK /\ Loading /\ History /\ Turns /\ Numbered
        /\ Streaming /\ Buffering /\ Collected

-----------------------------------------------------------------------------
(* Lines *)

\* What lines are made of.
LEMMA LineTypes ==
  /\ \A l \in Lines : l.of \in Owners
  /\ \A u \in Updates : /\ u \in Lines /\ u.line = "update" /\ u.of \in Owners
                        /\ u.n \in Nat \ {0} /\ u.kind \in UpdateKinds
  /\ \A l \in Lines : l.line = "update" => l \in Updates
  /\ \A l \in Lines : l.line # "update" =>
       /\ l.line = "response"
       /\ l.of = Load => l.status \in LoadStatuses
       /\ l.of \in Prompts => l.status \in PromptStatuses
BY ConstantsAssumption DEF Lines, Updates, Owners, LoadStatuses, PromptStatuses

\* An update is a line, and so is a response.
LEMMA MadeLines ==
  /\ \A o \in Owners, n \in Nat \ {0}, k \in UpdateKinds :
       Update(o, n, k) \in Updates
  /\ \A s \in LoadStatuses : Response(Load, s) \in Lines
  /\ \A p \in Prompts, s \in PromptStatuses : Response(p, s) \in Lines
BY DEF Update, Response, Lines, Updates, Owners

\* What reading the next line does to the stream.
LEMMA Taking ==
  ASSUME IInv, NEW l, NextLine(l)
  PROVE  /\ reader = None /\ l \in Lines
         /\ Len(stream) \in Nat \ {0} /\ stream[1] = l
         /\ Len(stream') = Len(stream) - 1
         /\ \A i \in 1..Len(stream') :
              i + 1 \in 1..Len(stream) /\ stream'[i] = stream[i + 1]
<1>1. stream \in Seq(Lines)
  BY DEF IInv, TypeOK, ReaderTypes
<1> QED
  BY <1>1 DEF NextLine

\* What writing a line does to it.
LEMMA Putting ==
  ASSUME IInv, NEW l \in Lines, Emit(l)
  PROVE  /\ Len(stream) \in Nat /\ Len(stream') = Len(stream) + 1
         /\ \A i \in 1..Len(stream) : stream'[i] = stream[i]
         /\ stream'[Len(stream')] = l
         /\ \A i \in 1..Len(stream') : i \in 1..Len(stream) \/ i = Len(stream')
<1>1. stream \in Seq(Lines)
  BY DEF IInv, TypeOK, ReaderTypes
<1> QED
  BY <1>1 DEF Emit

-----------------------------------------------------------------------------
\* At first there is nothing anywhere.
LEMMA IInvInit == Init => IInv
<1> SUFFICES ASSUME Init PROVE IInv
  OBVIOUS
<1>1. TypeOK
  <2>1. ReaderTypes
    BY DEF Init, ReaderTypes
  <2>4. FlagTypes
    BY DEF Init, FlagTypes
  <2>2. PromptTypes
    BY DEF Init, PromptTypes, PromptPlaces
  <2>3. AgentTypes
    BY ConstantsAssumption DEF Init, AgentTypes
  <2> QED
    BY <2>1, <2>2, <2>3, <2>4 DEF TypeOK
<1>2. Loading /\ History
  BY DEF Init, Loading, History, Loaded, Answered
<1>3. Turns /\ Numbered
  BY DEF Init, Turns, Turn, Numbered, Number, NoLine, NoResponse
<1>4. Streaming /\ Buffering /\ Collected
  BY DEF Init, Streaming, Streams, Buffering, Buffers, Collected, Collects,
         Ordered, Before
<1> QED
  BY <1>1, <1>2, <1>3, <1>4 DEF IInv

\* The stream and the reader keep their types.
LEMMA ReaderTypeStep ==
  ASSUME IInv, [Next]_vars
  PROVE  ReaderTypes'
<1>1. ASSUME LoadReturns PROVE ReaderTypes'
  BY <1>1 DEF LoadReturns, EndLoad, clientVars, loadVars, handlerVars,
     agentVars, IInv, TypeOK, ReaderTypes
<1>2. ASSUME DrainPoll PROVE ReaderTypes'
  BY <1>2 DEF DrainPoll, EndLoad, clientVars, loadVars, handlerVars, agentVars,
     IInv, TypeOK, ReaderTypes
<1>3. ASSUME DrainTimesOut PROVE ReaderTypes'
  BY <1>3 DEF DrainTimesOut, EndLoad, clientVars, loadVars, handlerVars,
     agentVars, IInv, TypeOK, ReaderTypes
<1>4. ASSUME NEW p \in Prompts, CallPrompt(p) PROVE ReaderTypes'
  BY <1>4 DEF CallPrompt, Claim, clientVars, loadVars, handlerVars, agentVars,
     IInv, TypeOK, ReaderTypes
<1>5. ASSUME NEW p \in Prompts, Collect(p) PROVE ReaderTypes'
  BY <1>5 DEF Collect, Release, TextOf, clientVars, loadVars, handlerVars,
     agentVars, IInv, TypeOK, ReaderTypes
<1>6. ASSUME NEW p \in Prompts, Fail(p) PROVE ReaderTypes'
  BY <1>6 DEF Fail, Release, clientVars, loadVars, handlerVars, agentVars,
     IInv, TypeOK, ReaderTypes
<1>7. ASSUME NEW u, ReadUpdate(u) PROVE ReaderTypes'
  BY <1>7, LineTypes, MadeLines DEF ReadUpdate, NextLine, Withheld, Buffered,
     clientVars, loadVars, handlerVars, agentVars, IInv, TypeOK, ReaderTypes
<1>8. ASSUME Callback PROVE ReaderTypes'
  BY <1>8 DEF Callback, Capture, clientVars, loadVars, handlerVars, agentVars,
     IInv, TypeOK, ReaderTypes
<1>9. ASSUME NEW s \in LoadStatuses, ReadLoadResponse(s) PROVE ReaderTypes'
  BY <1>9, LineTypes, MadeLines DEF ReadLoadResponse, NextLine, Response,
     clientVars, loadVars, handlerVars, agentVars, IInv, TypeOK, ReaderTypes
<1>10. ASSUME NEW p \in Prompts, NEW s \in PromptStatuses, ReadPromptResponse(p, s)
       PROVE  ReaderTypes'
  BY <1>10, LineTypes, MadeLines DEF ReadPromptResponse, NextLine, Response,
     clientVars, loadVars, handlerVars, agentVars, IInv, TypeOK, ReaderTypes
<1>11. ASSUME AgentReplays PROVE ReaderTypes'
  <2>1. Update(Load, replayed', "chunk") \in Updates \cap Lines
    BY <1>11, LineTypes, MadeLines, ConstantsAssumption
    DEF IInv, TypeOK, AgentTypes, AgentReplays, Owners, UpdateKinds
  <2> QED
    BY <1>11, <2>1 DEF IInv, TypeOK, ReaderTypes, AgentReplays, Emit, clientVars, loadVars
<1>12. ASSUME NEW s \in LoadStatuses, AgentLoads(s) PROVE ReaderTypes'
  BY <1>12, LineTypes, MadeLines DEF AgentLoads, Emit, Response, clientVars,
     loadVars, handlerVars, agentVars, IInv, TypeOK, ReaderTypes
<1>13. ASSUME NEW p \in Prompts, NEW k \in Kinds, AgentUpdates(p, k)
       PROVE  ReaderTypes'
  <2>1. Update(p, Len(sent[p]) + 1, k) \in Updates \cap Lines
    BY <1>13, LineTypes, MadeLines, ConstantsAssumption
    DEF IInv, TypeOK, AgentTypes, Owners
  <2> QED
    BY <1>13, <2>1 DEF IInv, TypeOK, ReaderTypes, AgentUpdates, Emit, clientVars, loadVars
<1>14. ASSUME NEW p \in Prompts, NEW s \in PromptStatuses, AgentAnswers(p, s)
       PROVE  ReaderTypes'
  BY <1>14, LineTypes, MadeLines DEF AgentAnswers, Emit, Response, clientVars,
     loadVars, handlerVars, agentVars, IInv, TypeOK, ReaderTypes
<1>15. ASSUME UNCHANGED <<stream, reader, observed, processed, chunks, shown, lpc, lastSeen, loadResp>>
       PROVE  ReaderTypes'
  BY <1>15 DEF IInv, TypeOK, ReaderTypes
<1> QED
  BY <1>1, <1>2, <1>3, <1>4, <1>5, <1>6, <1>7, <1>8, <1>9, <1>10, <1>11, <1>12,
     <1>13, <1>14, <1>15 DEF Next, ReaderStep, vars, clientVars, loadVars,
     handlerVars, agentVars, Enter, Recreate, Return

\* The flags stay flags.
LEMMA FlagTypeStep ==
  ASSUME IInv, [Next]_vars
  PROVE  FlagTypes'
<1>1. ASSUME LoadReturns PROVE FlagTypes'
  BY <1>1 DEF LoadReturns, EndLoad, clientVars, loadVars, handlerVars,
     agentVars, IInv, TypeOK, FlagTypes
<1>2. ASSUME DrainPoll PROVE FlagTypes'
  BY <1>2 DEF DrainPoll, EndLoad, clientVars, loadVars, handlerVars, agentVars,
     IInv, TypeOK, FlagTypes
<1>3. ASSUME DrainTimesOut PROVE FlagTypes'
  BY <1>3 DEF DrainTimesOut, EndLoad, clientVars, loadVars, handlerVars,
     agentVars, IInv, TypeOK, FlagTypes
<1>4. ASSUME NEW p \in Prompts, CallPrompt(p) PROVE FlagTypes'
  BY <1>4 DEF CallPrompt, Claim, clientVars, loadVars, handlerVars, agentVars,
     IInv, TypeOK, FlagTypes
<1>5. ASSUME NEW p \in Prompts, Collect(p) PROVE FlagTypes'
  BY <1>5 DEF Collect, Release, TextOf, clientVars, loadVars, handlerVars,
     agentVars, IInv, TypeOK, FlagTypes
<1>6. ASSUME NEW p \in Prompts, Fail(p) PROVE FlagTypes'
  BY <1>6 DEF Fail, Release, clientVars, loadVars, handlerVars, agentVars,
     IInv, TypeOK, FlagTypes
<1>7. ASSUME UNCHANGED <<suppress, active>> PROVE FlagTypes'
  BY <1>7 DEF IInv, TypeOK, FlagTypes
<1> QED
  BY <1>1, <1>2, <1>3, <1>4, <1>5, <1>6, <1>7 DEF Next, ReaderStep, vars,
     clientVars, loadVars, handlerVars, agentVars, Enter, Recreate, Return,
     ReadUpdate, NextLine, Callback, Capture, ReadLoadResponse, NextLine,
     ReadPromptResponse, NextLine, AgentReplays, Emit, AgentLoads, Emit,
     AgentUpdates, Emit, AgentAnswers, Emit

\* Prompts and handler keep their types.
LEMMA PromptTypeStep ==
  ASSUME IInv, [Next]_vars
  PROVE  PromptTypes'
<1>1. ASSUME NEW p \in Prompts, Enter(p) PROVE PromptTypes'
  BY <1>1 DEF Enter, clientVars, loadVars, handlerVars, agentVars, IInv,
     TypeOK, PromptTypes, PromptPlaces
<1>2. ASSUME NEW p \in Prompts, CallPrompt(p) PROVE PromptTypes'
  <2>1. tries' \in [Prompts -> 0..2]
    <3>1. tries[p] <= 1
      BY <1>2 DEF IInv, Turns, Turn, CallPrompt
    <3>2. tries' = [tries EXCEPT ![p] = @ + 1]
      BY <1>2 DEF CallPrompt
    <3>3. tries \in [Prompts -> 0..2]
      BY DEF IInv, TypeOK, PromptTypes
    <3> QED
      BY <3>1, <3>2, <3>3
  <2> QED
    BY <1>2, <2>1 DEF CallPrompt, handlerVars, IInv, TypeOK, PromptTypes, PromptPlaces
<1>3. ASSUME NEW p \in Prompts, Collect(p) PROVE PromptTypes'
  BY <1>3 DEF Collect, Release, TextOf, clientVars, loadVars, handlerVars,
     agentVars, IInv, TypeOK, PromptTypes, PromptPlaces, ReaderTypes
<1>4. ASSUME NEW p \in Prompts, Fail(p) PROVE PromptTypes'
  BY <1>4 DEF Fail, Release, clientVars, loadVars, handlerVars, agentVars,
     IInv, TypeOK, PromptTypes, PromptPlaces
<1>5. ASSUME NEW p \in Prompts, Recreate(p) PROVE PromptTypes'
  BY <1>5 DEF Recreate, clientVars, loadVars, handlerVars, agentVars, IInv,
     TypeOK, PromptTypes, PromptPlaces
<1>6. ASSUME NEW p \in Prompts, Return(p) PROVE PromptTypes'
  BY <1>6 DEF Return, HandlerText, Captured, clientVars, loadVars, handlerVars,
     agentVars, IInv, TypeOK, PromptTypes, PromptPlaces
<1>7. ASSUME Callback PROVE PromptTypes'
  <2>1. reader \in Updates
    BY <1>7 DEF Callback, IInv, TypeOK, ReaderTypes
  <2>2. \/ hchunks' = Append(hchunks, reader) /\ hfull' = hfull
        \/ hchunks' = hchunks /\ hfull' \in {reader, hfull}
    BY <1>7 DEF Callback, Capture, handlerVars
  <2> QED
    <3>1. hchunks \in Seq(Updates) /\ hfull \in Updates \cup {None}
      BY DEF IInv, TypeOK, PromptTypes
    <3>2. hchunks' \in Seq(Updates) /\ hfull' \in Updates \cup {None}
      BY <2>1, <2>2, <3>1
    <3> QED
      BY <1>7, <3>2 DEF Callback, IInv, TypeOK, PromptTypes
<1>8. ASSUME NEW p \in Prompts, NEW s \in PromptStatuses, ReadPromptResponse(p, s)
      PROVE  PromptTypes'
  BY <1>8 DEF ReadPromptResponse, NextLine, Response, clientVars, loadVars,
     handlerVars, agentVars, IInv, TypeOK, PromptTypes, PromptPlaces
<1>9. ASSUME UNCHANGED <<ppc, resp, tries, text, result, hchunks, hfull>>
      PROVE  PromptTypes'
  BY <1>9 DEF IInv, TypeOK, PromptTypes, PromptPlaces
<1> QED
  BY <1>1, <1>2, <1>3, <1>4, <1>5, <1>6, <1>7, <1>8, <1>9 DEF Next, ReaderStep,
     vars, clientVars, loadVars, handlerVars, agentVars, LoadReturns, EndLoad,
     DrainPoll, EndLoad, DrainTimesOut, EndLoad, ReadUpdate, NextLine,
     ReadLoadResponse, NextLine, AgentReplays, Emit, AgentLoads, Emit,
     AgentUpdates, Emit, AgentAnswers, Emit

\* The agent keeps its types.
LEMMA AgentTypeStep ==
  ASSUME IInv, [Next]_vars
  PROVE  AgentTypes'
<1>1. ASSUME NEW p \in Prompts, CallPrompt(p) PROVE AgentTypes'
  BY <1>1 DEF CallPrompt, Claim, clientVars, loadVars, handlerVars, agentVars,
     IInv, TypeOK, AgentTypes, Busy
<1>2. ASSUME AgentReplays PROVE AgentTypes'
  BY <1>2, ConstantsAssumption DEF AgentReplays, Emit, Update, clientVars,
     loadVars, handlerVars, agentVars, IInv, TypeOK, AgentTypes
<1>3. ASSUME NEW s \in LoadStatuses, AgentLoads(s) PROVE AgentTypes'
  BY <1>3, ConstantsAssumption DEF AgentLoads, Emit, Response, clientVars,
     loadVars, handlerVars, agentVars, IInv, TypeOK, AgentTypes
<1>4. ASSUME NEW p \in Prompts, NEW k \in Kinds, AgentUpdates(p, k)
      PROVE  AgentTypes'
  <2>1. Update(p, Len(sent[p]) + 1, k) \in Updates \cap Lines
    BY <1>4, LineTypes, MadeLines, ConstantsAssumption
    DEF IInv, TypeOK, AgentTypes, Owners
  <2> QED
    BY <1>4, <2>1 DEF IInv, TypeOK, AgentTypes, AgentUpdates, Emit, clientVars, loadVars
<1>5. ASSUME NEW p \in Prompts, NEW s \in PromptStatuses, AgentAnswers(p, s)
      PROVE  AgentTypes'
  BY <1>5 DEF AgentAnswers, Emit, Response, clientVars, loadVars, handlerVars,
     agentVars, IInv, TypeOK, AgentTypes
<1>6. ASSUME UNCHANGED <<open, overlapped, sent, replayed>> PROVE AgentTypes'
  BY <1>6 DEF IInv, TypeOK, AgentTypes
<1> QED
  BY <1>1, <1>2, <1>3, <1>4, <1>5, <1>6 DEF Next, ReaderStep, vars, clientVars,
     loadVars, handlerVars, agentVars, LoadReturns, EndLoad, DrainPoll,
     EndLoad, DrainTimesOut, EndLoad, Enter, Collect, Release, Fail, Release,
     Recreate, Return, ReadUpdate, NextLine, Callback, Capture,
     ReadLoadResponse, NextLine, ReadPromptResponse, NextLine

\* The suppression and the prompts keep to the load.
LEMMA LoadingStep ==
  ASSUME IInv, [Next]_vars
  PROVE  Loading'
<1>1. ASSUME LoadReturns PROVE Loading'
  <2> USE DEF LoadReturns, IInv, Loading, Loaded
  <2>1. CASE EndLoad("failed")
    BY <1>1, <2>1 DEF EndLoad
  <2>2. CASE lpc' = "drain" /\ suppress' = suppress
    <3>1. suppress /\ active' = active
      BY <1>1
    <3> QED
      BY <1>1, <2>2, <3>1
  <2> QED
    BY <1>1, <2>1, <2>2
<1>2. ASSUME DrainPoll PROVE Loading'
  BY <1>2 DEF DrainPoll, EndLoad, clientVars, loadVars, handlerVars, agentVars,
     IInv, TypeOK, Loading, Loaded
<1>3. ASSUME DrainTimesOut PROVE Loading'
  BY <1>3 DEF DrainTimesOut, EndLoad, clientVars, loadVars, handlerVars,
     agentVars, IInv, TypeOK, Loading, Loaded
<1>4. ASSUME NEW p \in Prompts, Enter(p) PROVE Loading'
  BY <1>4 DEF Enter, clientVars, loadVars, handlerVars, agentVars, IInv,
     TypeOK, Loading, Loaded, PromptTypes
<1>5. ASSUME NEW p \in Prompts, CallPrompt(p) PROVE Loading'
  BY <1>5 DEF CallPrompt, Claim, clientVars, loadVars, handlerVars, agentVars,
     IInv, TypeOK, Loading, Loaded, PromptTypes
<1>6. ASSUME NEW p \in Prompts, Collect(p) PROVE Loading'
  BY <1>6 DEF Collect, Release, TextOf, clientVars, loadVars, handlerVars,
     agentVars, IInv, TypeOK, Loading, Loaded, PromptTypes
<1>7. ASSUME NEW p \in Prompts, Fail(p) PROVE Loading'
  BY <1>7 DEF Fail, Release, clientVars, loadVars, handlerVars, agentVars,
     IInv, TypeOK, Loading, Loaded, PromptTypes
<1>8. ASSUME NEW p \in Prompts, Recreate(p) PROVE Loading'
  BY <1>8 DEF Recreate, clientVars, loadVars, handlerVars, agentVars, IInv,
     TypeOK, Loading, Loaded, PromptTypes
<1>9. ASSUME NEW p \in Prompts, Return(p) PROVE Loading'
  BY <1>9 DEF Return, HandlerText, Captured, clientVars, loadVars, handlerVars,
     agentVars, IInv, TypeOK, Loading, Loaded, PromptTypes
<1>10. ASSUME NEW s \in LoadStatuses, ReadLoadResponse(s) PROVE Loading'
  BY <1>10 DEF ReadLoadResponse, NextLine, Response, clientVars, loadVars,
     handlerVars, agentVars, IInv, TypeOK, Loading, Loaded, LoadStatuses
<1>11. ASSUME UNCHANGED <<suppress, lpc, loadResp, active, ppc>> PROVE Loading'
  BY <1>11 DEF IInv, TypeOK, Loading, Loaded
<1> QED
  BY <1>1, <1>2, <1>3, <1>4, <1>5, <1>6, <1>7, <1>8, <1>9, <1>10, <1>11 DEF
     Next, ReaderStep, vars, clientVars, loadVars, handlerVars, agentVars,
     ReadUpdate, NextLine, Callback, Capture, ReadPromptResponse, NextLine,
     AgentReplays, Emit, AgentLoads, Emit, AgentUpdates, Emit, AgentAnswers,
     Emit

\* Reading a line, or writing one that is not early, leaves the early ones
\* ahead of the load response.
LEMMA EarlyTaken ==
  ASSUME IInv, NEW l, NextLine(l), loadResp' = loadResp
  PROVE  \A i \in 1..Len(stream') : Early(stream'[i]) =>
       loadResp' = "none" /\ \A j \in 1..i-1 : ~IsResponse(stream'[j], Load)
<1> SUFFICES ASSUME NEW i \in 1..Len(stream'), Early(stream'[i])
             PROVE  loadResp = "none" /\ \A j \in 1..i-1 : ~IsResponse(stream'[j], Load)
  OBVIOUS
<1>1. i + 1 \in 1..Len(stream) /\ Early(stream[i + 1])
  BY Taking
<1>2. loadResp = "none" /\ \A j \in 1..(i + 1) - 1 : ~IsResponse(stream[j], Load)
  BY <1>1 DEF IInv, History
<1>3. \A j \in 1..i-1 : j + 1 \in 1..(i + 1) - 1 /\ stream'[j] = stream[j + 1]
  BY <1>1, Taking
<1> QED
  BY <1>2, <1>3

LEMMA EarlyPut ==
  ASSUME IInv, NEW l \in Lines, Emit(l), ~Early(l), loadResp' = loadResp
  PROVE  \A i \in 1..Len(stream') : Early(stream'[i]) =>
       loadResp' = "none" /\ \A j \in 1..i-1 : ~IsResponse(stream'[j], Load)
<1> SUFFICES ASSUME NEW i \in 1..Len(stream'), Early(stream'[i])
             PROVE  loadResp = "none" /\ \A j \in 1..i-1 : ~IsResponse(stream'[j], Load)
  OBVIOUS
<1>1. i \in 1..Len(stream) /\ Early(stream[i])
  BY Putting
<1>2. \A j \in 1..i-1 : stream'[j] = stream[j]
  BY <1>1, Putting
<1> QED
  BY <1>1, <1>2 DEF IInv, History

\* What was replayed before the load response stays behind it.
LEMMA HistoryStep ==
  ASSUME IInv, [Next]_vars
  PROVE  History'
<1>1. ASSUME NEW p \in Prompts, CallPrompt(p) PROVE History'
  <2>1. chunks' = <<>> /\ UNCHANGED <<stream, loadResp, replayed, reader, shown>>
    BY <1>1 DEF CallPrompt, Claim, agentVars
  <2> QED
    BY <2>1 DEF IInv, History, Answered
<1>2. ASSUME NEW p \in Prompts, Collect(p) PROVE History'
  <2>1. chunks' = <<>> /\ UNCHANGED <<stream, loadResp, replayed, reader, shown>>
    BY <1>2 DEF Collect, Release, agentVars
  <2> QED
    BY <2>1 DEF IInv, History, Answered
<1>3. ASSUME NEW p \in Prompts, Fail(p) PROVE History'
  <2>1. chunks' = <<>> /\ UNCHANGED <<stream, loadResp, replayed, reader, shown>>
    BY <1>3 DEF Fail, Release, agentVars
  <2> QED
    BY <2>1 DEF IInv, History, Answered
<1>4. ASSUME NEW u, ReadUpdate(u) PROVE History'
  <2>1. /\ u \in Updates /\ chunks \in Seq(Updates) /\ chunks' \in {chunks, Append(chunks, u)}
        /\ reader' \in {reader, u} /\ UNCHANGED <<loadResp, replayed, shown>>
    BY <1>4, Taking, LineTypes DEF ReadUpdate, Buffered, agentVars, IInv, TypeOK, ReaderTypes
  <2>2. Early(u) => reader' = reader /\ chunks' = chunks
    <3>1. ASSUME Early(u) PROVE loadResp = "none"
      BY <1>4, <3>1, Taking DEF ReadUpdate, IInv, History
    <3>2. ASSUME loadResp = "none" PROVE suppress /\ ~active
      BY <3>2 DEF IInv, TypeOK, ReaderTypes, Loading, Loaded
    <3> QED
      BY <1>4, <3>1, <3>2 DEF ReadUpdate, Buffered, Withheld
  <2>3. Answered' => Answered
    BY <1>4, <2>1, Taking DEF ReadUpdate, Answered
  <2>4. \A i \in 1..Len(chunks') : ~Early(chunks'[i])
    BY <2>1, <2>2 DEF IInv, History
  <2>5. \A i \in 1..Len(stream') : Early(stream'[i]) =>
           loadResp' = "none" /\ \A j \in 1..i-1 : ~IsResponse(stream'[j], Load)
    BY <1>4, <2>1, EarlyTaken DEF ReadUpdate
  <2> QED
    BY <2>1, <2>2, <2>3, <2>4, <2>5 DEF IInv, History, Early
<1>5. ASSUME Callback PROVE History'
  <2>1. /\ shown \in Seq(Updates) /\ reader \in Updates /\ reader # None
        /\ shown' = Append(shown, reader) /\ reader' = None
        /\ UNCHANGED <<stream, loadResp, replayed, chunks>>
    BY <1>5 DEF Callback, agentVars, IInv, TypeOK, ReaderTypes
  <2>2. \A i \in 1..Len(shown') : ~Early(shown'[i])
    BY <2>1 DEF IInv, History
  <2> QED
    BY <2>1, <2>2 DEF IInv, History, Answered
<1>6. ASSUME NEW s \in LoadStatuses, ReadLoadResponse(s) PROVE History'
  <2>1. loadResp' # "none" /\ UNCHANGED <<reader, replayed, shown, chunks>>
    BY <1>6 DEF ReadLoadResponse, clientVars, agentVars, LoadStatuses
  <2>2. IsResponse(stream[1], Load) /\ Len(stream) >= 1
    BY <1>6, Taking DEF ReadLoadResponse, Response, IsResponse
  <2>3. Answered
    BY <2>2, Taking, <1>6 DEF Answered, ReadLoadResponse
  <2>4. \A i \in 1..Len(stream') : ~Early(stream'[i])
    <3> SUFFICES ASSUME NEW i \in 1..Len(stream') PROVE ~Early(stream'[i])
      OBVIOUS
    <3>1. i + 1 \in 1..Len(stream) /\ stream'[i] = stream[i + 1] /\ 1 \in 1..(i + 1) - 1
      BY <1>6, Taking DEF ReadLoadResponse
    <3> QED
      BY <3>1, <2>2 DEF IInv, History
  <2> QED
    BY <2>1, <2>3, <2>4 DEF IInv, History, Early
<1>7. ASSUME NEW p \in Prompts, NEW s \in PromptStatuses, ReadPromptResponse(p, s)
      PROVE  History'
  <2>1. UNCHANGED <<loadResp, reader, replayed, shown, chunks>>
    BY <1>7 DEF ReadPromptResponse, clientVars, agentVars
  <2>2. Answered' => Answered
    BY <1>7, <2>1, Taking DEF ReadPromptResponse, Answered
  <2>3. \A i \in 1..Len(stream') : Early(stream'[i]) =>
           loadResp' = "none" /\ \A j \in 1..i-1 : ~IsResponse(stream'[j], Load)
    BY <1>7, <2>1, EarlyTaken DEF ReadPromptResponse
  <2> QED
    BY <2>1, <2>2, <2>3 DEF IInv, History, Early
<1>8. ASSUME AgentReplays PROVE History'
  <2> DEFINE l == Update(Load, replayed', "chunk")
  <2>1. l \in Lines /\ Emit(l) /\ UNCHANGED <<loadResp, reader, shown, chunks>>
    BY <1>8, LineTypes, MadeLines, ConstantsAssumption
    DEF AgentReplays, clientVars, IInv, TypeOK, AgentTypes, Owners, UpdateKinds
  <2>2. /\ l.line = "update" /\ l.n = replayed' /\ replayed' = replayed + 1
        /\ replayed \in Nat /\ MaxReplay \in Nat
    BY <1>8, ConstantsAssumption DEF AgentReplays, Update, IInv, TypeOK, AgentTypes
  <2> HIDE DEF l
  <2>3. Answered' => Answered
    BY <2>1, <2>2, Putting DEF Answered, IsResponse
  <2>4. Early(l) => ~Answered
    BY <2>2 DEF Early, IInv, History
  <2>5. \A i \in 1..Len(stream') : Early(stream'[i]) =>
           loadResp' = "none" /\ \A j \in 1..i-1 : ~IsResponse(stream'[j], Load)
    <3> SUFFICES ASSUME NEW i \in 1..Len(stream'), Early(stream'[i])
                 PROVE  loadResp' = "none" /\ \A j \in 1..i-1 : ~IsResponse(stream'[j], Load)
      OBVIOUS
    <3>1. CASE i \in 1..Len(stream)
      BY <2>1, <3>1, Putting DEF IInv, History
    <3>2. CASE i = Len(stream')
      BY <2>1, <2>4, <3>2, Putting DEF Answered
    <3> QED
      BY <2>1, <3>1, <3>2, Putting
  <2> QED
    BY <2>1, <2>2, <2>3, <2>5 DEF IInv, History, Early
<1>9. ASSUME NEW s \in LoadStatuses, AgentLoads(s) PROVE History'
  <2> DEFINE l == Response(Load, s)
  <2>1. l \in Lines /\ Emit(l) /\ UNCHANGED <<loadResp, reader, shown, chunks>>
    BY <1>9, MadeLines DEF AgentLoads, clientVars
  <2>2. ~Early(l)
    BY DEF Early, IsUpdate, Response
  <2>3. replayed' = MaxReplay /\ MaxReplay \in Nat
    BY <1>9, ConstantsAssumption DEF AgentLoads
  <2> HIDE DEF l
  <2>4. \A i \in 1..Len(stream') : Early(stream'[i]) =>
           loadResp' = "none" /\ \A j \in 1..i-1 : ~IsResponse(stream'[j], Load)
    BY <2>1, <2>2, EarlyPut
  <2> QED
    BY <2>1, <2>3, <2>4 DEF IInv, History, Early
<1>10. ASSUME NEW p \in Prompts, NEW k \in Kinds, AgentUpdates(p, k) PROVE History'
  <2> DEFINE l == Update(p, Len(sent[p]) + 1, k)
  <2>1. l \in Lines /\ Emit(l) /\ UNCHANGED <<loadResp, reader, replayed, shown, chunks>>
    BY <1>10, LineTypes, MadeLines, ConstantsAssumption
    DEF AgentUpdates, IInv, TypeOK, AgentTypes, Owners, clientVars, agentVars
  <2>2. ~Early(l) /\ ~IsResponse(l, Load)
    BY ConstantsAssumption DEF Early, IsUpdate, IsResponse, Response, Update
  <2> HIDE DEF l
  <2>3. Answered' => Answered
    BY <2>1, <2>2, Putting DEF Answered
  <2>4. \A i \in 1..Len(stream') : Early(stream'[i]) =>
           loadResp' = "none" /\ \A j \in 1..i-1 : ~IsResponse(stream'[j], Load)
    BY <2>1, <2>2, EarlyPut
  <2> QED
    BY <2>1, <2>3, <2>4 DEF IInv, History, Early
<1>11. ASSUME NEW p \in Prompts, NEW s \in PromptStatuses, AgentAnswers(p, s)
       PROVE  History'
  <2> DEFINE l == Response(p, s)
  <2>1. l \in Lines /\ Emit(l) /\ UNCHANGED <<loadResp, reader, replayed, shown, chunks>>
    BY <1>11, MadeLines
    DEF AgentAnswers, clientVars, agentVars
  <2>2. ~Early(l) /\ ~IsResponse(l, Load)
    BY ConstantsAssumption DEF Early, IsUpdate, IsResponse, Response, Update
  <2> HIDE DEF l
  <2>3. Answered' => Answered
    BY <2>1, <2>2, Putting DEF Answered
  <2>4. \A i \in 1..Len(stream') : Early(stream'[i]) =>
           loadResp' = "none" /\ \A j \in 1..i-1 : ~IsResponse(stream'[j], Load)
    BY <2>1, <2>2, EarlyPut
  <2> QED
    BY <2>1, <2>3, <2>4 DEF IInv, History, Early
<1>12. ASSUME UNCHANGED <<stream, loadResp, replayed, reader, shown, chunks>>
       PROVE  History'
  BY <1>12 DEF IInv, History, Answered
<1> QED
  BY <1>1, <1>2, <1>3, <1>4, <1>5, <1>6, <1>7, <1>8, <1>9, <1>10, <1>11, <1>12
     DEF Next, ReaderStep, vars, clientVars, loadVars, handlerVars, agentVars,
     LoadReturns, EndLoad, DrainPoll, EndLoad, DrainTimesOut, EndLoad, Enter,
     Recreate, Return

\* Reading a line disturbs no turn, unless it is the reader's or a response.
LEMMA TurnTaken ==
  ASSUME IInv, NEW l, NextLine(l), NEW r \in Prompts,
         UNCHANGED <<ppc, open, sent, tries>>, resp'[r] = resp[r],
         resp[r] # "none" => (reader' # None => reader'.of # r)
  PROVE  Turn(r)'
<1>1. NoLine(r) => NoLine(r)'
  BY Taking DEF NoLine
<1>2. NoResponse(r) => NoResponse(r)'
  BY Taking DEF NoResponse
<1>3. \A i, j \in 1..Len(stream') :
        IsResponse(stream'[i], r) /\ i < j => stream'[j].of # r
  <2> SUFFICES ASSUME NEW i \in 1..Len(stream'), NEW j \in 1..Len(stream'),
                      IsResponse(stream'[i], r), i < j
               PROVE  stream'[j].of # r
    OBVIOUS
  <2>1. /\ i + 1 \in 1..Len(stream) /\ stream'[i] = stream[i + 1]
        /\ j + 1 \in 1..Len(stream) /\ stream'[j] = stream[j + 1] /\ i + 1 < j + 1
    BY Taking
  <2> QED
    BY <2>1 DEF IInv, Turns, Turn
<1>4. \A i \in 1..Len(stream') :
        IsResponse(stream'[i], r) /\ stream'[i].status = "notfound" => sent[r] = <<>>
  BY Taking DEF IInv, Turns, Turn
<1> QED
  BY <1>1, <1>2, <1>3, <1>4 DEF IInv, Turns, Turn

\* Neither does writing a line of another owner.
LEMMA TurnPut ==
  ASSUME IInv, NEW l \in Lines, Emit(l), NEW r \in Prompts, l.of # r,
         UNCHANGED <<ppc, tries, resp, reader>>, sent'[r] = sent[r],
         r \in open' <=> r \in open
  PROVE  Turn(r)'
<1>1. NoLine(r) => NoLine(r)'
  BY Putting DEF NoLine
<1>2. NoResponse(r) => NoResponse(r)'
  BY Putting DEF NoResponse, IsResponse
<1>3. \A i, j \in 1..Len(stream') :
        IsResponse(stream'[i], r) /\ i < j => stream'[j].of # r
  BY Putting DEF IInv, Turns, Turn
<1>4. \A i \in 1..Len(stream') :
        IsResponse(stream'[i], r) /\ stream'[i].status = "notfound" => sent[r] = <<>>
  BY Putting DEF IInv, Turns, Turn, IsResponse
<1> QED
  BY <1>1, <1>2, <1>3, <1>4 DEF IInv, Turns, Turn

\* A prompt is sent, and answered, once at a time.
LEMMA TurnStep ==
  ASSUME IInv, NEW r \in Prompts, [Next]_vars
  PROVE  Turn(r)'
<1>1. ASSUME NEW p \in Prompts, Enter(p) PROVE Turn(r)'
  <2>1. UNCHANGED <<stream, reader, open, sent>>
    BY <1>1 DEF Enter, agentVars
  <2>2. CASE r = p
    BY <1>1, <2>1, <2>2 DEF Enter, IInv, Turns, Turn, NoLine, NoResponse, TypeOK, PromptTypes
  <2>3. CASE r # p
    BY <1>1, <2>1, <2>3 DEF Enter, IInv, Turns, Turn, NoLine, NoResponse, TypeOK, PromptTypes
  <2> QED
    BY <2>2, <2>3
<1>2. ASSUME NEW p \in Prompts, CallPrompt(p) PROVE Turn(r)'
  <2>1. UNCHANGED <<stream, reader, sent>> /\ open' = open \cup {p}
    BY <1>2 DEF CallPrompt
  <2>2. CASE r = p
    <3>1. /\ ppc[p] = "entered" /\ ppc'[p] = "calling" /\ resp'[p] = "none"
          /\ tries'[p] = tries[p] + 1
      BY <1>2 DEF CallPrompt, IInv, TypeOK, PromptTypes
    <3>2. NoLine(p) /\ sent[p] = <<>>
      BY <3>1 DEF IInv, Turns, Turn
    <3> QED
      BY <2>1, <2>2, <3>1, <3>2 DEF Turn, NoLine, NoResponse, IsResponse
  <2>3. CASE r # p
    <3>1. UNCHANGED <<ppc[r], resp[r], tries[r]>> /\ (r \in open' <=> r \in open)
      BY <1>2, <2>1, <2>3 DEF CallPrompt, IInv, TypeOK, PromptTypes
    <3> QED
      BY <2>1, <3>1 DEF IInv, Turns, Turn, NoLine, NoResponse
  <2> QED
    BY <2>2, <2>3
<1>3. ASSUME NEW p \in Prompts, Collect(p) PROVE Turn(r)'
  <2>1. UNCHANGED <<stream, reader, open, sent>>
    BY <1>3 DEF Collect, agentVars
  <2>2. CASE r = p
    BY <1>3, <2>1, <2>2 DEF Collect, IInv, Turns, Turn, NoLine, NoResponse, TypeOK, PromptTypes
  <2>3. CASE r # p
    BY <1>3, <2>1, <2>3 DEF Collect, IInv, Turns, Turn, NoLine, NoResponse, TypeOK, PromptTypes
  <2> QED
    BY <2>2, <2>3
<1>4. ASSUME NEW p \in Prompts, Fail(p) PROVE Turn(r)'
  <2>1. UNCHANGED <<stream, reader, open, sent, resp, tries>>
    BY <1>4 DEF Fail, agentVars
  <2>2. CASE r = p
    <3>1. ppc'[p] = IF resp[p] = "notfound" /\ tries[p] < 2 THEN "answered" ELSE "failed"
      BY <1>4 DEF Fail, IInv, TypeOK, PromptTypes
    <3>2. tries[p] \in 0..2
      BY DEF IInv, TypeOK, PromptTypes
    <3> QED
      BY <2>1, <2>2, <3>1, <3>2 DEF IInv, Turns, Turn, NoLine, NoResponse
  <2>3. CASE r # p
    <3>1. ppc'[r] = ppc[r]
      BY <1>4, <2>3 DEF Fail, IInv, TypeOK, PromptTypes
    <3> QED
      BY <2>1, <3>1 DEF IInv, Turns, Turn, NoLine, NoResponse
  <2> QED
    BY <2>2, <2>3
<1>5. ASSUME NEW p \in Prompts, Recreate(p) PROVE Turn(r)'
  <2>1. UNCHANGED <<stream, reader, open, sent>>
    BY <1>5 DEF Recreate, agentVars
  <2>2. CASE r = p
    BY <1>5, <2>1, <2>2 DEF Recreate, IInv, Turns, Turn, NoLine, NoResponse, TypeOK, PromptTypes
  <2>3. CASE r # p
    BY <1>5, <2>1, <2>3 DEF Recreate, IInv, Turns, Turn, NoLine, NoResponse, TypeOK, PromptTypes
  <2> QED
    BY <2>2, <2>3
<1>6. ASSUME NEW p \in Prompts, Return(p) PROVE Turn(r)'
  <2>1. UNCHANGED <<stream, reader, open, sent>>
    BY <1>6 DEF Return, agentVars
  <2>2. CASE r = p
    BY <1>6, <2>1, <2>2 DEF Return, IInv, Turns, Turn, NoLine, NoResponse, TypeOK, PromptTypes
  <2>3. CASE r # p
    BY <1>6, <2>1, <2>3 DEF Return, IInv, Turns, Turn, NoLine, NoResponse, TypeOK, PromptTypes
  <2> QED
    BY <2>2, <2>3
<1>7. ASSUME NEW u, ReadUpdate(u) PROVE Turn(r)'
  <2>1. /\ UNCHANGED <<ppc, open, sent, tries, resp>> /\ reader' \in {reader, u}
        /\ reader = None
    BY <1>7, Taking DEF ReadUpdate, agentVars
  <2>2. resp[r] # "none" => u.of # r
    BY <1>7, Taking DEF ReadUpdate, IInv, Turns, Turn, NoLine
  <2>3. NextLine(u)
    BY <1>7 DEF ReadUpdate
  <2> QED
    BY <2>1, <2>2, <2>3, TurnTaken
<1>8. ASSUME Callback PROVE Turn(r)'
  <2>1. UNCHANGED <<stream, ppc, open, sent, tries, resp>> /\ reader' = None
    BY <1>8 DEF Callback, agentVars
  <2> QED
    BY <2>1 DEF IInv, Turns, Turn, NoLine, NoResponse
<1>9. ASSUME NEW s \in LoadStatuses, ReadLoadResponse(s) PROVE Turn(r)'
  <2>1. UNCHANGED <<ppc, open, sent, tries, resp, reader>> /\ NextLine(Response(Load, s))
    BY <1>9 DEF ReadLoadResponse, agentVars
  <2> QED
    BY <2>1, Taking, TurnTaken
<1>10. ASSUME NEW p \in Prompts, NEW s \in PromptStatuses, ReadPromptResponse(p, s)
       PROVE  Turn(r)'
  <2>1. UNCHANGED <<ppc, open, sent, tries, reader>> /\ NextLine(Response(p, s))
    BY <1>10 DEF ReadPromptResponse, agentVars
  <2>2. CASE resp'[r] = resp[r]
    BY <2>1, <2>2, Taking, TurnTaken
  <2>3. CASE r = p /\ ppc[p] = "calling" /\ resp'[r] = s
    <3>1. reader = None /\ 1 \in 1..Len(stream) /\ IsResponse(stream[1], p) /\ stream[1].status = s
      BY <2>1, Taking DEF IsResponse, Response
    <3>2. r \notin open /\ (s = "notfound" => sent[r] = <<>>)
      BY <2>3, <3>1 DEF IInv, Turns, Turn, NoResponse
    <3>3. NoLine(r)'
      <4>1. ASSUME NEW j \in 2..Len(stream) PROVE stream[j].of # r
        BY <2>3, <3>1 DEF IInv, Turns, Turn
      <4> QED
        BY <2>1, <4>1, Taking DEF NoLine
    <3> QED
      BY <2>1, <2>3, <3>1, <3>2, <3>3 DEF Turn, NoLine, IsResponse
  <2> QED
    BY <1>10, <2>2, <2>3 DEF ReadPromptResponse, IInv, TypeOK, PromptTypes
<1>11. ASSUME AgentReplays PROVE Turn(r)'
  <2> DEFINE l == Update(Load, replayed', "chunk")
  <2>1. l \in Lines /\ l.of = Load
    <3>1. l \in Updates
      BY <1>11, MadeLines, ConstantsAssumption
      DEF AgentReplays, IInv, TypeOK, AgentTypes, Owners, UpdateKinds
    <3> QED
      BY <3>1, LineTypes DEF Update
  <2>2. Emit(l) /\ UNCHANGED <<ppc, tries, resp, reader, sent, open>>
    BY <1>11 DEF AgentReplays
  <2> HIDE DEF l
  <2> QED
    BY <2>1, <2>2, TurnPut, ConstantsAssumption
<1>12. ASSUME NEW s \in LoadStatuses, AgentLoads(s) PROVE Turn(r)'
  <2> DEFINE l == Response(Load, s)
  <2>1. l \in Lines /\ l.of = Load
    BY MadeLines DEF Response
  <2>2. Emit(l) /\ UNCHANGED <<ppc, tries, resp, reader, sent, open>>
    BY <1>12 DEF AgentLoads
  <2> HIDE DEF l
  <2> QED
    BY <2>1, <2>2, TurnPut, ConstantsAssumption
<1>13. ASSUME NEW p \in Prompts, NEW k \in Kinds, AgentUpdates(p, k) PROVE Turn(r)'
  <2> DEFINE l == Update(p, Len(sent[p]) + 1, k)
  <2>1. l \in Lines /\ l.of = p /\ l.line = "update"
    <3>1. l \in Updates
      BY <1>13, MadeLines, ConstantsAssumption DEF IInv, TypeOK, AgentTypes, Owners
    <3> QED
      BY <3>1, LineTypes DEF Update
  <2>2. /\ Emit(l) /\ p \in open /\ sent' = [sent EXCEPT ![p] = Append(@, l)]
        /\ UNCHANGED <<ppc, tries, resp, reader, open>>
    BY <1>13 DEF AgentUpdates
  <2> HIDE DEF l
  <2>3. CASE r # p
    <3>1. sent'[r] = sent[r]
      BY <2>2, <2>3 DEF IInv, TypeOK, AgentTypes
    <3> QED
      BY <2>1, <2>2, <2>3, <3>1, TurnPut
  <2>4. CASE r = p
    <3>1. /\ ppc[p] \notin {"idle", "entered", "answered"}
          /\ NoResponse(p) /\ resp[p] = "none"
      BY <2>2 DEF IInv, Turns, Turn
    <3>2. NoResponse(p)'
      BY <2>1, <2>2, <3>1, Putting DEF NoResponse, IsResponse
    <3>3. \A i \in 1..Len(stream') : ~IsResponse(stream'[i], p)
      BY <3>2 DEF NoResponse
    <3>4. ppc[p] \in {"collected", "done"} => resp[p] \in {"own", "plain"}
      BY DEF IInv, Turns, Turn
    <3> QED
      BY <2>2, <2>4, <3>1, <3>2, <3>3, <3>4 DEF Turn
  <2> QED
    BY <2>3, <2>4
<1>14. ASSUME NEW p \in Prompts, NEW s \in PromptStatuses, AgentAnswers(p, s)
       PROVE  Turn(r)'
  <2> DEFINE l == Response(p, s)
  <2>1. l \in Lines /\ l.of = p /\ IsResponse(l, p) /\ l.status = s
    BY <1>14, MadeLines DEF Response, IsResponse
  <2>2. /\ Emit(l) /\ p \in open /\ open' = open \ {p}
        /\ s = "notfound" => sent[p] = <<>>
        /\ UNCHANGED <<ppc, tries, resp, reader, sent>>
    BY <1>14 DEF AgentAnswers
  <2> HIDE DEF l
  <2>3. CASE r # p
    BY <2>1, <2>2, <2>3, TurnPut
  <2>4. CASE r = p
    <3>1. /\ ppc[p] \notin {"idle", "entered", "answered"}
          /\ \A i \in 1..Len(stream) : ~IsResponse(stream[i], p)
          /\ resp[p] = "none"
      BY <2>2 DEF IInv, Turns, Turn, NoResponse
    <3>2. \A i \in 1..Len(stream') : IsResponse(stream'[i], p) =>
            i = Len(stream') /\ stream'[i] = l
      BY <2>1, <2>2, <3>1, Putting
    <3>3. ppc[p] \in {"collected", "done"} => resp[p] \in {"own", "plain"}
      BY DEF IInv, Turns, Turn
    <3>4. \A i, j \in 1..Len(stream') :
            IsResponse(stream'[i], r) /\ i < j => stream'[j].of # r
      BY <2>1, <2>2, <2>4, <3>2, Putting
    <3> QED
      BY <2>1, <2>2, <2>4, <3>1, <3>2, <3>3, <3>4 DEF Turn
  <2> QED
    BY <2>3, <2>4
<1>15. ASSUME UNCHANGED <<ppc, open, stream, sent, tries, resp, reader>>
       PROVE  Turn(r)'
  BY <1>15 DEF IInv, Turns, Turn, NoLine, NoResponse
<1> QED
  BY <1>1, <1>2, <1>3, <1>4, <1>5, <1>6, <1>7, <1>8, <1>9, <1>10, <1>11, <1>12,
     <1>13, <1>14, <1>15 DEF Next, ReaderStep, vars, clientVars, loadVars,
     handlerVars, agentVars, LoadReturns, EndLoad, DrainPoll, EndLoad,
     DrainTimesOut, EndLoad

\* Updates are numbered, and only what was emitted is anywhere.
LEMMA NumberStep ==
  ASSUME IInv, NEW r \in Prompts, [Next]_vars
  PROVE  Number(r)'
<1>1. ASSUME NEW u, ReadUpdate(u) PROVE Number(r)'
  <2>1. /\ UNCHANGED <<sent, shown>> /\ NextLine(u) /\ reader' \in {reader, u}
    BY <1>1 DEF ReadUpdate, agentVars
  <2>2. IsUpdate(u, r) => Sent(sent[r], u)
    BY <2>1, Taking DEF IInv, Numbered, Number
  <2>3. \A i \in 1..Len(stream') : IsUpdate(stream'[i], r) => Sent(sent[r], stream'[i])
    BY <2>1, Taking DEF IInv, Numbered, Number
  <2> QED
    BY <2>1, <2>2, <2>3 DEF IInv, Numbered, Number, Sent
<1>2. ASSUME Callback PROVE Number(r)'
  <2>1. /\ shown \in Seq(Updates) /\ reader \in Updates /\ reader # None
        /\ shown' = Append(shown, reader) /\ reader' = None
        /\ UNCHANGED <<stream, sent>>
    BY <1>2 DEF Callback, agentVars, IInv, TypeOK, ReaderTypes
  <2>2. \A i \in 1..Len(shown') : IsUpdate(shown'[i], r) => Sent(sent[r], shown'[i])
    BY <2>1 DEF IInv, Numbered, Number
  <2> QED
    BY <2>1, <2>2 DEF IInv, Numbered, Number, Sent
<1>3. ASSUME NEW s \in LoadStatuses, ReadLoadResponse(s) PROVE Number(r)'
  <2>1. UNCHANGED <<sent, reader, shown>> /\ NextLine(Response(Load, s))
    BY <1>3 DEF ReadLoadResponse, agentVars
  <2> QED
    BY <2>1, Taking DEF IInv, Numbered, Number, Sent
<1>4. ASSUME NEW p \in Prompts, NEW s \in PromptStatuses, ReadPromptResponse(p, s)
      PROVE  Number(r)'
  <2>1. UNCHANGED <<sent, reader, shown>> /\ NextLine(Response(p, s))
    BY <1>4 DEF ReadPromptResponse, agentVars
  <2> QED
    BY SMTT(30), <2>1, Taking DEF IInv, Numbered, Number, Sent
<1>5. ASSUME AgentReplays PROVE Number(r)'
  <2> DEFINE l == Update(Load, replayed', "chunk")
  <2>1. l \in Lines /\ ~IsUpdate(l, r)
    <3>1. l \in Updates
      BY <1>5, MadeLines, ConstantsAssumption
      DEF AgentReplays, IInv, TypeOK, AgentTypes, Owners, UpdateKinds
    <3> QED
      BY <3>1, LineTypes, ConstantsAssumption DEF Update, IsUpdate
  <2>2. Emit(l) /\ UNCHANGED <<sent, reader, shown>>
    BY <1>5 DEF AgentReplays
  <2> HIDE DEF l
  <2>3. \A i \in 1..Len(stream') : IsUpdate(stream'[i], r) => Sent(sent[r], stream'[i])
    BY <2>1, <2>2, Putting DEF IInv, Numbered, Number
  <2> QED
    BY <2>2, <2>3 DEF IInv, Numbered, Number, Sent
<1>6. ASSUME NEW s \in LoadStatuses, AgentLoads(s) PROVE Number(r)'
  <2> DEFINE l == Response(Load, s)
  <2>1. l \in Lines /\ ~IsUpdate(l, r)
    BY <1>6, MadeLines DEF Response, IsUpdate
  <2>2. Emit(l) /\ UNCHANGED <<sent, reader, shown>>
    BY <1>6 DEF AgentLoads
  <2> HIDE DEF l
  <2>3. \A i \in 1..Len(stream') : IsUpdate(stream'[i], r) => Sent(sent[r], stream'[i])
    BY <2>1, <2>2, Putting DEF IInv, Numbered, Number
  <2> QED
    BY <2>2, <2>3 DEF IInv, Numbered, Number, Sent
<1>7. ASSUME NEW p \in Prompts, NEW k \in Kinds, AgentUpdates(p, k) PROVE Number(r)'
  <2> DEFINE l == Update(p, Len(sent[p]) + 1, k)
  <2>1. /\ l \in Lines /\ l \in Updates /\ l.of = p /\ l.line = "update"
        /\ l.n = Len(sent[p]) + 1
    <3>1. l \in Updates
      BY <1>7, MadeLines, ConstantsAssumption DEF IInv, TypeOK, AgentTypes, Owners
    <3> QED
      BY <3>1, LineTypes DEF Update
  <2>2. /\ Emit(l) /\ p \in open /\ sent' = [sent EXCEPT ![p] = Append(@, l)]
        /\ UNCHANGED <<ppc, tries, resp, reader, open, shown, chunks, active, text, overlapped>>
    BY <1>7 DEF AgentUpdates, clientVars
  <2> HIDE DEF l
  <2>3. sent \in [Prompts -> Seq(Updates)]
    BY DEF IInv, TypeOK, AgentTypes
  <2>4. CASE r # p
    <3>1. sent'[r] = sent[r] /\ ~IsUpdate(l, r)
      BY <2>1, <2>2, <2>3, <2>4 DEF IsUpdate
    <3>2. \A i \in 1..Len(stream') : IsUpdate(stream'[i], r) => Sent(sent[r], stream'[i])
      BY <2>1, <2>2, <3>1, Putting DEF IInv, Numbered, Number
    <3>3. UNCHANGED <<reader, shown>>
      BY <2>2
    <3> QED
      BY <3>1, <3>2, <3>3 DEF IInv, Numbered, Number
  <2>5. CASE r = p
    <3>1. /\ Len(sent[p]) \in Nat /\ Len(sent'[p]) = Len(sent[p]) + 1
          /\ \A i \in 1..Len(sent[p]) : sent'[p][i] = sent[p][i]
          /\ sent'[p][Len(sent[p]) + 1] = l
      BY <2>1, <2>2, <2>3
    <3>2. \A u : Sent(sent[p], u) => Sent(sent'[p], u)
      BY <3>1 DEF Sent
    <3>3. Sent(sent'[p], l)
      BY <2>1, <3>1 DEF Sent
    <3>4. \A i \in 1..Len(sent'[p]) : IsUpdate(sent'[p][i], p) /\ sent'[p][i].n = i
      BY SMTT(30), <2>1, <3>1 DEF IInv, Numbered, Number, IsUpdate
    <3>5. \A i \in 1..Len(stream') : IsUpdate(stream'[i], p) => Sent(sent'[p], stream'[i])
      BY <2>1, <2>2, <3>2, <3>3, Putting DEF IInv, Numbered, Number
    <3>6. UNCHANGED <<reader, shown>>
      BY <2>2
    <3> QED
      BY <2>5, <3>2, <3>4, <3>5, <3>6 DEF IInv, Numbered, Number
  <2> QED
    BY <2>4, <2>5
<1>8. ASSUME NEW p \in Prompts, NEW s \in PromptStatuses, AgentAnswers(p, s)
      PROVE  Number(r)'
  <2> DEFINE l == Response(p, s)
  <2>1. l \in Lines /\ ~IsUpdate(l, r)
    BY <1>8, MadeLines DEF Response, IsUpdate
  <2>2. Emit(l) /\ UNCHANGED <<sent, reader, shown>>
    BY <1>8 DEF AgentAnswers
  <2> HIDE DEF l
  <2>3. \A i \in 1..Len(stream') : IsUpdate(stream'[i], r) => Sent(sent[r], stream'[i])
    BY <2>1, <2>2, Putting DEF IInv, Numbered, Number
  <2> QED
    BY <2>2, <2>3 DEF IInv, Numbered, Number, Sent
<1>9. ASSUME UNCHANGED <<sent, stream, reader, shown>> PROVE Number(r)'
  BY <1>9 DEF IInv, Numbered, Number, Sent
<1> QED
  BY <1>1, <1>2, <1>3, <1>4, <1>5, <1>6, <1>7, <1>8, <1>9 DEF Next, ReaderStep,
     vars, clientVars, loadVars, handlerVars, agentVars, LoadReturns, EndLoad,
     DrainPoll, EndLoad, DrainTimesOut, EndLoad, Enter, CallPrompt, Claim,
     Collect, Release, Fail, Release, Recreate, Return

\* Reading a line keeps the order of those that are left.
LEMMA OrderTaken ==
  ASSUME IInv, NEW l, NextLine(l), NEW r \in Prompts
  PROVE  /\ Ordered(r, stream) => Ordered(r, stream')
         /\ Ordered(r, stream) /\ IsUpdate(l, r) =>
              \A k \in 1..Len(stream') : IsUpdate(stream'[k], r) => l.n < stream'[k].n
         /\ \A s : Before(r, s, stream) => Before(r, s, stream')
         /\ \A x : In(stream, x) => x = l \/ In(stream', x)
<1>1. Ordered(r, stream) => Ordered(r, stream')
  <2> SUFFICES ASSUME Ordered(r, stream), NEW j \in 1..Len(stream'), NEW k \in 1..Len(stream'),
                      j < k, IsUpdate(stream'[j], r), IsUpdate(stream'[k], r)
               PROVE  stream'[j].n < stream'[k].n
    BY DEF Ordered
  <2>1. /\ j + 1 \in 1..Len(stream) /\ k + 1 \in 1..Len(stream) /\ j + 1 < k + 1
        /\ stream'[j] = stream[j + 1] /\ stream'[k] = stream[k + 1]
    BY Taking
  <2> QED
    BY <2>1 DEF Ordered
<1>2. ASSUME Ordered(r, stream), IsUpdate(l, r), NEW k \in 1..Len(stream'),
             IsUpdate(stream'[k], r)
      PROVE  l.n < stream'[k].n
  <2>1. /\ 1 \in 1..Len(stream) /\ k + 1 \in 1..Len(stream) /\ 1 < k + 1
        /\ stream[1] = l /\ stream'[k] = stream[k + 1]
    BY Taking
  <2> QED
    BY <1>2, <2>1 DEF Ordered
<1>3. \A s : Before(r, s, stream) => Before(r, s, stream')
  BY Taking DEF Before
<1>4. ASSUME NEW x, In(stream, x), x # l PROVE In(stream', x)
  <2>1. PICK j \in 1..Len(stream) : stream[j] = x
    BY <1>4 DEF In
  <2>2. j # 1
    BY <1>4, <2>1, Taking
  <2>3. j - 1 \in 1..Len(stream') /\ stream'[j - 1] = stream[(j - 1) + 1] /\ (j - 1) + 1 = j
    BY <2>1, <2>2, Taking
  <2> QED
    BY <2>1, <2>3 DEF In
<1> QED
  BY <1>1, <1>2, <1>3, <1>4

\* Writing a line keeps it if the line comes after what is there.
LEMMA OrderPut ==
  ASSUME IInv, NEW l \in Lines, Emit(l), NEW r \in Prompts
  PROVE  /\ Ordered(r, stream)
              /\ (IsUpdate(l, r) => \A j \in 1..Len(stream) :
                    IsUpdate(stream[j], r) => stream[j].n < l.n)
            => Ordered(r, stream')
         /\ \A s : Before(r, s, stream)
              /\ (IsUpdate(l, r) => \A j \in 1..Len(s) :
                    IsUpdate(s[j], r) => s[j].n < l.n)
            => Before(r, s, stream')
         /\ \A x : In(stream, x) => In(stream', x)
         /\ In(stream', l)
<1>1. ASSUME Ordered(r, stream),
             IsUpdate(l, r) => \A j \in 1..Len(stream) :
               IsUpdate(stream[j], r) => stream[j].n < l.n,
             NEW j \in 1..Len(stream'), NEW k \in 1..Len(stream'),
             j < k, IsUpdate(stream'[j], r), IsUpdate(stream'[k], r)
      PROVE  stream'[j].n < stream'[k].n
  <2>1. j \in 1..Len(stream)
    BY <1>1, Putting
  <2>2. CASE k \in 1..Len(stream)
    BY <1>1, <2>1, <2>2, Putting DEF Ordered
  <2>3. CASE k = Len(stream')
    BY <1>1, <2>1, <2>3, Putting
  <2> QED
    BY <2>2, <2>3, Putting
<1>2. ASSUME NEW s, Before(r, s, stream),
             IsUpdate(l, r) => \A j \in 1..Len(s) : IsUpdate(s[j], r) => s[j].n < l.n
      PROVE  Before(r, s, stream')
  BY <1>2, Putting DEF Before
<1>3. \A x : In(stream, x) => In(stream', x)
  BY Putting DEF In
<1>4. In(stream', l)
  <2>1. Len(stream') \in 1..Len(stream') /\ stream'[Len(stream')] = l
    BY Putting
  <2> QED
    BY <2>1 DEF In
<1>5. Ordered(r, stream)
        /\ (IsUpdate(l, r) => \A j \in 1..Len(stream) :
              IsUpdate(stream[j], r) => stream[j].n < l.n)
      => Ordered(r, stream')
  BY <1>1 DEF Ordered
<1> QED
  BY <1>2, <1>3, <1>4, <1>5

\* An update appended to a sequence.
LEMMA Appended ==
  ASSUME NEW s \in Seq(Updates), NEW u \in Updates, NEW r \in Prompts
  PROVE  /\ \A x : In(s, x) => In(Append(s, u), x)
         /\ In(Append(s, u), u)
         /\ Ordered(r, s)
              /\ (IsUpdate(u, r) => \A j \in 1..Len(s) : IsUpdate(s[j], r) => s[j].n < u.n)
            => Ordered(r, Append(s, u))
         /\ \A t : Before(r, s, t)
              /\ (IsUpdate(u, r) => \A k \in 1..Len(t) : IsUpdate(t[k], r) => u.n < t[k].n)
            => Before(r, Append(s, u), t)
<1> DEFINE a == Append(s, u)
<1>1. /\ Len(s) \in Nat /\ Len(a) = Len(s) + 1 /\ a[Len(a)] = u
      /\ \A i \in 1..Len(s) : a[i] = s[i]
  OBVIOUS
<1> HIDE DEF a
<1>2. \A i \in 1..Len(a) : i \in 1..Len(s) \/ i = Len(a)
  BY <1>1
<1>3. \A x : In(s, x) => In(a, x)
  BY <1>1 DEF In
<1>4. In(a, u)
  <2>1. Len(a) \in 1..Len(a)
    BY <1>1
  <2> QED
    BY <1>1, <2>1 DEF In
<1>5. ASSUME Ordered(r, s), NEW j \in 1..Len(a), NEW k \in 1..Len(a), j < k,
             IsUpdate(u, r) => \A i \in 1..Len(s) : IsUpdate(s[i], r) => s[i].n < u.n,
             IsUpdate(a[j], r), IsUpdate(a[k], r)
      PROVE  a[j].n < a[k].n
  <2>1. j \in 1..Len(s)
    BY <1>1, <1>2, <1>5
  <2>2. CASE k \in 1..Len(s)
    BY <1>1, <1>5, <2>1, <2>2 DEF Ordered
  <2>3. CASE k = Len(a)
    BY <1>1, <1>5, <2>1, <2>3
  <2> QED
    BY <1>2, <2>2, <2>3
<1>6. Ordered(r, s)
        /\ (IsUpdate(u, r) => \A j \in 1..Len(s) : IsUpdate(s[j], r) => s[j].n < u.n)
      => Ordered(r, a)
  BY <1>5 DEF Ordered
<1>7. ASSUME NEW t, Before(r, s, t),
             IsUpdate(u, r) => \A k \in 1..Len(t) : IsUpdate(t[k], r) => u.n < t[k].n
      PROVE  Before(r, a, t)
  BY <1>1, <1>2, <1>7 DEF Before
<1> QED
  BY <1>3, <1>4, <1>6, <1>7 DEF a

\* What was emitted is shown, with the reader or in the stream, in this order.
LEMMA StreamStep ==
  ASSUME IInv, NEW r \in Prompts, [Next]_vars
  PROVE  Streams(r)'
<1>1. ASSUME NEW u, ReadUpdate(u) PROVE Streams(r)'
  <2>1. UNCHANGED <<sent, shown>> /\ NextLine(u) /\ reader = None /\ u \in Updates
    BY <1>1, Taking, LineTypes DEF ReadUpdate, agentVars
  <2>2. IsUpdate(u, r) => reader' = u
    <3>1. ASSUME IsUpdate(u, r) PROVE ~suppress
      <4>1. ~NoLine(r)
        BY <2>1, <3>1, Taking DEF NoLine, IsUpdate
      <4>2. Loaded
        BY <4>1 DEF IInv, Turns, Turn, Loading, TypeOK, PromptTypes, PromptPlaces
      <4> QED
        BY <4>2 DEF IInv, Loading, Loaded
    <3> QED
      BY <1>1, <3>1 DEF ReadUpdate, Withheld
  <2>3. ~IsUpdate(u, r) => reader' = None \/ ~IsUpdate(reader', r)
    BY <1>1, <2>1 DEF ReadUpdate
  <2>4. /\ Ordered(r, stream') /\ Before(r, shown, stream')
        /\ IsUpdate(u, r) =>
             \A k \in 1..Len(stream') : IsUpdate(stream'[k], r) => u.n < stream'[k].n
    BY <2>1, OrderTaken DEF IInv, Streaming, Streams
  <2>5. ASSUME NEW i \in 1..Len(sent[r])
        PROVE  \/ In(shown, sent[r][i]) \/ In(stream', sent[r][i])
               \/ reader' # None /\ reader' = sent[r][i]
    <3>1. IsUpdate(sent[r][i], r)
      BY DEF IInv, Numbered, Number
    <3>2. In(shown, sent[r][i]) \/ In(stream, sent[r][i])
      BY <2>1 DEF IInv, Streaming, Streams
    <3>3. In(shown, sent[r][i]) \/ In(stream', sent[r][i]) \/ sent[r][i] = u
      BY <2>1, <3>2, OrderTaken
    <3> QED
      BY <2>1, <2>2, <3>1, <3>3, NoneAssumption
  <2>6. IsUpdate(u, r) =>
          \A j \in 1..Len(shown) : IsUpdate(shown[j], r) => shown[j].n < u.n
    BY <2>1, Taking DEF IInv, Streaming, Streams, Before
  <2> QED
    BY <2>1, <2>2, <2>3, <2>4, <2>5, <2>6 DEF IInv, Streaming, Streams
<1>2. ASSUME Callback PROVE Streams(r)'
  <2>1. /\ shown \in Seq(Updates) /\ reader \in Updates /\ reader # None
        /\ shown' = Append(shown, reader) /\ reader' = None
        /\ UNCHANGED <<stream, sent>>
    BY <1>2 DEF Callback, agentVars, IInv, TypeOK, ReaderTypes
  <2>2. Streams(r)
    BY DEF IInv, Streaming
  <2>3. Ordered(r, shown')
    BY <2>1, <2>2, Appended DEF Streams
  <2>4. Before(r, shown', stream)
    BY <2>1, <2>2, Appended DEF Streams
  <2>5. ASSUME NEW i \in 1..Len(sent[r])
        PROVE  In(shown', sent[r][i]) \/ In(stream, sent[r][i])
    BY <2>1, <2>2, Appended DEF Streams
  <2> QED
    BY <2>1, <2>2, <2>3, <2>4, <2>5 DEF Streams
<1>3. ASSUME NEW s \in LoadStatuses, ReadLoadResponse(s) PROVE Streams(r)'
  <2>1. UNCHANGED <<sent, reader, shown>> /\ NextLine(Response(Load, s)) /\ reader = None
    BY <1>3, Taking DEF ReadLoadResponse, agentVars
  <2>2. Streams(r)
    BY DEF IInv, Streaming
  <2>3. Ordered(r, shown) /\ Ordered(r, stream') /\ Before(r, shown, stream')
    BY <2>1, <2>2, OrderTaken DEF Streams
  <2>4. ASSUME NEW i \in 1..Len(sent[r])
        PROVE  In(shown, sent[r][i]) \/ In(stream', sent[r][i])
    <3>1. IsUpdate(sent[r][i], r) /\ ~IsUpdate(Response(Load, s), r)
      BY DEF IInv, Numbered, Number, IsUpdate, Response
    <3> QED
      BY <2>1, <2>2, <3>1, OrderTaken DEF Streams
  <2>5. sent' = sent /\ shown' = shown /\ reader' = None
    BY <2>1
  <2> QED
    BY <2>3, <2>4, <2>5 DEF Streams
<1>4. ASSUME NEW p \in Prompts, NEW s \in PromptStatuses, ReadPromptResponse(p, s)
      PROVE  Streams(r)'
  <2>1. UNCHANGED <<sent, reader, shown>> /\ NextLine(Response(p, s)) /\ reader = None
    BY <1>4, Taking DEF ReadPromptResponse, agentVars
  <2>2. Streams(r)
    BY DEF IInv, Streaming
  <2>3. Ordered(r, shown) /\ Ordered(r, stream') /\ Before(r, shown, stream')
    BY <2>1, <2>2, OrderTaken DEF Streams
  <2>4. ASSUME NEW i \in 1..Len(sent[r])
        PROVE  In(shown, sent[r][i]) \/ In(stream', sent[r][i])
    <3>1. IsUpdate(sent[r][i], r) /\ ~IsUpdate(Response(p, s), r)
      BY DEF IInv, Numbered, Number, IsUpdate, Response
    <3> QED
      BY <2>1, <2>2, <3>1, OrderTaken DEF Streams
  <2>5. sent' = sent /\ shown' = shown /\ reader' = None
    BY <2>1
  <2> QED
    BY <2>3, <2>4, <2>5 DEF Streams
<1>5. ASSUME AgentReplays PROVE Streams(r)'
  <2> DEFINE l == Update(Load, replayed', "chunk")
  <2>1. l \in Lines /\ ~IsUpdate(l, r)
    <3>1. l \in Updates
      BY <1>5, MadeLines, ConstantsAssumption
      DEF AgentReplays, IInv, TypeOK, AgentTypes, Owners, UpdateKinds
    <3> QED
      BY <3>1, LineTypes, ConstantsAssumption DEF Update, IsUpdate
  <2>2. Emit(l) /\ UNCHANGED <<sent, reader, shown>>
    BY <1>5 DEF AgentReplays
  <2> HIDE DEF l
  <2>3. Streams(r)
    BY DEF IInv, Streaming
  <2>4. /\ Ordered(r, stream') /\ Before(r, shown, stream')
        /\ \A x : In(stream, x) => In(stream', x)
    BY <2>1, <2>2, <2>3, OrderPut DEF Streams
  <2>5. reader # None /\ IsUpdate(reader, r) =>
          \A k \in 1..Len(stream') : IsUpdate(stream'[k], r) => reader.n < stream'[k].n
    BY <2>1, <2>2, <2>3, Putting DEF Streams
  <2> QED
    BY <2>2, <2>3, <2>4, <2>5 DEF Streams
<1>6. ASSUME NEW s \in LoadStatuses, AgentLoads(s) PROVE Streams(r)'
  <2> DEFINE l == Response(Load, s)
  <2>1. l \in Lines /\ ~IsUpdate(l, r)
    BY <1>6, MadeLines DEF Response, IsUpdate
  <2>2. Emit(l) /\ UNCHANGED <<sent, reader, shown>>
    BY <1>6 DEF AgentLoads
  <2> HIDE DEF l
  <2>3. Streams(r)
    BY DEF IInv, Streaming
  <2>4. /\ Ordered(r, stream') /\ Before(r, shown, stream')
        /\ \A x : In(stream, x) => In(stream', x)
    BY <2>1, <2>2, <2>3, OrderPut DEF Streams
  <2>5. reader # None /\ IsUpdate(reader, r) =>
          \A k \in 1..Len(stream') : IsUpdate(stream'[k], r) => reader.n < stream'[k].n
    BY <2>1, <2>2, <2>3, Putting DEF Streams
  <2> QED
    BY <2>2, <2>3, <2>4, <2>5 DEF Streams
<1>7. ASSUME NEW p \in Prompts, NEW k \in Kinds, AgentUpdates(p, k)
      PROVE  Streams(r)'
  <2> DEFINE l == Update(p, Len(sent[p]) + 1, k)
  <2>1. /\ l \in Lines /\ l \in Updates /\ l.of = p /\ l.line = "update"
        /\ l.n = Len(sent[p]) + 1
    <3>1. l \in Updates
      BY <1>7, MadeLines, ConstantsAssumption DEF IInv, TypeOK, AgentTypes, Owners
    <3> QED
      BY <3>1, LineTypes DEF Update
  <2>2. /\ Emit(l) /\ p \in open /\ sent' = [sent EXCEPT ![p] = Append(@, l)]
        /\ UNCHANGED <<ppc, tries, resp, reader, open, shown, chunks, active, text, overlapped>>
    BY <1>7 DEF AgentUpdates, clientVars
  <2> HIDE DEF l
  <2>3. sent \in [Prompts -> Seq(Updates)]
    BY DEF IInv, TypeOK, AgentTypes
  <2>4. Streams(r) /\ Number(r)
    BY DEF IInv, Streaming, Numbered
  <2>5. \A x : x \in Nat /\ x \in 1..Len(sent[p]) => x < l.n
    BY <2>1, <2>3
  <2>6. IsUpdate(l, r) =>
          /\ \A j \in 1..Len(stream) : IsUpdate(stream[j], r) => stream[j].n < l.n
          /\ \A j \in 1..Len(shown) : IsUpdate(shown[j], r) => shown[j].n < l.n
          /\ reader # None /\ IsUpdate(reader, r) => reader.n < l.n
    BY <2>1, <2>4, <2>5 DEF Number, Sent, IsUpdate
  <2>7. /\ Ordered(r, stream') /\ Before(r, shown, stream') /\ In(stream', l)
        /\ \A x : In(stream, x) => In(stream', x)
    BY <2>1, <2>2, <2>4, <2>6, OrderPut DEF Streams
  <2>8. reader # None /\ IsUpdate(reader, r) =>
          \A m \in 1..Len(stream') : IsUpdate(stream'[m], r) => reader.n < stream'[m].n
    BY <2>1, <2>2, <2>4, <2>6, Putting DEF Streams
  <2>9. ASSUME NEW i \in 1..Len(sent'[r])
        PROVE  \/ i \in 1..Len(sent[r]) /\ sent'[r][i] = sent[r][i]
               \/ sent'[r][i] = l
    BY <2>1, <2>2, <2>3
  <2>10. ASSUME NEW i \in 1..Len(sent'[r])
         PROVE  \/ In(shown, sent'[r][i]) \/ In(stream', sent'[r][i])
                \/ reader # None /\ reader = sent'[r][i]
    BY <2>4, <2>7, <2>9 DEF Streams
  <2>11. UNCHANGED <<reader, shown>>
    BY <2>2
  <2> QED
    BY <2>4, <2>7, <2>8, <2>10, <2>11 DEF Streams
<1>8. ASSUME NEW p \in Prompts, NEW s \in PromptStatuses, AgentAnswers(p, s)
      PROVE  Streams(r)'
  <2> DEFINE l == Response(p, s)
  <2>1. l \in Lines /\ ~IsUpdate(l, r)
    BY <1>8, MadeLines DEF Response, IsUpdate
  <2>2. Emit(l) /\ UNCHANGED <<sent, reader, shown>>
    BY <1>8 DEF AgentAnswers
  <2> HIDE DEF l
  <2>3. Streams(r)
    BY DEF IInv, Streaming
  <2>4. /\ Ordered(r, stream') /\ Before(r, shown, stream')
        /\ \A x : In(stream, x) => In(stream', x)
    BY <2>1, <2>2, <2>3, OrderPut DEF Streams
  <2>5. reader # None /\ IsUpdate(reader, r) =>
          \A k \in 1..Len(stream') : IsUpdate(stream'[k], r) => reader.n < stream'[k].n
    BY <2>1, <2>2, <2>3, Putting DEF Streams
  <2> QED
    BY <2>2, <2>3, <2>4, <2>5 DEF Streams
<1>9. ASSUME UNCHANGED <<sent, stream, reader, shown>> PROVE Streams(r)'
  BY <1>9 DEF IInv, Streaming, Streams
<1> QED
  BY <1>1, <1>2, <1>3, <1>4, <1>5, <1>6, <1>7, <1>8, <1>9 DEF Next, ReaderStep,
     vars, clientVars, loadVars, handlerVars, agentVars, LoadReturns, EndLoad,
     DrainPoll, EndLoad, DrainTimesOut, EndLoad, Enter, CallPrompt, Claim,
     Collect, Release, Fail, Release, Recreate, Return

\* Alone stays alone when the stream loses a line, or gains one of its own or
\* of the load.
LEMMA AloneKept ==
  ASSUME IInv, NEW r \in Prompts, Alone(r),
         open' \subseteq open,
         \A q \in Prompts \ {r} : ppc'[q] = "calling" => ppc[q] = "calling",
         NEW l, \/ NextLine(l)
                \/ l \in Lines /\ Emit(l) /\ l.of \notin Prompts \ {r}
  PROVE  Alone(r)'
<1>1. ASSUME NEW q \in Prompts \ {r} PROVE NoLine(q)'
  <2>1. NoLine(q)
    BY DEF Alone
  <2>2. CASE NextLine(l)
    BY <2>1, <2>2, Taking DEF NoLine
  <2>3. CASE l \in Lines /\ Emit(l) /\ l.of \notin Prompts \ {r}
    BY <2>1, <2>3, Putting DEF NoLine
  <2> QED
    BY <2>2, <2>3
<1> QED
  BY <1>1 DEF Alone

\* The buffer of a prompt that is alone is its own.
LEMMA BufferStep ==
  ASSUME IInv, NEW r \in Prompts, [Next]_vars
  PROVE  Buffers(r)'
<1>1. ASSUME NEW p \in Prompts, Enter(p) PROVE Buffers(r)'
  <2>1. /\ UNCHANGED <<active, chunks, stream, open, overlapped, sent>>
        /\ \A q \in Prompts : ppc'[q] = "calling" <=> ppc[q] = "calling"
    BY <1>1 DEF Enter, clientVars, agentVars, IInv, TypeOK, PromptTypes
  <2> QED
    BY <2>1 DEF IInv, Buffering, Buffers, Alone, NoLine, Clean
<1>2. ASSUME NEW p \in Prompts, CallPrompt(p) PROVE Buffers(r)'
  <2>1. /\ UNCHANGED <<stream, sent>> /\ active' = TRUE /\ chunks' = <<>>
        /\ open' = open \cup {p} /\ ppc[p] = "entered" /\ ppc' = [ppc EXCEPT ![p] = "calling"]
    BY <1>2 DEF CallPrompt, Claim
  <2>2. CASE r = p
    <3> SUFFICES ASSUME r \notin overlapped' PROVE Buffers(r)'
      BY DEF Buffers
    <3>1. Busy \ {p} = {}
      BY <1>2, <2>2 DEF CallPrompt
    <3>2. \A q \in Prompts \ {p} : ppc[q] # "calling" /\ q \notin open /\ NoLine(q)
      BY <3>1 DEF Busy, NoLine
    <3>3. Alone(r)'
      <4>1. \A q \in Prompts \ {p} : ppc'[q] # "calling" /\ q \notin open'
        BY <2>1, <3>2 DEF IInv, TypeOK, PromptTypes
      <4> QED
        BY <2>1, <2>2, <3>2, <4>1 DEF Alone, NoLine
    <3>4. sent[r] = <<>>
      BY <2>1, <2>2 DEF IInv, Turns, Turn
    <3> HIDE DEF Buffers
    <3>5. Clean(r, chunks)' /\ Ordered(r, chunks') /\ Before(r, chunks', stream')
      BY <2>1 DEF Clean, Ordered, Before
    <3>6. active'
      BY <2>1
    <3>7. \A i \in 1..Len(sent'[r]) : In(chunks', sent'[r][i]) \/ In(stream', sent'[r][i])
      BY <2>1, <3>4
    <3> QED
      BY <3>3, <3>5, <3>6, <3>7 DEF Buffers
  <2>3. CASE r # p
    <3>1. ASSUME ppc'[r] = "calling" PROVE r \in overlapped'
      <4>1. r \in Busy \ {p}
        BY <2>1, <2>3, <3>1 DEF Busy, IInv, TypeOK, PromptTypes
      <4> QED
        BY <1>2, <4>1 DEF CallPrompt
    <3> QED
      BY <3>1 DEF Buffers
  <2> QED
    BY <2>2, <2>3
<1>3. ASSUME NEW p \in Prompts, Collect(p) PROVE Buffers(r)'
  <2>1. /\ UNCHANGED <<stream, sent, open, overlapped>> /\ ppc[p] = "calling"
        /\ ppc'[p] # "calling" /\ \A q \in Prompts \ {p} : ppc'[q] = ppc[q]
    BY <1>3 DEF Collect, agentVars, IInv, TypeOK, PromptTypes
  <2>2. ASSUME r \notin overlapped, ppc[r] = "calling" PROVE r = p
    BY <2>1, <2>2 DEF IInv, Buffering, Buffers, Alone
  <2> QED
    BY <2>1, <2>2 DEF Buffers
<1>4. ASSUME NEW p \in Prompts, Fail(p) PROVE Buffers(r)'
  <2>1. /\ UNCHANGED <<stream, sent, open, overlapped>> /\ ppc[p] = "calling"
        /\ ppc'[p] # "calling" /\ \A q \in Prompts \ {p} : ppc'[q] = ppc[q]
    BY <1>4 DEF Fail, agentVars, IInv, TypeOK, PromptTypes
  <2>2. ASSUME r \notin overlapped, ppc[r] = "calling" PROVE r = p
    BY <2>1, <2>2 DEF IInv, Buffering, Buffers, Alone
  <2> QED
    BY <2>1, <2>2 DEF Buffers
<1>5. ASSUME NEW p \in Prompts, Recreate(p) PROVE Buffers(r)'
  <2>1. /\ UNCHANGED <<active, chunks, stream, open, overlapped, sent>>
        /\ \A q \in Prompts : ppc'[q] = "calling" <=> ppc[q] = "calling"
    BY <1>5 DEF Recreate, clientVars, agentVars, IInv, TypeOK, PromptTypes
  <2> QED
    BY <2>1 DEF IInv, Buffering, Buffers, Alone, NoLine, Clean
<1>6. ASSUME NEW p \in Prompts, Return(p) PROVE Buffers(r)'
  <2>1. /\ UNCHANGED <<active, chunks, stream, open, overlapped, sent>>
        /\ \A q \in Prompts : ppc'[q] = "calling" <=> ppc[q] = "calling"
    BY <1>6 DEF Return, clientVars, agentVars, IInv, TypeOK, PromptTypes
  <2> QED
    BY <2>1 DEF IInv, Buffering, Buffers, Alone, NoLine, Clean
<1>7. ASSUME NEW u, ReadUpdate(u) PROVE Buffers(r)'
  <2>1. /\ UNCHANGED <<sent, open, overlapped, ppc>> /\ (active' <=> active)
        /\ NextLine(u) /\ u \in Updates /\ chunks \in Seq(Updates)
    BY <1>7, Taking, LineTypes DEF ReadUpdate, agentVars, IInv, TypeOK, ReaderTypes
  <2>2. ASSUME r \notin overlapped', ppc'[r] = "calling"
        PROVE  /\ active' /\ Alone(r)' /\ Clean(r, chunks')
               /\ \A i \in 1..Len(sent[r]) : In(chunks', sent[r][i]) \/ In(stream', sent[r][i])
               /\ Ordered(r, chunks') /\ Before(r, chunks', stream')
    <3>1. /\ active /\ Alone(r) /\ Clean(r, chunks)
          /\ \A i \in 1..Len(sent[r]) : In(chunks, sent[r][i]) \/ In(stream, sent[r][i])
          /\ Ordered(r, chunks) /\ Before(r, chunks, stream) /\ Ordered(r, stream)
      BY <2>1, <2>2 DEF IInv, Buffering, Buffers, Streaming, Streams
    <3>2. chunks' = Append(chunks, u)
      BY <1>7, <3>1 DEF ReadUpdate, Buffered
    <3>3. Alone(r)'
      BY <2>1, <3>1, AloneKept
    <3>4. active'
      BY <2>1, <3>1
    <3>5. 1 \in 1..Len(stream) /\ stream[1] = u
      BY <2>1, Taking
    <3>6. IsUpdate(u, r) => /\ Sent(sent[r], u)
                            /\ \A j \in 1..Len(chunks) : IsUpdate(chunks[j], r) => chunks[j].n < u.n
      BY <3>1, <3>5 DEF IInv, Numbered, Number, Before
    <3>7. IF u.of = r THEN IsUpdate(u, r) /\ Sent(sent[r], u)
          ELSE IsUpdate(u, Load) /\ ~Early(u)
      <4>1. u.of \in {r, Load} /\ u.line = "update"
        BY <2>1, <3>1, <3>5, LineTypes DEF Alone, NoLine, Owners
      <4>2. loadResp # "none"
        BY <3>1 DEF IInv, Loading, Loaded
      <4>3. ~Early(u)
        BY <3>5, <4>2 DEF IInv, History
      <4> QED
        BY <3>6, <4>1, <4>3 DEF IsUpdate
    <3>8. Clean(r, chunks')
      BY <2>1, <3>1, <3>2, <3>7 DEF Clean
    <3>9. Ordered(r, chunks')
      BY <2>1, <3>1, <3>2, <3>6, Appended
    <3>10. Before(r, chunks', stream')
      <4>1. /\ Before(r, chunks, stream')
            /\ IsUpdate(u, r) =>
                 \A k \in 1..Len(stream') : IsUpdate(stream'[k], r) => u.n < stream'[k].n
        BY <2>1, <3>1, OrderTaken
      <4> QED
        BY <2>1, <3>2, <4>1, Appended
    <3>11. \A i \in 1..Len(sent[r]) : In(chunks', sent[r][i]) \/ In(stream', sent[r][i])
      BY <2>1, <3>1, <3>2, OrderTaken, Appended
    <3> QED
      BY <3>3, <3>4, <3>8, <3>9, <3>10, <3>11
  <2>3. sent' = sent
    BY <2>1
  <2> QED
    BY <2>2, <2>3 DEF Buffers, Clean
<1>8. ASSUME NEW s \in LoadStatuses, ReadLoadResponse(s) PROVE Buffers(r)'
  <2>1. /\ UNCHANGED <<chunks, sent, open, overlapped, ppc>> /\ (active' <=> active)
        /\ NextLine(Response(Load, s))
    BY <1>8 DEF ReadLoadResponse, agentVars, clientVars
  <2>2. ASSUME r \notin overlapped', ppc'[r] = "calling"
        PROVE  /\ active' /\ Alone(r)' /\ Clean(r, chunks)
               /\ \A i \in 1..Len(sent[r]) : In(chunks, sent[r][i]) \/ In(stream', sent[r][i])
               /\ Ordered(r, chunks) /\ Before(r, chunks, stream')
    <3>1. /\ active /\ Alone(r) /\ Clean(r, chunks)
          /\ \A i \in 1..Len(sent[r]) : In(chunks, sent[r][i]) \/ In(stream, sent[r][i])
          /\ Ordered(r, chunks) /\ Before(r, chunks, stream)
      BY <2>1, <2>2 DEF IInv, Buffering, Buffers
    <3>2. Alone(r)'
      BY <2>1, <3>1, AloneKept
    <3>3. \A i \in 1..Len(sent[r]) : sent[r][i] # Response(Load, s)
      BY DEF IInv, Numbered, Number, IsUpdate, Response
    <3>4. active'
      BY <2>1, <3>1
    <3>5. Before(r, chunks, stream')
      BY <2>1, <3>1, OrderTaken
    <3>6. \A i \in 1..Len(sent[r]) : In(chunks, sent[r][i]) \/ In(stream', sent[r][i])
      BY <2>1, <3>1, <3>3, OrderTaken
    <3> QED
      BY <3>1, <3>2, <3>4, <3>5, <3>6
  <2>3. chunks' = chunks /\ sent' = sent
    BY <2>1
  <2> QED
    BY <2>2, <2>3 DEF Buffers, Clean
<1>9. ASSUME NEW p \in Prompts, NEW s \in PromptStatuses, ReadPromptResponse(p, s)
      PROVE  Buffers(r)'
  <2>1. /\ UNCHANGED <<chunks, sent, open, overlapped, ppc>> /\ (active' <=> active)
        /\ NextLine(Response(p, s))
    BY <1>9 DEF ReadPromptResponse, agentVars, clientVars
  <2>2. ASSUME r \notin overlapped', ppc'[r] = "calling"
        PROVE  /\ active' /\ Alone(r)' /\ Clean(r, chunks)
               /\ \A i \in 1..Len(sent[r]) : In(chunks, sent[r][i]) \/ In(stream', sent[r][i])
               /\ Ordered(r, chunks) /\ Before(r, chunks, stream')
    <3>1. /\ active /\ Alone(r) /\ Clean(r, chunks)
          /\ \A i \in 1..Len(sent[r]) : In(chunks, sent[r][i]) \/ In(stream, sent[r][i])
          /\ Ordered(r, chunks) /\ Before(r, chunks, stream)
      BY <2>1, <2>2 DEF IInv, Buffering, Buffers
    <3>2. Alone(r)'
      BY <2>1, <3>1, AloneKept
    <3>3. \A i \in 1..Len(sent[r]) : sent[r][i] # Response(p, s)
      BY DEF IInv, Numbered, Number, IsUpdate, Response
    <3>4. active'
      BY <2>1, <3>1
    <3>5. Before(r, chunks, stream')
      BY <2>1, <3>1, OrderTaken
    <3>6. \A i \in 1..Len(sent[r]) : In(chunks, sent[r][i]) \/ In(stream', sent[r][i])
      BY <2>1, <3>1, <3>3, OrderTaken
    <3> QED
      BY <3>1, <3>2, <3>4, <3>5, <3>6
  <2>3. chunks' = chunks /\ sent' = sent
    BY <2>1
  <2> QED
    BY <2>2, <2>3 DEF Buffers, Clean
<1>10. ASSUME AgentReplays PROVE Buffers(r)'
  <2> DEFINE l == Update(Load, replayed', "chunk")
  <2>1. l \in Lines /\ ~IsUpdate(l, r) /\ l.of = Load
    <3>1. l \in Updates
      BY <1>10, MadeLines, ConstantsAssumption
      DEF AgentReplays, IInv, TypeOK, AgentTypes, Owners, UpdateKinds
    <3> QED
      BY <3>1, LineTypes, ConstantsAssumption DEF Update, IsUpdate
  <2>2. /\ Emit(l) /\ UNCHANGED <<sent, chunks, ppc, overlapped>> /\ open' \subseteq open
        /\ (active' <=> active)
    BY <1>10 DEF AgentReplays, clientVars
  <2> HIDE DEF l
  <2>3. ASSUME r \notin overlapped', ppc'[r] = "calling"
        PROVE  /\ active' /\ Alone(r)' /\ Clean(r, chunks)
               /\ \A i \in 1..Len(sent[r]) : In(chunks, sent[r][i]) \/ In(stream', sent[r][i])
               /\ Ordered(r, chunks) /\ Before(r, chunks, stream')
    <3>1. /\ active /\ Alone(r) /\ Clean(r, chunks)
          /\ \A i \in 1..Len(sent[r]) : In(chunks, sent[r][i]) \/ In(stream, sent[r][i])
          /\ Ordered(r, chunks) /\ Before(r, chunks, stream)
      BY <2>2, <2>3 DEF IInv, Buffering, Buffers
    <3>2. Alone(r)'
      BY <2>1, <2>2, <3>1, AloneKept, ConstantsAssumption
    <3>3. active'
      BY <2>2, <3>1
    <3>4. /\ Before(r, chunks, stream')
          /\ \A i \in 1..Len(sent[r]) : In(chunks, sent[r][i]) \/ In(stream', sent[r][i])
      BY <2>1, <2>2, <3>1, OrderPut
    <3> QED
      BY <3>1, <3>2, <3>3, <3>4
  <2>4. chunks' = chunks /\ sent' = sent
    BY <2>2
  <2> QED
    BY <2>3, <2>4 DEF Buffers, Clean
<1>11. ASSUME NEW s \in LoadStatuses, AgentLoads(s) PROVE Buffers(r)'
  <2> DEFINE l == Response(Load, s)
  <2>1. l \in Lines /\ ~IsUpdate(l, r) /\ l.of = Load
    BY <1>11, MadeLines DEF Response, IsUpdate
  <2>2. /\ Emit(l) /\ UNCHANGED <<sent, chunks, ppc, overlapped>> /\ open' \subseteq open
        /\ (active' <=> active)
    BY <1>11 DEF AgentLoads, clientVars
  <2> HIDE DEF l
  <2>3. ASSUME r \notin overlapped', ppc'[r] = "calling"
        PROVE  /\ active' /\ Alone(r)' /\ Clean(r, chunks)
               /\ \A i \in 1..Len(sent[r]) : In(chunks, sent[r][i]) \/ In(stream', sent[r][i])
               /\ Ordered(r, chunks) /\ Before(r, chunks, stream')
    <3>1. /\ active /\ Alone(r) /\ Clean(r, chunks)
          /\ \A i \in 1..Len(sent[r]) : In(chunks, sent[r][i]) \/ In(stream, sent[r][i])
          /\ Ordered(r, chunks) /\ Before(r, chunks, stream)
      BY <2>2, <2>3 DEF IInv, Buffering, Buffers
    <3>2. Alone(r)'
      BY <2>1, <2>2, <3>1, AloneKept, ConstantsAssumption
    <3>3. active'
      BY <2>2, <3>1
    <3>4. /\ Before(r, chunks, stream')
          /\ \A i \in 1..Len(sent[r]) : In(chunks, sent[r][i]) \/ In(stream', sent[r][i])
      BY <2>1, <2>2, <3>1, OrderPut
    <3> QED
      BY <3>1, <3>2, <3>3, <3>4
  <2>4. chunks' = chunks /\ sent' = sent
    BY <2>2
  <2> QED
    BY <2>3, <2>4 DEF Buffers, Clean
<1>12. ASSUME NEW p \in Prompts, NEW k \in Kinds, AgentUpdates(p, k)
       PROVE  Buffers(r)'
  <2> DEFINE l == Update(p, Len(sent[p]) + 1, k)
  <2>1. /\ l \in Lines /\ l \in Updates /\ l.of = p /\ l.line = "update"
        /\ l.n = Len(sent[p]) + 1
    <3>1. l \in Updates
      BY <1>12, MadeLines, ConstantsAssumption DEF IInv, TypeOK, AgentTypes, Owners
    <3> QED
      BY <3>1, LineTypes DEF Update
  <2>2. /\ Emit(l) /\ p \in open /\ sent' = [sent EXCEPT ![p] = Append(@, l)]
        /\ UNCHANGED <<ppc, tries, resp, reader, open, shown, chunks, active, text, overlapped>>
    BY <1>12 DEF AgentUpdates, clientVars
  <2> HIDE DEF l
  <2>3. sent \in [Prompts -> Seq(Updates)]
    BY DEF IInv, TypeOK, AgentTypes
  <2>4. ASSUME r \notin overlapped', ppc'[r] = "calling"
        PROVE  /\ active' /\ Alone(r)' /\ Clean(r, chunks)'
               /\ \A i \in 1..Len(sent'[r]) : In(chunks, sent'[r][i]) \/ In(stream', sent'[r][i])
               /\ Ordered(r, chunks) /\ Before(r, chunks, stream')
    <3>1. /\ active /\ Alone(r) /\ Clean(r, chunks)
          /\ \A i \in 1..Len(sent[r]) : In(chunks, sent[r][i]) \/ In(stream, sent[r][i])
          /\ Ordered(r, chunks) /\ Before(r, chunks, stream)
      BY <2>2, <2>4 DEF IInv, Buffering, Buffers
    <3>2. p = r
      BY <2>2, <3>1 DEF Alone
    <3>3. Alone(r)'
      BY <2>1, <2>2, <3>1, <3>2, AloneKept
    <3>4. active'
      BY <2>2, <3>1
    <3>5. /\ Len(sent[r]) \in Nat /\ Len(sent'[r]) = Len(sent[r]) + 1
          /\ \A i \in 1..Len(sent[r]) : sent'[r][i] = sent[r][i]
          /\ sent'[r][Len(sent[r]) + 1] = l
      BY <2>1, <2>2, <2>3, <3>2
    <3>6. Clean(r, chunks)'
      <4>1. \A x : Sent(sent[r], x) => Sent(sent'[r], x)
        BY <3>5 DEF Sent
      <4>2. chunks' = chunks
        BY <2>2
      <4> QED
        BY <3>1, <4>1, <4>2 DEF Clean
    <3>7. In(stream', l) /\ \A x : In(stream, x) => In(stream', x)
      BY <2>1, <2>2, OrderPut
    <3>8. \A i \in 1..Len(sent'[r]) : In(chunks, sent'[r][i]) \/ In(stream', sent'[r][i])
      BY <3>1, <3>5, <3>7
    <3>9. \A j \in 1..Len(chunks) : IsUpdate(chunks[j], r) => chunks[j].n < l.n
      BY <2>1, <3>1, <3>2, <3>5 DEF Clean, Sent, IsUpdate
    <3>10. Before(r, chunks, stream')
      BY <2>1, <2>2, <3>1, <3>9, OrderPut
    <3> QED
      BY <3>1, <3>3, <3>4, <3>6, <3>8, <3>10
  <2>5. chunks' = chunks
    BY <2>2
  <2> QED
    BY <2>4, <2>5 DEF Buffers
<1>13. ASSUME NEW p \in Prompts, NEW s \in PromptStatuses, AgentAnswers(p, s)
       PROVE  Buffers(r)'
  <2> DEFINE l == Response(p, s)
  <2>1. l \in Lines /\ ~IsUpdate(l, r) /\ l.of = p
    BY <1>13, MadeLines DEF Response, IsUpdate
  <2>2. /\ Emit(l) /\ UNCHANGED <<sent, chunks, ppc, overlapped>> /\ open' \subseteq open
        /\ (active' <=> active)
    BY <1>13 DEF AgentAnswers, clientVars
  <2> HIDE DEF l
  <2>3. ASSUME r \notin overlapped', ppc'[r] = "calling"
        PROVE  /\ active' /\ Alone(r)' /\ Clean(r, chunks)
               /\ \A i \in 1..Len(sent[r]) : In(chunks, sent[r][i]) \/ In(stream', sent[r][i])
               /\ Ordered(r, chunks) /\ Before(r, chunks, stream')
    <3>1. /\ active /\ Alone(r) /\ Clean(r, chunks)
          /\ \A i \in 1..Len(sent[r]) : In(chunks, sent[r][i]) \/ In(stream, sent[r][i])
          /\ Ordered(r, chunks) /\ Before(r, chunks, stream)
      BY <2>2, <2>3 DEF IInv, Buffering, Buffers
    <3>2. Alone(r)'
      <4>1. p = r
        BY <1>13, <3>1 DEF AgentAnswers, Alone
      <4> QED
        BY <4>1, <2>1, <2>2, <3>1, AloneKept, ConstantsAssumption
    <3>3. active'
      BY <2>2, <3>1
    <3>4. /\ Before(r, chunks, stream')
          /\ \A i \in 1..Len(sent[r]) : In(chunks, sent[r][i]) \/ In(stream', sent[r][i])
      BY <2>1, <2>2, <3>1, OrderPut
    <3> QED
      BY <3>1, <3>2, <3>3, <3>4
  <2>4. chunks' = chunks /\ sent' = sent
    BY <2>2
  <2> QED
    BY <2>3, <2>4 DEF Buffers, Clean
<1>14. ASSUME UNCHANGED <<active, chunks, stream, open, overlapped, sent, ppc>>
       PROVE  Buffers(r)'
  BY <1>14 DEF IInv, Buffering, Buffers, Alone, NoLine, Clean
<1> QED
  BY <1>1, <1>2, <1>3, <1>4, <1>5, <1>6, <1>7, <1>8, <1>9, <1>10, <1>11, <1>12,
     <1>13, <1>14 DEF Next, ReaderStep, vars, clientVars, loadVars,
     handlerVars, agentVars, LoadReturns, EndLoad, DrainPoll, EndLoad,
     DrainTimesOut, EndLoad, Callback, Capture

\* What was collected stays as it is.
LEMMA CollectStep ==
  ASSUME IInv, NEW r \in Prompts, [Next]_vars
  PROVE  Collects(r)'
<1>1. ASSUME NEW p \in Prompts, Enter(p) PROVE Collects(r)'
  <2>1. UNCHANGED <<sent, overlapped, resp, text>> /\ ppc[p] # "collected" /\ ppc'[p] # "collected"
        /\ \A q \in Prompts \ {p} : ppc'[q] = ppc[q]
    BY <1>1 DEF Enter, agentVars, IInv, TypeOK, PromptTypes
  <2> QED
    BY <2>1 DEF IInv, Collected, Collects, Clean
<1>2. ASSUME NEW p \in Prompts, CallPrompt(p) PROVE Collects(r)'
  <2>1. /\ UNCHANGED <<sent, text>> /\ overlapped \subseteq overlapped' /\ ppc'[p] # "collected"
        /\ \A q \in Prompts \ {p} : ppc'[q] = ppc[q] /\ resp'[q] = resp[q]
    BY <1>2 DEF CallPrompt, IInv, TypeOK, PromptTypes
  <2> QED
    BY <2>1 DEF IInv, Collected, Collects, Clean
<1>3. ASSUME NEW p \in Prompts, Collect(p) PROVE Collects(r)'
  <2>1. /\ UNCHANGED <<sent, overlapped, resp>> /\ text' = [text EXCEPT ![p] = TextOf(p)]
        /\ ppc[p] = "calling"
    BY <1>3 DEF Collect, agentVars
  <2>2. CASE r = p
    <3>1. ASSUME p \notin overlapped, resp[p] = "plain"
          PROVE  /\ Clean(p, chunks) /\ Ordered(p, chunks)
                 /\ \A i \in 1..Len(sent[p]) : In(chunks, sent[p][i])
      <4>1. NoLine(p)
        BY <3>1 DEF IInv, Turns, Turn
      <4>2. \A i \in 1..Len(sent[p]) : sent[p][i].of = p
        BY DEF IInv, Numbered, Number, IsUpdate
      <4>3. \A i \in 1..Len(sent[p]) : ~In(stream, sent[p][i])
        BY <4>1, <4>2 DEF NoLine, In
      <4> QED
        BY <2>1, <3>1, <4>3 DEF IInv, Buffering, Buffers
    <3>2. resp[p] = "plain" => text'[p] = chunks
      BY <2>1 DEF TextOf, IInv, TypeOK, PromptTypes
    <3> QED
      BY <2>1, <2>2, <3>1, <3>2 DEF Collects, Clean
  <2>3. CASE r # p
    <3>1. ppc'[r] = ppc[r] /\ text'[r] = text[r]
      BY <1>3, <2>1, <2>3 DEF Collect, IInv, TypeOK, PromptTypes
    <3> QED
      BY <2>1, <3>1 DEF IInv, Collected, Collects, Clean
  <2> QED
    BY <2>2, <2>3
<1>4. ASSUME NEW p \in Prompts, Fail(p) PROVE Collects(r)'
  <2>1. UNCHANGED <<sent, overlapped, resp, text>> /\ ppc[p] # "collected" /\ ppc'[p] # "collected"
        /\ \A q \in Prompts \ {p} : ppc'[q] = ppc[q]
    BY <1>4 DEF Fail, agentVars, IInv, TypeOK, PromptTypes
  <2> QED
    BY <2>1 DEF IInv, Collected, Collects, Clean
<1>5. ASSUME NEW p \in Prompts, Recreate(p) PROVE Collects(r)'
  <2>1. UNCHANGED <<sent, overlapped, resp, text>> /\ ppc[p] # "collected" /\ ppc'[p] # "collected"
        /\ \A q \in Prompts \ {p} : ppc'[q] = ppc[q]
    BY <1>5 DEF Recreate, agentVars, IInv, TypeOK, PromptTypes
  <2> QED
    BY <2>1 DEF IInv, Collected, Collects, Clean
<1>6. ASSUME NEW p \in Prompts, Return(p) PROVE Collects(r)'
  <2>1. UNCHANGED <<sent, overlapped, resp, text>> /\ ppc'[p] # "collected"
        /\ \A q \in Prompts \ {p} : ppc'[q] = ppc[q]
    BY <1>6 DEF Return, agentVars, IInv, TypeOK, PromptTypes
  <2> QED
    BY <2>1 DEF IInv, Collected, Collects, Clean
<1>7. ASSUME NEW p \in Prompts, NEW s \in PromptStatuses, ReadPromptResponse(p, s)
      PROVE  Collects(r)'
  <2>1. /\ UNCHANGED <<sent, overlapped, ppc, text>>
        /\ ppc[r] = "collected" => resp'[r] = resp[r]
    BY <1>7 DEF ReadPromptResponse, agentVars, IInv, TypeOK, PromptTypes
  <2> QED
    BY <2>1 DEF IInv, Collected, Collects, Clean
<1>8. ASSUME NEW p \in Prompts, NEW k \in Kinds, AgentUpdates(p, k)
      PROVE  Collects(r)'
  <2>1. UNCHANGED <<overlapped, ppc, text, resp>> /\ p \in open
    BY <1>8 DEF AgentUpdates
  <2>2. resp[p] = "none"
    BY <2>1 DEF IInv, Turns, Turn
  <2>3. r # p => sent'[r] = sent[r]
    BY <1>8 DEF AgentUpdates, IInv, TypeOK, AgentTypes
  <2> QED
    BY <2>1, <2>2, <2>3 DEF IInv, Collected, Collects, Clean
<1>9. ASSUME UNCHANGED <<overlapped, sent, ppc, resp, text>> PROVE Collects(r)'
  BY <1>9 DEF IInv, Collected, Collects, Clean
<1> QED
  BY <1>1, <1>2, <1>3, <1>4, <1>5, <1>6, <1>7, <1>8, <1>9 DEF Next, ReaderStep,
     vars, clientVars, loadVars, handlerVars, agentVars, LoadReturns, EndLoad,
     DrainPoll, EndLoad, DrainTimesOut, EndLoad, ReadUpdate, NextLine,
     Callback, Capture, ReadLoadResponse, NextLine, AgentReplays, Emit,
     AgentLoads, Emit, AgentAnswers, Emit

-----------------------------------------------------------------------------
\* The invariant, for every step.
LEMMA IInvStep == ASSUME IInv, [Next]_vars PROVE IInv'
<1>1. TypeOK'
  BY ReaderTypeStep, FlagTypeStep, PromptTypeStep, AgentTypeStep DEF TypeOK
<1>2. Loading' /\ History'
  BY LoadingStep, HistoryStep
<1>3. Turns' /\ Numbered'
  BY TurnStep, NumberStep DEF Turns, Numbered
<1>4. Streaming' /\ Buffering' /\ Collected'
  BY StreamStep, BufferStep, CollectStep DEF Streaming, Buffering, Collected
<1> QED
  BY <1>1, <1>2, <1>3, <1>4 DEF IInv

THEOREM Invariance == Spec => []IInv
<1>1. IInv /\ [Next]_vars => IInv'
  BY IInvStep
<1> QED
  BY IInvInit, <1>1, PTL DEF Spec

\* Every variable keeps its type.
THEOREM TypeCorrect == Spec => []TypeOK
<1>1. IInv => TypeOK
  BY DEF IInv
<1> QED
  BY Invariance, <1>1, PTL

\* However much history the agent replays and however the drain ends, nothing
\* it replayed before the load response is shown (handleInboundRequest).
THEOREM ReplayIsSuppressed == Spec => []ReplaySuppressed
<1>1. ASSUME IInv PROVE ReplaySuppressed
  <2>1. ASSUME NEW i \in 1..Len(shown), shown[i].of = Load
        PROVE  shown[i].n > MaxReplay
    <3>1. shown[i] \in Updates
      BY <1>1 DEF IInv, TypeOK, ReaderTypes
    <3>2. shown[i].line = "update" /\ shown[i].n \in Nat
      BY <3>1, LineTypes
    <3>3. ~Early(shown[i])
      BY <1>1 DEF IInv, History
    <3> QED
      BY <2>1, <3>2, <3>3, ConstantsAssumption DEF Early, IsUpdate
  <2> QED
    BY <2>1 DEF ReplaySuppressed
<1> QED
  BY Invariance, <1>1, PTL

\* A prompt returns after the callback ran for each of its updates, in order,
\* whatever the other prompts do with the buffer (Prompt, root.go 165).
THEOREM StreamedFirst == Spec => []StreamedBeforeReturn
<1>1. ASSUME IInv PROVE StreamedBeforeReturn
  <2> SUFFICES ASSUME NEW p \in Prompts, ppc[p] \in {"collected", "done"}
               PROVE  Complete(p, shown)
    BY DEF StreamedBeforeReturn
  <2>1. NoLine(p) /\ (reader # None => reader.of # p)
    BY <1>1 DEF IInv, Turns, Turn
  <2>2. ASSUME NEW i \in 1..Len(sent[p]) PROVE In(shown, sent[p][i])
    <3>1. sent[p][i].of = p
      BY <1>1 DEF IInv, Numbered, Number, IsUpdate
    <3>2. ~In(stream, sent[p][i])
      BY <2>1, <3>1 DEF NoLine, In
    <3> QED
      BY <1>1, <2>1, <3>1, <3>2 DEF IInv, Streaming, Streams
  <2>3. shown \in Seq(Updates)
    BY <1>1 DEF IInv, TypeOK, ReaderTypes
  <2>4. \A j \in 1..Len(shown) : shown[j].of = p => IsUpdate(shown[j], p)
    BY <2>3, LineTypes DEF IsUpdate
  <2>5. Ordered(p, shown)
    BY <1>1 DEF IInv, Streaming, Streams
  <2> QED
    BY <2>2, <2>4, <2>5 DEF Complete, In, Ordered
<1> QED
  BY Invariance, <1>1, PTL

\* A prompt that had the agent to itself returns its own updates, all of them
\* and in order, and of the history only what came after the load response.
THEOREM TextIsExact == Spec => []TextExact
<1>1. ASSUME IInv PROVE TextExact
  <2> SUFFICES ASSUME NEW p \in Prompts \ overlapped,
                      ppc[p] = "collected", resp[p] = "plain"
               PROVE  /\ Complete(p, text[p])
                      /\ \A i \in 1..Len(text[p]) :
                           \/ text[p][i] \in Range(sent[p])
                           \/ text[p][i].of = Load /\ text[p][i].n > MaxReplay
    BY DEF TextExact
  <2>1. /\ Clean(p, text[p]) /\ Ordered(p, text[p])
        /\ \A i \in 1..Len(sent[p]) : In(text[p], sent[p][i])
    BY <1>1 DEF IInv, Collected, Collects
  <2>2. sent[p] \in Seq(Updates) /\ text[p] \in Seq(Updates)
    BY <1>1 DEF IInv, TypeOK, PromptTypes, AgentTypes
  <2>3. \A j \in 1..Len(text[p]) : text[p][j].of = p => IsUpdate(text[p][j], p)
    BY <2>1 DEF Clean
  <2>4. Complete(p, text[p])
    BY <2>1, <2>3 DEF Complete, In, Ordered
  <2>5. ASSUME NEW i \in 1..Len(text[p])
        PROVE  \/ text[p][i] \in Range(sent[p])
               \/ text[p][i].of = Load /\ text[p][i].n > MaxReplay
    <3>1. CASE text[p][i].of = p
      <4>1. Sent(sent[p], text[p][i])
        BY <2>1, <3>1 DEF Clean
      <4> QED
        BY <2>2, <4>1 DEF Sent, Range
    <3>2. CASE text[p][i].of # p
      <4>1. IsUpdate(text[p][i], Load) /\ ~Early(text[p][i])
        BY <2>1, <3>2 DEF Clean
      <4>2. text[p][i].n \in Nat
        BY <2>2, LineTypes
      <4> QED
        BY <4>1, <4>2, ConstantsAssumption DEF Early, IsUpdate
    <3> QED
      BY <3>1, <3>2
  <2> QED
    BY <2>4, <2>5
<1> QED
  BY Invariance, <1>1, PTL
=============================================================================
