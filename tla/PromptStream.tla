---------------------------- MODULE PromptStream ----------------------------
(***************************************************************************)
(* How the text of a prompt is put together from the agent's line stream:  *)
(* Prompt, LoadSession, waitForReplayDrain and the session/update case of  *)
(* handleInboundRequest (internal/client/client.go), under the prompt      *)
(* handler of a working session (internal/session/runtime.go).             *)
(*                                                                         *)
(* One client, one stream, one reader.  A session is loaded first; then    *)
(* the members of Prompts are executions of workingSessionHandler.Prompt,  *)
(* which the queue may run at the same time.  The chunk buffer and the     *)
(* active flag are one pair per client, not one per prompt.                *)
(***************************************************************************)
EXTENDS Naturals, Sequences, SequencesExt

CONSTANTS
  Prompts,     \* executions of the handler's Prompt
  Kinds,       \* kinds of update the agent emits, see UpdateKinds
  MaxUpdates,  \* bound on the updates emitted for all prompts together
  MaxReplay,   \* bound on the replay updates before the load response
  LateReplay,  \* bound on the replay updates after it, which the drain may miss
  PipeCap,     \* bound on the lines the pipe holds before the agent blocks
  Load,        \* the load, as the owner of a line
  None         \* no prompt, no message

UpdateKinds == {"chunk", "full", "thought"}

ASSUME ConstantsAssumption ==
  /\ Load \notin Prompts /\ None \notin Prompts /\ Load # None
  /\ Kinds \subseteq UpdateKinds
  /\ MaxUpdates \in Nat /\ MaxReplay \in Nat /\ LateReplay \in Nat
  /\ PipeCap \in Nat \ {0}

VARIABLES
  stream,      \* lines of the agent not yet read, oldest first
  reader,      \* the update whose callback is still to run, None between lines
  observed,    \* observedSessionUpdates
  processed,   \* processedSessionUpdates
  suppress,    \* suppressSessionUpdates
  active,      \* activePromptSessionID # "": is any prompt active?
  chunks,      \* activePromptChunks
  lpc,         \* LoadSession: "call", "drain", "done", "failed"
  lastSeen,    \* lastObserved in waitForReplayDrain
  loadResp,    \* the load response as handed over, "none" before
  ppc,         \* ppc[p]: where the handler's Prompt p stands
  resp,        \* resp[p]: the prompt response as handed over
  tries,       \* tries[p]: client.Prompt calls made by p
  text,        \* text[p]: PromptResult.Text of the client
  result,      \* result[p]: the text the handler returns
  hchunks,     \* handler: chunks
  hfull,       \* handler: fullMessage
  shown,       \* updates passed to OnSessionUpdate, in order
  open,        \* prompts the agent is working on
  sent,        \* sent[p]: updates the agent emitted for p, in order
  replayed,    \* replay updates emitted so far
  overlapped   \* prompts that shared the client with another busy prompt

clientVars  == <<observed, processed, suppress, active, chunks>>
loadVars    == <<lpc, lastSeen>>
handlerVars == <<hchunks, hfull>>
agentVars   == <<open, sent, replayed>>
vars == <<stream, reader, clientVars, loadVars, loadResp, ppc, resp, tries,
          text, result, handlerVars, shown, agentVars, overlapped>>

Update(o, n, k) == [line |-> "update", of |-> o, n |-> n, kind |-> k]
Response(o, s)  == [line |-> "response", of |-> o, status |-> s]

LoadStatuses   == {"ok", "error"}
\* "own": the result itself carries text.
PromptStatuses == {"own", "plain", "error", "notfound"}

Owners  == Prompts \cup {Load}
Updates == [line : {"update"}, of : Owners, n : Nat \ {0}, kind : UpdateKinds]
Lines   == Updates
             \cup [line : {"response"}, of : {Load}, status : LoadStatuses]
             \cup [line : {"response"}, of : Prompts, status : PromptStatuses]

ASSUME NoneAssumption == None \notin Updates

PromptPlaces ==
  {"idle", "entered", "calling", "answered", "collected", "done", "failed"}

ReaderTypes ==
  /\ stream \in Seq(Lines)
  /\ reader \in Updates \cup {None}
  /\ observed \in Nat /\ processed \in Nat /\ lastSeen \in Nat
  /\ chunks \in Seq(Updates) /\ shown \in Seq(Updates)
  /\ lpc \in {"call", "drain", "done", "failed"}
  /\ loadResp \in LoadStatuses \cup {"none"}

FlagTypes == suppress \in BOOLEAN /\ active \in BOOLEAN

PromptTypes ==
  /\ ppc \in [Prompts -> PromptPlaces]
  /\ resp \in [Prompts -> PromptStatuses \cup {"none"}]
  /\ tries \in [Prompts -> 0..2]
  /\ text \in [Prompts -> Seq(Updates)] /\ result \in [Prompts -> Seq(Updates)]
  /\ hchunks \in Seq(Updates) /\ hfull \in Updates \cup {None}

AgentTypes ==
  /\ open \subseteq Prompts /\ overlapped \subseteq Prompts
  /\ sent \in [Prompts -> Seq(Updates)]
  /\ replayed \in 0..MaxReplay + LateReplay

TypeOK == ReaderTypes /\ FlagTypes /\ PromptTypes /\ AgentTypes

Init ==
  /\ stream = <<>> /\ reader = None
  /\ observed = 0 /\ processed = 0 /\ lastSeen = 0
  /\ suppress = TRUE        \* LoadSession has set it and written its request
  /\ active = FALSE /\ chunks = <<>>
  /\ lpc = "call" /\ loadResp = "none"
  /\ ppc = [p \in Prompts |-> "idle"]
  /\ resp = [p \in Prompts |-> "none"]
  /\ tries = [p \in Prompts |-> 0]
  /\ text = [p \in Prompts |-> <<>>]
  /\ result = [p \in Prompts |-> <<>>]
  /\ hchunks = <<>> /\ hfull = None
  /\ shown = <<>>
  /\ open = {} /\ overlapped = {}
  /\ sent = [p \in Prompts |-> <<>>]
  /\ replayed = 0

-----------------------------------------------------------------------------
(* LoadSession *)

\* The deferred function lifts the suppression; the locals are gone.
EndLoad(place) == lpc' = place /\ suppress' = FALSE /\ lastSeen' = 0

LoadReturns ==
  /\ lpc = "call" /\ loadResp # "none"
  /\ \/ loadResp = "error" /\ EndLoad("failed")
     \/ loadResp = "ok" /\ lpc' = "drain" /\ UNCHANGED <<suppress, lastSeen>>
  /\ UNCHANGED <<stream, reader, observed, processed, active, chunks, loadResp,
                 ppc, resp, tries, text, result, handlerVars, shown,
                 agentVars, overlapped>>

\* One poll: a change of observed restarts the idle window, and the drain may
\* end once the window passes with nothing observed and unprocessed.
DrainPoll ==
  /\ lpc = "drain"
  /\ \/ observed # lastSeen /\ lastSeen' = observed /\ UNCHANGED <<lpc, suppress>>
     \/ observed = lastSeen /\ processed = observed /\ EndLoad("done")
  /\ UNCHANGED <<stream, reader, observed, processed, active, chunks, loadResp,
                 ppc, resp, tries, text, result, handlerVars, shown, agentVars,
                 overlapped>>

DrainTimesOut ==
  /\ lpc = "drain"
  /\ EndLoad("failed")
  /\ UNCHANGED <<stream, reader, observed, processed, active, chunks, loadResp,
                 ppc, resp, tries, text, result, handlerVars, shown, agentVars,
                 overlapped>>

\* Both ways out of LoadSession go on to prompts, the second over a session
\* that was created in its place.
Loaded == lpc \in {"done", "failed"}

-----------------------------------------------------------------------------
(* workingSessionHandler.Prompt and client.Prompt *)

Enter(p) ==
  /\ Loaded /\ ppc[p] = "idle"
  /\ ppc' = [ppc EXCEPT ![p] = "entered"]
  /\ hchunks' = <<>> /\ hfull' = None
  /\ UNCHANGED <<stream, reader, clientVars, loadVars, loadResp, resp, tries,
                 text, result, shown, agentVars, overlapped>>

Claim == active' = TRUE /\ chunks' = <<>>

\* The prompts with work, lines or a caller still in the client.
Busy == open \cup {q \in Prompts : ppc[q] = "calling"}
             \cup {q \in Prompts : \E i \in 1..Len(stream) : stream[i].of = q}

\* client.Prompt claims the buffer, then writes its request.
CallPrompt(p) ==
  /\ ppc[p] = "entered"
  /\ Claim
  /\ tries' = [tries EXCEPT ![p] = @ + 1]
  /\ resp' = [resp EXCEPT ![p] = "none"]
  /\ ppc' = [ppc EXCEPT ![p] = "calling"]
  /\ open' = open \cup {p}
  /\ overlapped' = IF Busy \ {p} = {} THEN overlapped
                   ELSE overlapped \cup Busy \cup {p}
  /\ UNCHANGED <<stream, reader, observed, processed, suppress, loadVars,
                 loadResp, text, result, handlerVars, shown, sent, replayed>>

Release == active' = FALSE /\ chunks' = <<>>

\* The response was received; text is taken from it, or else from the buffer,
\* and the deferred function releases the buffer.
TextOf(p) == IF resp[p] = "own" THEN <<>> ELSE chunks

Collect(p) ==
  /\ ppc[p] = "calling" /\ resp[p] \in {"own", "plain"}
  /\ text' = [text EXCEPT ![p] = TextOf(p)]
  /\ Release
  /\ ppc' = [ppc EXCEPT ![p] = "collected"]
  /\ UNCHANGED <<stream, reader, observed, processed, suppress, loadVars,
                 loadResp, resp, tries, result, handlerVars, shown, agentVars,
                 overlapped>>

\* An unknown session is recreated once and the prompt sent again; any other
\* error, a failed recreation or the command's deadline ends the prompt.
Fail(p) ==
  /\ ppc[p] = "calling"
  /\ Release
  /\ ppc' = [ppc EXCEPT ![p] =
               IF resp[p] = "notfound" /\ tries[p] < 2 THEN "answered"
               ELSE "failed"]
  /\ resp[p] \in {"error", "notfound", "none"}
  /\ UNCHANGED <<stream, reader, observed, processed, suppress, loadVars,
                 loadResp, resp, tries, text, result, handlerVars, shown,
                 agentVars, overlapped>>

Recreate(p) ==
  /\ ppc[p] = "answered"
  /\ ppc' \in {[ppc EXCEPT ![p] = q] : q \in {"entered", "failed"}}
  /\ UNCHANGED <<stream, reader, clientVars, loadVars, loadResp, resp, tries,
                 text, result, handlerVars, shown, agentVars, overlapped>>

\* The client's text, or what the handler captured itself if that is empty.
Captured == IF hfull # None THEN <<hfull>> ELSE hchunks

HandlerText(p) ==
  IF resp[p] = "own" \/ text[p] # <<>> THEN text[p] ELSE Captured

Return(p) ==
  /\ ppc[p] = "collected"
  /\ result' = [result EXCEPT ![p] = HandlerText(p)]
  /\ ppc' = [ppc EXCEPT ![p] = "done"]
  /\ UNCHANGED <<stream, reader, clientVars, loadVars, loadResp, resp, tries,
                 text, handlerVars, shown, agentVars, overlapped>>

-----------------------------------------------------------------------------
(* readLoop *)

\* Mutant of NextLine: the callback runs beside the reader.
NextLineAtOnce(line) ==
  /\ stream # <<>>
  /\ line = Head(stream)
  /\ stream' = Tail(stream)

NextLine(line) ==
  /\ reader = None
  /\ stream # <<>>
  /\ line = Head(stream)
  /\ stream' = Tail(stream)

\* Mutant of Buffered: the buffer is replaced, not appended to.
BufferedLast(u) == IF active THEN <<u>> ELSE chunks

\* First critical section of a session/update.
Buffered(u) == IF active THEN Append(chunks, u) ELSE chunks

\* Mutant of Withheld: the suppression begins with the load response.
WithheldInDrain == suppress /\ lpc = "drain"

Withheld == suppress

ReadUpdate(u) ==
  /\ NextLine(u) /\ u.line = "update"
  /\ observed' = observed + 1
  /\ chunks' = Buffered(u)
  /\ IF Withheld THEN processed' = observed' /\ UNCHANGED reader
     ELSE reader' = u /\ UNCHANGED processed
  /\ UNCHANGED <<suppress, active, loadVars, loadResp, ppc, resp, tries, text,
                 result, handlerVars, shown, agentVars, overlapped>>

\* captureSessionUpdate: assistant messages only.
Capture(u) ==
  CASE u.kind = "chunk" -> hchunks' = Append(hchunks, u) /\ UNCHANGED hfull
    [] u.kind = "full"  -> hfull' = u /\ UNCHANGED hchunks
    [] OTHER            -> UNCHANGED handlerVars

\* The callback runs outside the lock; then the update counts as processed.
Callback ==
  /\ reader # None
  /\ shown' = Append(shown, reader)
  /\ Capture(reader)
  /\ processed' = observed
  /\ reader' = None
  /\ UNCHANGED <<stream, observed, suppress, active, chunks, loadVars, loadResp,
                 ppc, resp, tries, text, result, agentVars, overlapped>>

ReadLoadResponse(s) ==
  /\ NextLine(Response(Load, s))
  /\ loadResp' = s
  /\ UNCHANGED <<reader, clientVars, loadVars, ppc, resp, tries, text, result,
                 handlerVars, shown, agentVars, overlapped>>

\* A response whose caller gave up finds no pending entry.
ReadPromptResponse(p, s) ==
  /\ NextLine(Response(p, s))
  /\ resp' = IF ppc[p] = "calling" THEN [resp EXCEPT ![p] = s] ELSE resp
  /\ UNCHANGED <<reader, clientVars, loadVars, loadResp, ppc, tries, text,
                 result, handlerVars, shown, agentVars, overlapped>>

ReaderStep ==
  \/ \E u \in Range(stream) : ReadUpdate(u)
  \/ Callback
  \/ \E s \in LoadStatuses : ReadLoadResponse(s)
  \/ \E p \in Prompts, s \in PromptStatuses : ReadPromptResponse(p, s)

-----------------------------------------------------------------------------
(* The agent: replays history around its load response, and emits a prompt's *)
(* updates between the prompt and its response.                              *)

LoadAnswered ==
  loadResp # "none" \/ \E s \in LoadStatuses : Contains(stream, Response(Load, s))

Emit(line) == Len(stream) < PipeCap /\ stream' = Append(stream, line)

AgentReplays ==
  /\ replayed < (IF LoadAnswered THEN MaxReplay + LateReplay ELSE MaxReplay)
  /\ replayed' = replayed + 1
  /\ Emit(Update(Load, replayed', "chunk"))
  /\ UNCHANGED <<reader, clientVars, loadVars, loadResp, ppc, resp, tries, text,
                 result, handlerVars, shown, open, sent, overlapped>>

\* Without late replay, the replay stops at the response.
AgentLoads(s) ==
  /\ ~LoadAnswered
  /\ Emit(Response(Load, s))
  /\ replayed' = MaxReplay
  /\ UNCHANGED <<reader, clientVars, loadVars, loadResp, ppc, resp, tries, text,
                 result, handlerVars, shown, open, sent, overlapped>>

\* The updates emitted for all prompts together.
Emitted == MapThenSumSet(LAMBDA q : Len(sent[q]), Prompts)

AgentUpdates(p, k) ==
  /\ p \in open
  /\ Emitted < MaxUpdates
  /\ LET u == Update(p, Len(sent[p]) + 1, k) IN
       Emit(u) /\ sent' = [sent EXCEPT ![p] = Append(@, u)]
  /\ UNCHANGED <<reader, clientVars, loadVars, loadResp, ppc, resp, tries, text,
                 result, handlerVars, shown, open, replayed, overlapped>>

\* An unknown session is refused before any update.
AgentAnswers(p, s) ==
  /\ p \in open
  /\ s = "notfound" => sent[p] = <<>>
  /\ Emit(Response(p, s))
  /\ open' = open \ {p}
  /\ UNCHANGED <<reader, clientVars, loadVars, loadResp, ppc, resp, tries, text,
                 result, handlerVars, shown, sent, replayed, overlapped>>

-----------------------------------------------------------------------------
Next ==
  \/ LoadReturns \/ DrainPoll \/ DrainTimesOut
  \/ \E p \in Prompts : \/ Enter(p) \/ CallPrompt(p) \/ Collect(p) \/ Fail(p)
                        \/ Recreate(p) \/ Return(p)
  \/ ReaderStep
  \/ AgentReplays
  \/ \E s \in LoadStatuses : AgentLoads(s)
  \/ \E p \in Prompts, k \in Kinds : AgentUpdates(p, k)
  \/ \E p \in Prompts, s \in PromptStatuses : AgentAnswers(p, s)

Spec == Init /\ [][Next]_vars

-----------------------------------------------------------------------------
(* Properties *)

\* Of what was emitted for p, a sequence holds everything, once, in order.
Complete(p, updates) ==
  /\ \A i \in 1..Len(sent[p]) : \E j \in 1..Len(updates) : updates[j] = sent[p][i]
  /\ \A j, k \in 1..Len(updates) :
       j < k /\ updates[j].of = p /\ updates[k].of = p
         => updates[j].n < updates[k].n

\* A prompt that had the agent to itself returns exactly the updates emitted
\* for it, in order: nothing of an earlier prompt, nothing lost to the
\* hand-over of its response, and of the history nothing but what the agent
\* replayed after it had answered the load (Prompt 245-284).
TextExact ==
  \A p \in Prompts \ overlapped :
    ppc[p] = "collected" /\ resp[p] = "plain" =>
      /\ Complete(p, text[p])
      /\ \A i \in 1..Len(text[p]) :
           \/ text[p][i] \in Range(sent[p])
           \/ text[p][i].of = Load /\ text[p][i].n > MaxReplay

\* When a prompt returns, all its updates have been streamed, so a command
\* that exits right after it has shown the whole answer (root.go 165).
StreamedBeforeReturn ==
  \A p \in Prompts :
    ppc[p] \in {"collected", "done"} => Complete(p, shown)

\* Updates replayed before the load response never reach the callback.
ReplaySuppressed ==
  \A i \in 1..Len(shown) : shown[i].of = Load => shown[i].n > MaxReplay

\* "Full message (not a chunk): use it alone to avoid duplicating chunk
\* content" (runtime.go:356).
FullMessageAlone ==
  \A p \in Prompts \ overlapped :
    ppc[p] = "done" /\ (\E i \in 1..Len(result[p]) : result[p][i].kind = "full")
      => \A i \in 1..Len(result[p]) : result[p][i].kind # "chunk"
=============================================================================
