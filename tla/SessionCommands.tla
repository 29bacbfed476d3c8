--------------------------- MODULE SessionCommands ---------------------------
(***************************************************************************)
(* The commands of codeye over one session record (internal/cli/root.go    *)
(* and internal/session/runtime.go).                                       *)
(*                                                                         *)
(* A member of Commands is one execution of codeye, a process of its own   *)
(* with an agent of its own.  It reads the record, starts the agent, loads *)
(* the session or creates another, runs one operation and closes the       *)
(* agent.  What is saved is the copy read at the start.  Agents keep their *)
(* sessions when their process ends, and may refuse to load them.          *)
(*                                                                         *)
(* A Save is one step here; SessionStore has the file operations.          *)
(***************************************************************************)
EXTENDS FiniteSets, Naturals

CONSTANTS
  Commands,  \* executions of codeye
  Kind,      \* Kind[c]: what command c is
  Sessions,  \* sessions agents may create
  CanLoad,   \* do agents advertise session/load?
  MayRefuse, \* may an agent refuse to load a session it created?
  None       \* no session, no record

Kinds == {"new", "prompt", "set", "cancel", "close"}

\* Commands that act on the recorded session, through an agent.
Using == {"prompt", "set", "cancel"}

Records == [session : Sessions, closed : BOOLEAN]

ASSUME ConstantsAssumption ==
  /\ Kind \in [Commands -> Kinds] /\ None \notin Sessions \cup Records
  /\ CanLoad \in BOOLEAN /\ MayRefuse \in BOOLEAN
  /\ \A c, d \in Commands : Kind[c] = "new" /\ Kind[d] = "new" => c = d

VARIABLES
  record,    \* the record on disk: its session and the closed mark
  made,      \* sessions agents have created
  pc,        \* pc[c]: where command c is
  copy,      \* copy[c]: its copy of the record
  sid,       \* sid[c]: the session it works with
  agent,     \* agent[c]: the agent process it started
  held,      \* held[c]: the sessions that agent has loaded or created
  sent,      \* sent[c]: the session its operation was sent for
  cancelled, \* cancelled[c]: the sessions its agent was told to cancel
  lost,      \* commands whose session/load failed
  sealed,    \* was the record closed while no other command was under way?
  undisturbed \* has no command met another, been killed, or failed to save?

vars == <<record, made, pc, copy, sid, agent, held, sent, cancelled,
          lost, sealed, undisturbed>>

local == <<made, agent, held, sent, cancelled, lost>>

\* Every variable holds values of its kind; in particular the record, once it
\* is there, names a session, and so does the copy of a command.
TypeOK ==
  /\ record \in Records \cup {None} /\ made \subseteq Sessions
  /\ pc \in [Commands -> {"idle", "start", "load", "create", "save",
                          "operate", "await", "closing", "done", "killed"}]
  /\ copy \in [Commands -> Records \cup {None}]
  /\ sid \in [Commands -> Sessions \cup {None}]
  /\ agent \in [Commands -> {"none", "up", "dead", "left"}]
  /\ held \in [Commands -> SUBSET made]
  /\ sent \in [Commands -> made \cup {None}]
  /\ cancelled \in [Commands -> SUBSET made]
  /\ lost \subseteq Commands
  /\ sealed \in BOOLEAN /\ undisturbed \in BOOLEAN

Init ==
  /\ record = None /\ made = {}
  /\ pc = [c \in Commands |-> "idle"]
  /\ copy = [c \in Commands |-> None]
  /\ sid = [c \in Commands |-> None]
  /\ agent = [c \in Commands |-> "none"]
  /\ held = [c \in Commands |-> {}]
  /\ sent = [c \in Commands |-> None]
  /\ cancelled = [c \in Commands |-> {}]
  /\ lost = {} /\ sealed = FALSE /\ undisturbed = TRUE

Others(c)   == {d \in Commands \ {c} : pc[d] \notin {"idle", "done", "killed"}}
Live(c)     == agent[c] = "up"
Goto(c, to) == pc' = [pc EXCEPT ![c] = to]

\* The locals of a command are gone with it.
Forget(c) ==
  /\ copy' = [copy EXCEPT ![c] = None]
  /\ sid' = [sid EXCEPT ![c] = None]
  /\ held' = [held EXCEPT ![c] = {}]

\* Mutant of Return: an error is returned before Close is deferred.
ReturnAtOnce(c, res) ==
  Goto(c, IF res = "error" \/ agent[c] = "none" THEN "done" ELSE "closing")

\* Returning runs the deferred Close, if there is an agent to close.
Return(c, res) == Goto(c, IF agent[c] = "none" THEN "done" ELSE "closing")

-----------------------------------------------------------------------------
(* The command reads the record and starts its agent *)

\* Mutant of ReadRecord: the closed mark is not looked at.
ReadRecordUnchecked(c) ==
  /\ pc[c] = "idle" /\ Kind[c] \in Using \cup {"close"} /\ record # None
  /\ copy' = [copy EXCEPT ![c] = record]
  /\ Goto(c, IF Kind[c] = "close" THEN "save" ELSE "start")
  /\ undisturbed' = (undisturbed /\ Others(c) = {})
  /\ UNCHANGED <<record, sid, sealed>> /\ UNCHANGED local

ReadRecord(c) ==
  /\ pc[c] = "idle" /\ Kind[c] \in Using \cup {"close"}
  /\ record # None /\ (record.closed => Kind[c] = "close")
  /\ copy' = [copy EXCEPT ![c] = record]
  /\ Goto(c, IF Kind[c] = "close" THEN "save" ELSE "start")
  /\ undisturbed' = (undisturbed /\ Others(c) = {})
  /\ UNCHANGED <<record, sid, sealed>> /\ UNCHANGED local

\* "session not found" or "session closed".
Refused(c) ==
  /\ pc[c] = "idle" /\ Kind[c] \in Using \cup {"close"}
  /\ record # None => record.closed /\ Kind[c] # "close"
  /\ Goto(c, "done")
  /\ UNCHANGED <<record, copy, sid, sealed, undisturbed>> /\ UNCHANGED local

BeginAnew(c) ==
  /\ pc[c] = "idle" /\ Kind[c] = "new"
  /\ Goto(c, "start")
  /\ undisturbed' = (undisturbed /\ Others(c) = {})
  /\ UNCHANGED <<record, copy, sid, sealed>> /\ UNCHANGED local

StartAgent(c) ==
  /\ pc[c] = "start"
  /\ agent' = [agent EXCEPT ![c] = "up"]
  /\ Goto(c, IF Kind[c] \in Using THEN "load" ELSE "create")
  /\ UNCHANGED <<record, made, copy, sid, held, sent, cancelled, lost,
                 sealed, undisturbed>>

\* No process, or one that failed the handshake and is left to itself: Close is
\* deferred only when Start has succeeded.
StartFails(c) ==
  /\ pc[c] = "start"
  /\ \E a \in {"none", "left"} : agent' = [agent EXCEPT ![c] = a]
  /\ Goto(c, "done") /\ Forget(c)
  /\ UNCHANGED <<record, made, sent, cancelled, lost, sealed, undisturbed>>

-----------------------------------------------------------------------------
(* The session is loaded, or another created and saved *)

\* Mutant of Loaded: a session is created whether or not one was loaded.
LoadedAnew(c) ==
  /\ pc[c] = "load" /\ Live(c) /\ CanLoad
  /\ held' = [held EXCEPT ![c] = @ \cup {copy[c].session}]
  /\ Goto(c, "create")
  /\ UNCHANGED <<record, made, copy, sid, agent, sent, cancelled, lost,
                 sealed, undisturbed>>

Loaded(c) ==
  /\ pc[c] = "load" /\ Live(c) /\ CanLoad
  /\ held' = [held EXCEPT ![c] = @ \cup {copy[c].session}]
  /\ sid' = [sid EXCEPT ![c] = copy[c].session]
  /\ Goto(c, "operate")
  /\ UNCHANGED <<record, made, copy, agent, sent, cancelled, lost,
                 sealed, undisturbed>>

\* The agent cannot load, refuses or is gone; or it has loaded the session, and
\* the drain of the replay timed out.
LoadFails(c) ==
  /\ pc[c] = "load"
  /\ \/ /\ ~CanLoad \/ ~Live(c) \/ MayRefuse
        /\ UNCHANGED held
     \/ /\ CanLoad /\ Live(c)
        /\ held' = [held EXCEPT ![c] = @ \cup {copy[c].session}]
  /\ lost' = lost \cup {c}
  /\ Goto(c, "create")
  /\ UNCHANGED <<record, made, copy, sid, agent, sent, cancelled,
                 sealed, undisturbed>>

\* Mutant of Adopt: the operation goes to the session that was not loaded.
AdoptInRecord(c, s) ==
  /\ sid' = [sid EXCEPT ![c] = IF copy[c] = None THEN s ELSE copy[c].session]
  /\ copy' = [copy EXCEPT ![c] =
                [session |-> s, closed |-> @ # None /\ @.closed]]

\* Mutant of Adopt: the session is saved as it was read.
AdoptInCall(c, s) ==
  /\ sid' = [sid EXCEPT ![c] = s]
  /\ copy' = IF Kind[c] # "new" THEN copy
             ELSE [copy EXCEPT ![c] = [session |-> s, closed |-> FALSE]]

\* The new session takes the place of the old one.
Adopt(c, s) ==
  /\ sid' = [sid EXCEPT ![c] = s]
  /\ copy' = [copy EXCEPT ![c] =
                [session |-> s, closed |-> @ # None /\ @.closed]]

Created(c) ==
  /\ pc[c] = "create" /\ Live(c)
  /\ \E s \in Sessions \ made :
       /\ made' = made \cup {s}
       /\ held' = [held EXCEPT ![c] = @ \cup {s}]
       /\ Adopt(c, s)
  /\ Goto(c, "save")
  /\ UNCHANGED <<record, agent, sent, cancelled, lost, sealed, undisturbed>>

\* An error, an empty identifier, or an answer after the deadline.
CreateFails(c) ==
  /\ pc[c] = "create"
  /\ \/ UNCHANGED <<made, held>>
     \/ /\ Live(c)
        /\ \E s \in Sessions \ made :
             /\ made' = made \cup {s}
             /\ held' = [held EXCEPT ![c] = @ \cup {s}]
  /\ Return(c, "error")
  /\ UNCHANGED <<record, copy, sid, agent, sent, cancelled, lost, sealed,
                 undisturbed>>

\* What Save writes: the copy, marked by `sessions close`.
Saved(c) ==
  [session |-> copy[c].session,
   closed  |-> copy[c].closed \/ Kind[c] = "close"]

\* `new` and `close` end with their Save; the others go on to the operation.
AfterSave(c, res) ==
  IF Kind[c] \in Using
  THEN Goto(c, "operate")
  ELSE Return(c, res)

Save(c) ==
  /\ pc[c] = "save"
  /\ record' = Saved(c)
  /\ sealed' = (sealed \/ (Kind[c] = "close" /\ Others(c) = {}))
  /\ AfterSave(c, "ok")
  /\ UNCHANGED <<copy, sid, undisturbed>> /\ UNCHANGED local

\* Save fails before or after the record file was written.
SaveFails(c) ==
  /\ pc[c] = "save"
  /\ \/ UNCHANGED record
     \/ record' = Saved(c)
  /\ AfterSave(c, "error")
  /\ undisturbed' = FALSE
  /\ UNCHANGED <<copy, sid, sealed>> /\ UNCHANGED local

-----------------------------------------------------------------------------
(* The operation, and the end *)

Request(c) ==
  /\ pc[c] = "operate" /\ Kind[c] # "cancel" /\ Live(c)
  /\ sent' = [sent EXCEPT ![c] = sid[c]]
  /\ Goto(c, "await")
  /\ UNCHANGED <<record, made, copy, sid, agent, held, cancelled, lost,
                 sealed, undisturbed>>

\* session/cancel is a notification: nothing is waited for.
Cancel(c) ==
  /\ pc[c] = "operate" /\ Kind[c] = "cancel" /\ Live(c)
  /\ sent' = [sent EXCEPT ![c] = sid[c]]
  /\ cancelled' = [cancelled EXCEPT ![c] = @ \cup {sid[c]}]
  /\ Return(c, "ok")
  /\ UNCHANGED <<record, made, copy, sid, agent, held, lost, sealed,
                 undisturbed>>

\* The agent lacks the capability, is gone, or answers with an error.
OperationFails(c) ==
  /\ \/ pc[c] = "operate"
     \/ pc[c] = "await" /\ Live(c)
  /\ Return(c, "error")
  /\ UNCHANGED <<record, copy, sid, sealed, undisturbed>> /\ UNCHANGED local

Answered(c) ==
  /\ pc[c] = "await" /\ Live(c)
  /\ Return(c, "ok")
  /\ UNCHANGED <<record, copy, sid, sealed, undisturbed>> /\ UNCHANGED local

CloseAgent(c) ==
  /\ pc[c] = "closing"
  /\ agent' = [agent EXCEPT ![c] = "dead"]
  /\ Goto(c, "done") /\ Forget(c)
  /\ UNCHANGED <<record, made, sent, cancelled, lost, sealed, undisturbed>>

\* Seen at the next use of the agent.
AgentDies(c) ==
  /\ Live(c) /\ pc[c] \in {"load", "create", "operate", "await"}
  /\ agent' = [agent EXCEPT ![c] = "dead"]
  /\ UNCHANGED <<record, made, pc, copy, sid, held, sent, cancelled,
                 lost, sealed, undisturbed>>

Kill(c) ==
  /\ pc[c] \notin {"idle", "done", "killed"}
  /\ Goto(c, "killed") /\ Forget(c)
  /\ undisturbed' = FALSE
  /\ UNCHANGED <<record, made, agent, sent, cancelled, lost, sealed>>

-----------------------------------------------------------------------------
Next ==
  \E c \in Commands :
    \/ ReadRecord(c) \/ Refused(c) \/ BeginAnew(c)
    \/ StartAgent(c) \/ StartFails(c)
    \/ Loaded(c) \/ LoadFails(c) \/ Created(c) \/ CreateFails(c)
    \/ Save(c) \/ SaveFails(c)
    \/ Request(c) \/ Cancel(c) \/ OperationFails(c) \/ Answered(c)
    \/ CloseAgent(c) \/ AgentDies(c) \/ Kill(c)

Spec == Init /\ [][Next]_vars

-----------------------------------------------------------------------------
(* Properties *)

\* An operation is sent for a session that the command's own agent has loaded
\* or created, on the loading and on the fallback path (runtime.go 80-90).
OwnSession ==
  [][\A c \in Commands : sent'[c] # sent[c] => sent'[c] \in held[c]]_vars

\* A session closed while no other command was under way stays closed, its
\* record stays as it is, and no agent is sent anything for it any more,
\* whatever commands come later and wherever they fail.
SealedIsFinal ==
  [][sealed => /\ record' = record
               /\ \A c \in Commands :
                    Kind[c] \in Using => sent'[c] = sent[c]]_vars

\* While commands follow each other and saves succeed, an operation goes to the
\* session the record names at that moment: a session created as a fallback was
\* saved first (runtime.go 86-88, 132-134).
SentIsRecorded ==
  undisturbed =>
    \A c \in Commands :
      pc[c] = "await" /\ Kind[c] \in Using => sent[c] = record.session

\* The conversation is split over no more sessions than loads have failed, even
\* among commands that overwrite each other's record, are killed or fail to
\* save.
SplitsAreLosses ==
  LET used == {sent[c] : c \in {d \in Commands : Kind[d] \in Using}} \ {None} IN
  Cardinality(used) <= 1 + Cardinality(lost)

\* A command that ran to its end and had started its agent leaves no agent
\* behind, on whichever of its error paths it returned.
AgentsGone == \A c \in Commands : pc[c] = "done" => ~Live(c)

-----------------------------------------------------------------------------
(* What the documentation says *)

\* "Mark the session closed" (README.md:100).
CloseSticks == [][record # None /\ record.closed => record'.closed]_vars

\* "Cooperatively cancel an in-flight prompt" (README.md:92): the agent that is
\* working on the prompt is told.
CancelReaches ==
  [][\A c, p \in Commands :
       Kind[c] = "cancel" /\ sent'[c] # sent[c] /\ Kind[p] = "prompt"
         /\ pc[p] = "await" /\ sent[p] = sent'[c]
       => sent[p] \in cancelled'[p]]_vars
=============================================================================
