------------------------ MODULE SessionCommandsProofs ------------------------
(***************************************************************************)
(* Theorems about SessionCommands, for any commands, sessions and agents.  *)
(***************************************************************************)
EXTENDS SessionCommands, FiniteSetTheorems, TLAPS

\* A command that is about to use its copy or its session has one, and only
\* commands with a record save.
Placed ==
  \A c \in Commands :
    /\ pc[c] \in {"start", "load", "create"} =>
         /\ Kind[c] # "close"
         /\ Kind[c] \in Using => copy[c] # None
    /\ pc[c] = "load" => Kind[c] \in Using
    /\ pc[c] = "save" => /\ copy[c] # None
                         /\ Kind[c] \in Using => sid[c] \in held[c]
    /\ pc[c] = "operate" => sid[c] \in held[c]

\* Sessions anyone names have been created.
Known ==
  /\ record # None => record.session \in made
  /\ \A c \in Commands :
       /\ copy[c] # None => copy[c].session \in made
       /\ sid[c] # None => sid[c] \in made

Typed == TypeOK /\ Placed /\ Known

\* Once there is a record, the command that creates it has saved.
Founded ==
  /\ \A c \in Commands :
       Kind[c] \in Using \cup {"close"} /\ copy[c] # None => record # None
  /\ record # None =>
       \A c \in Commands :
         Kind[c] = "new" => pc[c] \notin {"idle", "start", "create", "save"}

\* A sealed record is closed, no command that would use it is under way, and
\* another close can only save it as it is.
Closed ==
  sealed =>
    /\ record # None /\ record.closed
    /\ \A c \in Commands :
         /\ Kind[c] \in Using =>
              pc[c] \notin {"start", "load", "create", "save", "operate"}
         /\ Kind[c] = "close" /\ pc[c] = "save" => copy[c] = record

SealInv == Typed /\ Founded /\ Closed

\* While nothing disturbs, one command is under way at most.
Active(c) == pc[c] \notin {"idle", "done", "killed"}

Alone == \A c, d \in Commands : Active(c) /\ Active(d) => c = d

\* What the one command holds is what the record says, or is about to say.
InStep(c) ==
  /\ pc[c] \in {"start", "load", "create"} => copy[c] = record
  /\ pc[c] = "save" => copy[c].session = sid[c]
  /\ pc[c] = "operate" => sid[c] = record.session
  /\ pc[c] = "await" => sent[c] = record.session

Orderly ==
  undisturbed =>
    Alone /\ \A c \in Commands : Kind[c] \in Using => InStep(c)

\* Commands that may create a session: those whose load failed, and `new`.
Anew == {c \in Commands : Kind[c] = "new"}

Creators == lost \cup Anew

\* Those that are past it.
Past == {c \in Creators : pc[c] \notin {"idle", "start", "load", "create"}}

\* Each creates one session at most.
Counted ==
  /\ IsFiniteSet(lost) /\ IsFiniteSet(made)
  /\ Cardinality(made) <= Cardinality(Past)
  /\ \A c \in Commands : pc[c] = "create" => c \in Creators

-----------------------------------------------------------------------------
\* The initial state satisfies the invariant.
LEMMA InitSeal == Init => SealInv
  BY DEF Init, SealInv, Typed, TypeOK, Placed, Known, Founded, Closed, Records

\* Starting a command, from the first look at the record to its agent, keeps
\* the types.
LEMMA BeginTyped ==
  ASSUME Typed, NEW c \in Commands,
         ReadRecord(c) \/ Refused(c) \/ BeginAnew(c) \/ StartAgent(c)
           \/ StartFails(c)
  PROVE  Typed'
<1>. USE ConstantsAssumption
     DEF Typed, TypeOK, Placed, Known, Records, Using, Goto, local
<1>1. CASE ReadRecord(c)
  BY <1>1 DEF ReadRecord
<1>2. CASE Refused(c)
  BY <1>2 DEF Refused
<1>3. CASE BeginAnew(c)
  BY <1>3 DEF BeginAnew
<1>4. CASE StartAgent(c)
  BY <1>4 DEF StartAgent
<1>5. CASE StartFails(c)
  BY <1>5 DEF StartFails, Forget
<1>. QED BY <1>1, <1>2, <1>3, <1>4, <1>5

\* Loading, creating and saving keep the types: a session is created before it
\* is named anywhere.
LEMMA SessionTyped ==
  ASSUME Typed, NEW c \in Commands,
         Loaded(c) \/ LoadFails(c) \/ Created(c) \/ CreateFails(c) \/ Save(c)
           \/ SaveFails(c)
  PROVE  Typed'
<1>. USE ConstantsAssumption
     DEF Typed, TypeOK, Placed, Known, Records, Using, Goto, local
<1>1. CASE Loaded(c)
  BY <1>1 DEF Loaded
<1>2. CASE LoadFails(c)
  BY <1>2 DEF LoadFails
<1>3. CASE Created(c)
  <2>1. PICK s \in Sessions \ made :
          /\ made' = made \cup {s}
          /\ held' = [held EXCEPT ![c] = @ \cup {s}]
          /\ Adopt(c, s)
    BY <1>3 DEF Created
  <2>2. /\ sid' = [sid EXCEPT ![c] = s]
        /\ \E b \in BOOLEAN :
             copy' = [copy EXCEPT ![c] = [session |-> s, closed |-> b]]
    BY <2>1 DEF Adopt
  <2>3. /\ pc' = [pc EXCEPT ![c] = "save"]
        /\ UNCHANGED <<record, agent, sent, cancelled, lost, sealed, undisturbed>>
    BY <1>3 DEF Created
  <2>4. TypeOK'
    BY <2>1, <2>2, <2>3
  <2>5. Placed'
    BY <2>1, <2>2, <2>3
  <2>6. /\ made \subseteq made'
        /\ \A d \in Commands :
             /\ copy'[d] # None => copy'[d] = copy[d] \/ copy'[d].session = s
             /\ sid'[d] # None => sid'[d] = sid[d] \/ sid'[d] = s
    BY <2>1, <2>2
  <2>7. Known'
    BY <2>1, <2>3, <2>6
  <2>. QED BY <2>4, <2>5, <2>7
<1>4. CASE CreateFails(c)
  <2>1. /\ pc' \in [Commands -> {"idle", "start", "load", "create", "save",
                                 "operate", "await", "closing", "done", "killed"}]
        /\ pc'[c] \in {"done", "closing"}
        /\ \A d \in Commands \ {c} : pc'[d] = pc[d]
    BY <1>4 DEF CreateFails, Return
  <2>2. /\ made \subseteq made' /\ made' \subseteq Sessions
        /\ held' \in [Commands -> SUBSET made']
        /\ \A d \in Commands : held[d] \subseteq held'[d]
    BY <1>4 DEF CreateFails
  <2>3. UNCHANGED <<record, copy, sid, agent, sent, cancelled, lost, sealed,
                    undisturbed>>
    BY <1>4 DEF CreateFails
  <2>4. TypeOK'
    BY <2>1, <2>2, <2>3
  <2>5. Placed'
    BY <2>1, <2>2, <2>3
  <2>6. Known'
    BY <2>2, <2>3
  <2>. QED BY <2>4, <2>5, <2>6
<1>5. CASE Save(c)
  BY <1>5 DEF Save, Saved, AfterSave, Return
<1>6. CASE SaveFails(c)
  <2>1. /\ record' \in {record, Saved(c)}
        /\ Saved(c) \in Records /\ Saved(c).session = copy[c].session
    BY <1>6 DEF SaveFails, Saved
  <2>2. /\ pc[c] = "save"
        /\ pc' = [pc EXCEPT ![c] = IF Kind[c] \in Using THEN "operate"
                                  ELSE IF agent[c] = "none" THEN "done"
                                  ELSE "closing"]
        /\ undisturbed' = FALSE
        /\ UNCHANGED <<made, copy, sid, agent, held, sent, cancelled, lost,
                       sealed>>
    BY <1>6 DEF SaveFails, AfterSave, Return
  <2>3. TypeOK'
    BY <2>1, <2>2
  <2>4. Placed'
    BY <2>2
  <2>5. Known'
    BY <2>1, <2>2
  <2>. QED BY <2>3, <2>4, <2>5
<1>. QED BY <1>1, <1>2, <1>3, <1>4, <1>5, <1>6

\* The operation and every way to end keep the types.
LEMMA EndTyped ==
  ASSUME Typed, NEW c \in Commands,
         Request(c) \/ Cancel(c) \/ OperationFails(c) \/ Answered(c)
           \/ CloseAgent(c) \/ AgentDies(c) \/ Kill(c)
  PROVE  Typed'
<1>. USE ConstantsAssumption
     DEF Typed, TypeOK, Placed, Known, Records, Using, Goto, local
<1>1. CASE Request(c)
  BY <1>1 DEF Request
<1>2. CASE Cancel(c)
  BY <1>2 DEF Cancel, Return
<1>3. CASE OperationFails(c)
  BY <1>3 DEF OperationFails, Return
<1>4. CASE Answered(c)
  BY <1>4 DEF Answered, Return
<1>5. CASE CloseAgent(c)
  BY <1>5 DEF CloseAgent, Forget
<1>6. CASE AgentDies(c)
  BY <1>6 DEF AgentDies
<1>7. CASE Kill(c)
  BY <1>7 DEF Kill, Forget
<1>. QED BY <1>1, <1>2, <1>3, <1>4, <1>5, <1>6, <1>7

\* Every step keeps the types.
LEMMA StepTyped == Typed /\ [Next]_vars => Typed'
<1>1. CASE Typed /\ Next
  BY <1>1, BeginTyped, SessionTyped, EndTyped DEF Next
<1>2. CASE Typed /\ UNCHANGED vars
  BY <1>2 DEF vars, Typed, TypeOK, Placed, Known
<1>. QED BY <1>1, <1>2

\* Every variable of a command, and the record, holds values of its kind; the
\* record always names a session that an agent created.
THEOREM TypeCorrect == Spec => []TypeOK
<1>1. Init => Typed
  BY InitSeal DEF SealInv
<1>2. Typed => TypeOK
  BY DEF Typed
<1>. QED BY <1>1, <1>2, StepTyped, PTL DEF Spec

-----------------------------------------------------------------------------
\* A save keeps what is known of the record: the first one is made by the
\* command that creates it, the others by commands that have read it, and after
\* the sealing one only closes are left, with the same copy.
LEMMA SaveSeals ==
  ASSUME SealInv, NEW c \in Commands, Save(c) \/ SaveFails(c)
  PROVE  Founded' /\ Closed' /\ (sealed => record' = record)
<1>. USE ConstantsAssumption
     DEF SealInv, Typed, TypeOK, Placed, Using
<1>1. /\ pc[c] = "save" /\ record' \in {record, Saved(c)}
      /\ UNCHANGED copy
      /\ pc' = [pc EXCEPT ![c] = IF Kind[c] \in Using THEN "operate"
                                 ELSE IF agent[c] = "none" THEN "done"
                                 ELSE "closing"]
  BY DEF Save, SaveFails, AfterSave, Return, Goto
<1>2. /\ copy[c] \in Records /\ Saved(c) \in Records
      /\ Saved(c).closed = (copy[c].closed \/ Kind[c] = "close")
      /\ Saved(c).session = copy[c].session
  BY <1>1 DEF Saved, Records
<1>3. sealed => record' = record
  <2>1. CASE sealed
    <3>1. Kind[c] = "close" /\ copy[c] = record /\ record.closed
      BY <2>1, <1>1 DEF Founded, Closed, Kinds
    <3>2. Saved(c) = record
      BY <3>1, <1>2 DEF Saved, Records
    <3>. QED BY <3>2, <1>1
  <2>. QED BY <2>1
<1>4. Founded'
  BY <1>1, <1>2 DEF Founded, Kinds
<1>5. Closed'
  <2>1. CASE sealed
    BY <2>1, <1>1, <1>3 DEF Closed, Save, SaveFails
  <2>2. CASE ~sealed /\ sealed'
    <3>1. Save(c) /\ Kind[c] = "close" /\ Others(c) = {}
      BY <2>2 DEF Save, SaveFails
    <3>2. record' # None /\ record'.closed
      BY <3>1, <1>2 DEF Save
    <3>3. \A d \in Commands \ {c} : pc'[d] \in {"idle", "done", "killed"}
      BY <3>1, <1>1 DEF Others
    <3>4. pc'[c] \in {"done", "closing"}
      BY <3>1, <1>1
    <3>. QED BY <3>1, <3>2, <3>3, <3>4 DEF Closed
  <2>. QED BY <2>1, <2>2 DEF Closed
<1>. QED BY <1>3, <1>4, <1>5

\* Steps that leave the record alone keep the invariant: the closed mark stops
\* the commands that would use it.
LEMMA OtherSeals ==
  ASSUME SealInv, NEW c \in Commands, ~Save(c), ~SaveFails(c),
         ReadRecord(c) \/ Refused(c) \/ BeginAnew(c)
           \/ StartAgent(c) \/ StartFails(c)
           \/ Loaded(c) \/ LoadFails(c) \/ Created(c) \/ CreateFails(c)
           \/ Save(c) \/ SaveFails(c)
           \/ Request(c) \/ Cancel(c) \/ OperationFails(c) \/ Answered(c)
           \/ CloseAgent(c) \/ AgentDies(c) \/ Kill(c)
  PROVE  Founded' /\ Closed' /\ record' = record
<1>. USE ConstantsAssumption
     DEF SealInv, Typed, TypeOK, Placed, Founded, Closed, Using, Goto, local
<1>1. CASE ReadRecord(c)
  BY <1>1 DEF ReadRecord
<1>2. CASE Refused(c)
  BY <1>2 DEF Refused
<1>3. CASE BeginAnew(c)
  BY <1>3 DEF BeginAnew
<1>4. CASE StartAgent(c) \/ StartFails(c)
  BY <1>4 DEF StartAgent, StartFails, Forget
<1>5. CASE Loaded(c) \/ LoadFails(c)
  BY <1>5 DEF Loaded, LoadFails
<1>6. CASE Created(c)
  <2>1. PICK s : Adopt(c, s)
    BY <1>6 DEF Created
  <2>2. \A d \in Commands \ {c} : copy'[d] = copy[d]
    BY <2>1 DEF Adopt
  <2>3. /\ pc[c] = "create" /\ UNCHANGED <<record, sealed>>
        /\ pc' = [pc EXCEPT ![c] = "save"]
    BY <1>6 DEF Created
  <2>. QED BY <2>2, <2>3
<1>7. CASE CreateFails(c)
  <2>1. /\ pc[c] = "create" /\ UNCHANGED <<record, copy, sealed>>
        /\ pc' = [pc EXCEPT ![c] = IF agent[c] = "none" THEN "done" ELSE "closing"]
    BY <1>7 DEF CreateFails, Return
  <2>. QED BY <2>1
<1>8. CASE Request(c) \/ Cancel(c) \/ OperationFails(c) \/ Answered(c)
  BY <1>8 DEF Request, Cancel, OperationFails, Answered, Return
<1>9. CASE CloseAgent(c) \/ AgentDies(c) \/ Kill(c)
  BY <1>9 DEF CloseAgent, AgentDies, Kill, Forget
<1>. QED BY <1>1, <1>2, <1>3, <1>4, <1>5, <1>6, <1>7, <1>8, <1>9

\* Every step keeps the invariant, and what a sealed record is.
LEMMA StepSeal ==
  SealInv /\ [Next]_vars => SealInv' /\ (sealed => record' = record)
<1>1. CASE SealInv /\ Next
  <2>1. Typed'
    BY <1>1, StepTyped DEF SealInv
  <2>2. PICK c \in Commands :
          ReadRecord(c) \/ Refused(c) \/ BeginAnew(c)
            \/ StartAgent(c) \/ StartFails(c)
            \/ Loaded(c) \/ LoadFails(c) \/ Created(c) \/ CreateFails(c)
            \/ Save(c) \/ SaveFails(c)
            \/ Request(c) \/ Cancel(c) \/ OperationFails(c) \/ Answered(c)
            \/ CloseAgent(c) \/ AgentDies(c) \/ Kill(c)
    BY <1>1 DEF Next
  <2>3. CASE Save(c) \/ SaveFails(c)
    BY <1>1, <2>1, <2>3, SaveSeals DEF SealInv
  <2>4. CASE ~Save(c) /\ ~SaveFails(c)
    BY <1>1, <2>1, <2>2, <2>4, OtherSeals DEF SealInv
  <2>. QED BY <2>3, <2>4
<1>2. CASE SealInv /\ UNCHANGED vars
  BY <1>2 DEF vars, SealInv, Typed, TypeOK, Placed, Known, Founded, Closed
<1>. QED BY <1>1, <1>2

\* No step sends anything for a sealed record.
LEMMA NothingSent ==
  ASSUME SealInv, sealed, [Next]_vars, NEW d \in Commands, Kind[d] \in Using
  PROVE  sent'[d] = sent[d]
<1>1. pc[d] # "operate" /\ sent \in [Commands -> made \cup {None}]
  BY DEF SealInv, Typed, TypeOK, Closed
<1>2. CASE UNCHANGED vars
  BY <1>2 DEF vars
<1>3. CASE Next
  <2>1. PICK c \in Commands :
          ReadRecord(c) \/ Refused(c) \/ BeginAnew(c)
            \/ StartAgent(c) \/ StartFails(c)
            \/ Loaded(c) \/ LoadFails(c) \/ Created(c) \/ CreateFails(c)
            \/ Save(c) \/ SaveFails(c)
            \/ Request(c) \/ Cancel(c) \/ OperationFails(c) \/ Answered(c)
            \/ CloseAgent(c) \/ AgentDies(c) \/ Kill(c)
    BY <1>3 DEF Next
  <2>2. CASE Request(c) \/ Cancel(c)
    BY <1>1, <2>2 DEF Request, Cancel
  <2>3. CASE ~Request(c) /\ ~Cancel(c)
    BY <2>1, <2>3
       DEF ReadRecord, Refused, BeginAnew, StartAgent, StartFails, Loaded,
           LoadFails, Created, CreateFails, Save, SaveFails, OperationFails,
           Answered, CloseAgent, AgentDies, Kill, local
  <2>. QED BY <2>2, <2>3
<1>. QED BY <1>2, <1>3

\* A session closed while no other command was under way stays closed, and no
\* later command reaches an agent with it, wherever commands fail or are killed.
THEOREM SealedStays == Spec => SealedIsFinal
<1>1. SealInv /\ [Next]_vars =>
        [sealed => /\ record' = record
                   /\ \A c \in Commands :
                        Kind[c] \in Using => sent'[c] = sent[c]]_vars
  BY StepSeal, NothingSent
<1>. QED BY <1>1, InitSeal, StepSeal, PTL DEF Spec, SealedIsFinal

-----------------------------------------------------------------------------
\* An operation is sent only for a session that the agent it is sent to has
\* loaded or created.
THEOREM OwnsSession == Spec => OwnSession
<1>1. Typed /\ [Next]_vars =>
        [\A c \in Commands : sent'[c] # sent[c] => sent'[c] \in held[c]]_vars
  <2>. SUFFICES ASSUME Typed, [Next]_vars, NEW d \in Commands, sent'[d] # sent[d]
                PROVE  sent'[d] \in held[d]
    OBVIOUS
  <2>1. sent \in [Commands -> made \cup {None}] /\ Placed
    BY DEF Typed, TypeOK
  <2>2. Next
    BY DEF vars
  <2>3. PICK c \in Commands : Request(c) \/ Cancel(c)
    BY <2>2
       DEF Next, ReadRecord, Refused, BeginAnew, StartAgent, StartFails, Loaded,
           LoadFails, Created, CreateFails, Save, SaveFails, OperationFails,
           Answered, CloseAgent, AgentDies, Kill, local
  <2>. QED BY <2>1, <2>3 DEF Request, Cancel, Placed
<1>. QED BY <1>1, InitSeal, StepTyped, PTL DEF Spec, OwnSession, SealInv

\* An agent runs only between the start of its command and its end.
Unstarted == \A c \in Commands : pc[c] \in {"idle", "done"} => agent[c] # "up"

\* A command that ran to its end has closed the agent it started.
THEOREM NoAgentLeft == Spec => []AgentsGone
<1>1. Init => Unstarted
  BY DEF Init, Unstarted
<1>2. Typed /\ Unstarted /\ [Next]_vars => Unstarted'
  <2>. SUFFICES ASSUME Typed, Unstarted, [Next]_vars, NEW d \in Commands,
                       pc'[d] \in {"idle", "done"}
                PROVE  agent'[d] # "up"
    BY DEF Unstarted
  <2>1. /\ agent \in [Commands -> {"none", "up", "dead", "left"}]
        /\ pc \in [Commands -> {"idle", "start", "load", "create", "save",
                                "operate", "await", "closing", "done", "killed"}]
        /\ \A c \in Commands : pc[c] \in {"idle", "done"} => agent[c] # "up"
    BY DEF Typed, TypeOK, Unstarted
  <2>2. CASE UNCHANGED vars
    BY <2>1, <2>2 DEF vars
  <2>3. CASE Next
    <3>1. PICK c \in Commands :
            ReadRecord(c) \/ Refused(c) \/ BeginAnew(c)
              \/ StartAgent(c) \/ StartFails(c)
              \/ Loaded(c) \/ LoadFails(c) \/ Created(c) \/ CreateFails(c)
              \/ Save(c) \/ SaveFails(c)
              \/ Request(c) \/ Cancel(c) \/ OperationFails(c) \/ Answered(c)
              \/ CloseAgent(c) \/ AgentDies(c) \/ Kill(c)
      BY <2>3 DEF Next
    <3>2. CASE ReadRecord(c) \/ Refused(c) \/ BeginAnew(c)
      BY <2>1, <3>2 DEF ReadRecord, Refused, BeginAnew, Goto, local
    <3>3. CASE StartAgent(c) \/ StartFails(c)
      BY <2>1, <3>3 DEF StartAgent, StartFails, Goto
    <3>4. CASE Loaded(c) \/ LoadFails(c) \/ Created(c)
      BY <2>1, <3>4 DEF Loaded, LoadFails, Created, Goto
    <3>5. CASE CreateFails(c)
      BY <2>1, <3>5 DEF CreateFails, Return, Goto
    <3>6. CASE Save(c) \/ SaveFails(c)
      BY <2>1, <3>6 DEF Save, SaveFails, AfterSave, Return, Goto, local
    <3>7. CASE Request(c) \/ Cancel(c)
      BY <2>1, <3>7 DEF Request, Cancel, Return, Goto
    <3>8. CASE OperationFails(c) \/ Answered(c)
      BY <2>1, <3>8 DEF OperationFails, Answered, Return, Goto, local
    <3>9. CASE CloseAgent(c) \/ AgentDies(c) \/ Kill(c)
      BY <2>1, <3>9 DEF CloseAgent, AgentDies, Kill, Goto
    <3>. QED BY <3>1, <3>2, <3>3, <3>4, <3>5, <3>6, <3>7, <3>8, <3>9
  <2>. QED BY <2>2, <2>3
<1>3. Unstarted => AgentsGone
  BY DEF Unstarted, AgentsGone, Live
<1>. QED BY <1>1, <1>2, <1>3, InitSeal, StepTyped, PTL DEF Spec, SealInv

-----------------------------------------------------------------------------
\* A command that begins undisturbed is alone, and reads what it will use.
LEMMA BeginOrderly ==
  ASSUME Typed, Orderly, NEW c \in Commands, undisturbed',
         ReadRecord(c) \/ Refused(c) \/ BeginAnew(c)
  PROVE  Orderly'
<1>. USE DEF Typed, TypeOK, Orderly, Alone, Active, InStep, Others, Goto, local
<1>1. CASE ReadRecord(c)
  <2>1. /\ undisturbed /\ \A d \in Commands \ {c} : ~Active(d)
        /\ pc[c] = "idle" /\ copy' = [copy EXCEPT ![c] = record]
        /\ pc' = [pc EXCEPT ![c] = IF Kind[c] = "close" THEN "save" ELSE "start"]
        /\ UNCHANGED <<record, sid, sent>>
    BY <1>1 DEF ReadRecord
  <2>2. Alone'
    BY <2>1
  <2>3. Kind[c] \in Using => InStep(c)'
    BY <2>1 DEF Using
  <2>4. \A d \in Commands \ {c} : InStep(d)'
    BY <2>1
  <2>. QED BY <2>2, <2>3, <2>4
<1>2. CASE Refused(c)
  BY <1>2 DEF Refused
<1>3. CASE BeginAnew(c)
  <2>1. /\ undisturbed /\ \A d \in Commands \ {c} : ~Active(d)
        /\ pc' = [pc EXCEPT ![c] = "start"]
        /\ Kind[c] \notin Using
        /\ UNCHANGED <<record, copy, sid, sent>>
    BY <1>3 DEF BeginAnew, Using
  <2>2. Alone'
    BY <2>1
  <2>. QED BY <2>1, <2>2
<1>. QED BY <1>1, <1>2, <1>3

\* A command under way goes from its copy to the record to the operation.
LEMMA WorkOrderly ==
  ASSUME Typed, Orderly, NEW c \in Commands, undisturbed',
         StartAgent(c) \/ Loaded(c) \/ LoadFails(c) \/ Created(c)
           \/ CreateFails(c) \/ Save(c)
  PROVE  Orderly'
<1>. USE DEF Typed, TypeOK, Orderly, Alone, Active, InStep, Goto
<1>1. CASE StartAgent(c)
  BY <1>1 DEF StartAgent, Using
<1>2. CASE Loaded(c) \/ LoadFails(c)
  <2>1. /\ pc[c] = "load" /\ UNCHANGED <<record, copy, sent, undisturbed>>
        /\ \A d \in Commands \ {c} : sid'[d] = sid[d]
        /\ \/ /\ pc' = [pc EXCEPT ![c] = "operate"]
              /\ sid'[c] = copy[c].session
           \/ pc' = [pc EXCEPT ![c] = "create"]
    BY <1>2 DEF Loaded, LoadFails
  <2>2. Alone'
    BY <2>1
  <2>3. \A d \in Commands : Kind[d] \in Using => InStep(d)'
    BY <2>1
  <2>. QED BY <2>2, <2>3
<1>3. CASE Created(c)
  <2>1. PICK s \in Sessions : Adopt(c, s)
    BY <1>3 DEF Created
  <2>2. Kind[c] \in Using => copy'[c].session = sid'[c]
    BY <2>1 DEF Adopt, Using
  <2>3. /\ pc[c] = "create" /\ UNCHANGED <<record, sent, undisturbed>>
        /\ pc' = [pc EXCEPT ![c] = "save"]
    BY <1>3 DEF Created
  <2>. QED BY <2>2, <2>3 DEF Using
<1>4. CASE CreateFails(c)
  <2>1. /\ pc[c] = "create" /\ UNCHANGED <<record, copy, sid, sent, undisturbed>>
        /\ pc' = [pc EXCEPT ![c] = IF agent[c] = "none" THEN "done" ELSE "closing"]
    BY <1>4 DEF CreateFails, Return
  <2>. QED BY <2>1
<1>5. CASE Save(c)
  <2>1. /\ pc[c] = "save" /\ record' = Saved(c)
        /\ UNCHANGED <<copy, sid, sent, undisturbed>>
        /\ pc' = [pc EXCEPT ![c] = IF Kind[c] \in Using THEN "operate"
                                   ELSE IF agent[c] = "none" THEN "done"
                                   ELSE "closing"]
    BY <1>5 DEF Save, AfterSave, Return, local
  <2>2. record'.session = copy[c].session
    BY <2>1 DEF Saved
  <2>3. \A d \in Commands \ {c} : pc'[d] = pc[d] /\ ~Active(d)
    BY <2>1, <1>5 DEF Save
  <2>. QED BY <2>1, <2>2, <2>3
<1>. QED BY <1>1, <1>2, <1>3, <1>4, <1>5

\* Every other step sends what is recorded, or ends.
LEMMA EndOrderly ==
  ASSUME Typed, Orderly, NEW c \in Commands, undisturbed',
         StartFails(c) \/ SaveFails(c) \/ Request(c) \/ Cancel(c)
           \/ OperationFails(c) \/ Answered(c) \/ CloseAgent(c)
           \/ AgentDies(c) \/ Kill(c)
  PROVE  Orderly'
<1>. USE DEF Typed, TypeOK, Orderly, Alone, Active, InStep, Goto, local
<1>1. CASE StartFails(c) \/ CloseAgent(c)
  <2>1. /\ undisturbed /\ UNCHANGED <<record, sent>>
        /\ pc' = [pc EXCEPT ![c] = "done"]
        /\ \A d \in Commands \ {c} : sid'[d] = sid[d] /\ copy'[d] = copy[d]
    BY <1>1 DEF StartFails, CloseAgent, Forget
  <2>. QED BY <2>1
<1>2. CASE Request(c) \/ Cancel(c)
  <2>1. /\ pc[c] = "operate" /\ UNCHANGED <<record, copy, sid, undisturbed>>
        /\ sent' = [sent EXCEPT ![c] = sid[c]]
        /\ \E to \in {"await", "done", "closing"} : pc' = [pc EXCEPT ![c] = to]
    BY <1>2 DEF Request, Cancel, Return
  <2>2. Alone'
    BY <2>1
  <2>3. sent'[c] = sid[c] /\ \A d \in Commands \ {c} : sent'[d] = sent[d]
    BY <2>1
  <2>4. \A d \in Commands : Kind[d] \in Using => InStep(d)'
    BY <2>1, <2>3
  <2>. QED BY <2>2, <2>4
<1>3. CASE OperationFails(c) \/ Answered(c)
  BY ZenonT(40), <1>3 DEF OperationFails, Answered, Return
<1>4. CASE AgentDies(c)
  BY <1>4 DEF AgentDies
<1>5. ~SaveFails(c) /\ ~Kill(c)
  BY DEF SaveFails, Kill
<1>. QED BY <1>1, <1>2, <1>3, <1>4, <1>5

\* While commands follow each other and saves succeed, an operation goes to the
\* session that the record names.
THEOREM SendsRecorded == Spec => []SentIsRecorded
<1>1. Init => Orderly
  BY DEF Init, Orderly, Alone, Active, InStep
<1>2. Typed /\ Orderly /\ [Next]_vars => Orderly'
  <2>1. CASE undisturbed' /\ Typed /\ Orderly /\ Next
    BY <2>1, BeginOrderly, WorkOrderly, EndOrderly DEF Next
  <2>2. CASE ~undisturbed'
    BY <2>2 DEF Orderly
  <2>3. CASE Orderly /\ UNCHANGED vars
    BY <2>3 DEF vars, Orderly, Alone, Active, InStep
  <2>. QED BY <2>1, <2>2, <2>3
<1>3. Orderly => SentIsRecorded
  BY DEF Orderly, InStep, SentIsRecorded
<1>. QED BY <1>1, <1>2, <1>3, InitSeal, StepTyped, PTL DEF Spec, SealInv
-----------------------------------------------------------------------------
(* Sessions and losses *)

\* One command at most creates a session without a loss.
LEMMA CreatorsFinite ==
  ASSUME NEW L, IsFiniteSet(L)
  PROVE  IsFiniteSet(L \cup Anew) /\ Cardinality(L \cup Anew) <= 1 + Cardinality(L)
<1>1. Cardinality(L) \in Nat
  BY FS_CardinalityType
<1>2. CASE Anew = {}
  <2>1. L \cup Anew = L
    BY <1>2
  <2>2. IsFiniteSet(L \cup Anew) /\ Cardinality(L \cup Anew) = Cardinality(L)
    BY <2>1, Zenon
  <2>. QED BY <1>1, <2>2
<1>3. CASE Anew # {}
  <2>1. PICK c \in Anew : TRUE
    BY <1>3
  <2>2. Anew = {c}
    BY <2>1, ConstantsAssumption DEF Anew
  <2>3. /\ IsFiniteSet(L \cup {c})
        /\ Cardinality(L \cup {c}) = IF c \in L THEN Cardinality(L) ELSE Cardinality(L) + 1
    BY FS_AddElement
  <2>. QED BY <1>1, <2>2, <2>3
<1>. QED BY <1>2, <1>3

\* A step that creates nothing takes no command back.
LEMMA NothingMade ==
  ASSUME Typed, Counted, made' = made, IsFiniteSet(lost'), lost \subseteq lost',
         \A c \in Creators :
           pc[c] \notin {"idle", "start", "load", "create"} =>
             pc'[c] \notin {"idle", "start", "load", "create"}
  PROVE  IsFiniteSet(made') /\ Cardinality(made') <= Cardinality(Past')
<1>1. Past \subseteq Past'
  BY DEF Past, Creators
<1>2. IsFiniteSet(Creators') /\ Past' \subseteq Creators'
  BY CreatorsFinite DEF Creators, Past
<1>3. IsFiniteSet(Past')
  BY <1>2, FS_Subset
<1>4. Cardinality(Past) <= Cardinality(Past')
  BY <1>1, <1>3, FS_Subset
<1>5. IsFiniteSet(Past)
  BY <1>1, <1>3, FS_Subset
<1>. QED BY <1>3, <1>4, <1>5, FS_CardinalityType DEF Counted

\* A command that creates a session was not past it, and now is.
LEMMA OneMade ==
  ASSUME Typed, Counted, NEW c \in Commands, pc[c] = "create",
         NEW s, s \notin made, made' = made \cup {s}, lost' = lost,
         pc'[c] \notin {"idle", "start", "load", "create"},
         \A d \in Commands \ {c} : pc'[d] = pc[d]
  PROVE  IsFiniteSet(made') /\ Cardinality(made') <= Cardinality(Past')
<1>1. c \in Creators /\ c \notin Past
  BY DEF Counted, Past
<1>2. Past' = Past \cup {c}
  BY <1>1 DEF Past, Creators, Anew, Typed, TypeOK
<1>3. IsFiniteSet(Creators) /\ Past \subseteq Creators
  BY CreatorsFinite DEF Creators, Past, Counted
<1>4. IsFiniteSet(Past)
  BY <1>3, FS_Subset
<1>5. Cardinality(Past') = Cardinality(Past) + 1
  BY <1>1, <1>2, <1>4, FS_AddElement
<1>6. IsFiniteSet(made') /\ Cardinality(made') = Cardinality(made) + 1
  BY FS_AddElement DEF Counted
<1>. QED BY <1>4, <1>5, <1>6, FS_CardinalityType DEF Counted

\* Only a failed load, or `new`, leads to the creation of a session.
LEMMA StepCounted == Typed /\ Counted /\ [Next]_vars => Counted'
<1>. SUFFICES ASSUME Typed, Counted, [Next]_vars PROVE Counted'
  OBVIOUS
<1>. USE DEF Goto, Return, local
<1>. DEFINE Before == {"idle", "start", "load", "create"}
<1>1. ASSUME NEW c \in Commands,
             ReadRecord(c) \/ Refused(c) \/ BeginAnew(c) \/ StartAgent(c)
               \/ StartFails(c) \/ Loaded(c)
      PROVE  Counted'
  <2>1. made' = made /\ lost' = lost
    BY <1>1 DEF ReadRecord, Refused, BeginAnew, StartAgent, StartFails, Loaded
  <2>2. \A d \in Commands : pc[d] \notin Before => pc'[d] \notin Before
    BY <1>1 DEF Typed, TypeOK, ReadRecord, Refused, BeginAnew, StartAgent, StartFails, Loaded
  <2>3. \A d \in Commands : pc'[d] = "create" => d \in Creators
    <3>1. CASE StartAgent(c)
      <4>1. /\ pc[c] = "start"
            /\ pc' = [pc EXCEPT ![c] = IF Kind[c] \in Using THEN "load" ELSE "create"]
        BY <3>1 DEF StartAgent
      <4>2. Kind[c] \in Using \cup {"new"}
        BY <4>1, ConstantsAssumption DEF Typed, Placed, Kinds, Using
      <4>. QED BY <4>1, <4>2 DEF Typed, TypeOK, Counted, Creators, Anew, Using
    <3>2. CASE ~StartAgent(c)
      <4>1. \E to \in {"save", "start", "done", "operate"} : pc' = [pc EXCEPT ![c] = to]
        BY <1>1, <3>2 DEF ReadRecord, Refused, BeginAnew, StartFails, Loaded
      <4>. QED BY <4>1 DEF Typed, TypeOK, Counted
    <3>. QED BY <3>1, <3>2
  <2>4. Creators' = Creators /\ Creators \subseteq Commands
    BY <2>1 DEF Creators, Anew, Typed, TypeOK
  <2>. QED BY <2>1, <2>2, <2>3, <2>4, NothingMade DEF Counted
<1>2. ASSUME NEW c \in Commands, LoadFails(c) PROVE Counted'
  <2>1. /\ made' = made /\ lost' = lost \cup {c} /\ pc[c] = "load"
        /\ pc' = [pc EXCEPT ![c] = "create"]
    BY <1>2 DEF LoadFails
  <2>2. IsFiniteSet(lost')
    BY <2>1, FS_AddElement DEF Counted
  <2>3. \A d \in Commands : pc[d] \notin Before => pc'[d] \notin Before
    BY <2>1 DEF Typed, TypeOK
  <2>4. \A d \in Commands : pc'[d] = "create" => d \in Creators'
    BY <2>1 DEF Typed, TypeOK, Counted, Creators, Anew
  <2>5. Creators \subseteq Commands
    BY DEF Creators, Anew, Typed, TypeOK
  <2>. QED BY <2>1, <2>2, <2>3, <2>4, <2>5, NothingMade DEF Counted
<1>3. ASSUME NEW c \in Commands, Created(c) \/ CreateFails(c) PROVE Counted'
  <2>1. /\ lost' = lost /\ pc[c] = "create"
        /\ \E to \in {"save", "closing", "done"} : pc' = [pc EXCEPT ![c] = to]
    BY <1>3 DEF Created, CreateFails
  <2>2. made' = made \/ \E s \in Sessions \ made : made' = made \cup {s}
    BY <1>3 DEF Created, CreateFails
  <2>3. /\ \A d \in Commands \ {c} : pc'[d] = pc[d]
        /\ pc'[c] \in {"save", "closing", "done"}
    BY <2>1 DEF Typed, TypeOK
  <2>4. Creators' = Creators /\ Creators \subseteq Commands
    BY <2>1 DEF Creators, Anew, Typed, TypeOK
  <2>5. \A d \in Commands : pc'[d] = "create" => d \in Creators'
    BY <2>3, <2>4 DEF Counted
  <2>6. CASE made' = made
    BY <2>1, <2>3, <2>4, <2>5, <2>6, NothingMade DEF Counted
  <2>7. CASE \E s \in Sessions \ made : made' = made \cup {s}
    BY <2>1, <2>3, <2>4, <2>5, <2>7, OneMade DEF Counted
  <2>. QED BY <2>2, <2>6, <2>7
<1>4. ASSUME NEW c \in Commands,
             Save(c) \/ SaveFails(c) \/ Request(c) \/ Cancel(c) \/ OperationFails(c)
               \/ Answered(c) \/ CloseAgent(c) \/ AgentDies(c) \/ Kill(c)
      PROVE  Counted'
  <2>1. /\ made' = made /\ lost' = lost
        /\ \/ pc' = pc
           \/ \E to \in {"operate", "await", "closing", "done", "killed"} :
                pc' = [pc EXCEPT ![c] = to]
    BY <1>4 DEF Save, SaveFails, AfterSave, Request, Cancel, OperationFails, Answered,
       CloseAgent, AgentDies, Kill
  <2>2. \A d \in Commands : /\ pc[d] \notin Before => pc'[d] \notin Before
                            /\ pc'[d] = "create" => pc[d] = "create"
    BY <2>1 DEF Typed, TypeOK
  <2>3. Creators' = Creators /\ Creators \subseteq Commands
    BY <2>1 DEF Creators, Anew, Typed, TypeOK
  <2>. QED BY <2>1, <2>2, <2>3, NothingMade DEF Counted
<1>5. CASE UNCHANGED vars
  BY <1>5 DEF vars, Counted, Past, Creators
<1>. QED BY <1>1, <1>2, <1>3, <1>4, <1>5 DEF Next

\* Whatever overlaps, fails and is killed, the conversation is split over one
\* session more than loads have failed at most (runtime.go 80-90, 126-136).
THEOREM SplitsBounded == Spec => []SplitsAreLosses
<1>1. Init => Counted
  <2>. SUFFICES ASSUME Init PROVE Counted
    OBVIOUS
  <2>1. Past = {}
    BY DEF Init, Past, Creators, Anew
  <2>2. /\ IsFiniteSet(lost) /\ IsFiniteSet(made)
        /\ Cardinality(made) = 0 /\ Cardinality(Past) = 0
    <3>1. made = {} /\ lost = {}
      BY DEF Init
    <3>. QED BY <2>1, <3>1, FS_EmptySet, Zenon
  <2>3. \A c \in Commands : pc[c] # "create"
    BY DEF Init
  <2>. QED BY <2>2, <2>3 DEF Counted
<1>2. Typed /\ Counted => SplitsAreLosses
  <2>. SUFFICES ASSUME Typed, Counted PROVE SplitsAreLosses
    OBVIOUS
  <2>. DEFINE used == {sent[c] : c \in {d \in Commands : Kind[d] \in Using}} \ {None}
  <2>1. used \subseteq made
    BY DEF Typed, TypeOK
  <2>2. IsFiniteSet(used) /\ Cardinality(used) <= Cardinality(made)
    BY <2>1, FS_Subset DEF Counted
  <2>3. IsFiniteSet(Creators) /\ Cardinality(Creators) <= 1 + Cardinality(lost)
    BY CreatorsFinite DEF Counted, Creators, Anew
  <2>4. Past \subseteq Creators
    BY DEF Past
  <2>5. IsFiniteSet(Past) /\ Cardinality(Past) <= Cardinality(Creators)
    BY <2>3, <2>4, FS_Subset
  <2>6. /\ Cardinality(used) \in Nat /\ Cardinality(made) \in Nat /\ Cardinality(lost) \in Nat
        /\ Cardinality(Past) \in Nat /\ Cardinality(Creators) \in Nat
    BY <2>2, <2>3, <2>5, FS_CardinalityType DEF Counted
  <2>7. Cardinality(used) <= 1 + Cardinality(lost)
    BY <2>2, <2>3, <2>5, <2>6 DEF Counted
  <2>. QED BY <2>7 DEF SplitsAreLosses
<1>. QED BY <1>1, <1>2, InitSeal, StepTyped, StepCounted, PTL DEF Spec, SealInv
=============================================================================
