-------------------------- MODULE TerminalsProofs --------------------------
(***************************************************************************)
(* Theorems about Terminals, for any number of requests, terminals and     *)
(* bytes.                                                                  *)
(***************************************************************************)
EXTENDS Terminals, TLAPS

\* Numbers are drawn in the order of the calls: an identifier beyond the last
\* one is unused, and the others, if given out, name their own process.
Numbered ==
  /\ next = creates
  /\ \A i \in Ids :
       /\ procs[i] # 0 => procs[i] = given[i]
       /\ given[i] # 0 => given[i] = i /\ i <= next
       /\ life[i] # "none" => given[i] = i

\* How far a process and its goroutine are, and what holds from there on.
Ordered ==
  \A p \in Procs :
    /\ life[p] = "none" => waiter[p] = "none" /\ ~pipe[p]
    /\ life[p] = "running" => waiter[p] = "reaping"
    /\ waiter[p] \in {"recording", "sending", "done"} =>
         ~pipe[p] /\ buffer[p] = written[p]
    /\ waiter[p] \in {"sending", "done"} => exit[p] = outcome[p]
    /\ done[p] => waiter[p] = "done"

\* An answer to a wait or to a read of the output is about a terminal.
Answered ==
  reply.kind \in {"wait", "output"} /\ reply.ok =>
    reply.id \in Ids /\ given[reply.id] # 0

Inv == /\ TypeOK /\ Numbered /\ Ordered /\ Answered
       /\ WaitIsTruthful /\ OutputCompleteAfterWait

-----------------------------------------------------------------------------
\* Nothing exists, so nothing is wrong.
LEMMA InvInit == Init => Inv
<1> SUFFICES ASSUME Init PROVE Inv
  OBVIOUS
<1>1. TypeOK
  BY DEF Init, TypeOK, Replies, Outcomes
<1>2. Numbered /\ Ordered /\ Answered
  BY DEF Init, Numbered, Ordered, Answered, Procs, Ids
<1>3. WaitIsTruthful /\ OutputCompleteAfterWait
  BY DEF Init, WaitIsTruthful, OutputCompleteAfterWait
<1> QED
  BY <1>1, <1>2, <1>3 DEF Inv

\* A request the read loop takes is one, and so are those behind it; one that
\* is not a creation names an identifier.
LEMMA Received ==
  ASSUME TypeOK, NEW kind, Receive(kind)
  PROVE  /\ inbox' \in Seq(Requests) /\ sent' = sent
         /\ reader = 0
         /\ kind \in {"output", "wait", "kill", "release"} => Head(inbox).id \in Ids
<1>1. Head(inbox) \in Requests /\ Tail(inbox) \in Seq(Requests)
  BY DEF TypeOK, Receive
<1>2. kind \in {"output", "wait", "kill", "release"} => Head(inbox).id \in Named
  BY <1>1 DEF Receive, Requests
<1> QED
  BY <1>1, <1>2, ConstantsAssumption DEF Receive, Ids

\* What depends on processes and identifiers only survives a step that leaves
\* them alone.
LEMMA Unmoved ==
  ASSUME Inv, UNCHANGED <<table, child, result>>
  PROVE  Numbered' /\ Ordered'
BY DEF Inv, Numbered, Ordered, table, child, result

\* Asking changes neither answers nor processes.
LEMMA AskInv ==
  ASSUME Inv, NEW r \in Requests, Ask(r)
  PROVE  Inv'
<1>1. TypeOK'
  BY DEF Inv, TypeOK, Ask, table, child, result
<1>2. Numbered' /\ Ordered'
  BY Unmoved DEF Ask
<1>3. Answered' /\ WaitIsTruthful' /\ OutputCompleteAfterWait'
  BY DEF Inv, Ask, table, child, result, Answered, WaitIsTruthful,
         OutputCompleteAfterWait, Taken
<1> QED
  BY <1>1, <1>2, <1>3 DEF Inv

\* A creation takes a number nobody had and touches no other process.
LEMMA CreateInv ==
  ASSUME Inv, NEW ok \in BOOLEAN, Create(ok)
  PROVE  Inv'
<1> DEFINE p == creates + 1
<1>1. /\ p \in Procs /\ p \in Ids /\ next' = p /\ creates' = p
      /\ Receive("create") /\ Started(p, p, ok)
      /\ given' = [given EXCEPT ![p] = IF ok /\ @ = 0 THEN p ELSE @]
      /\ reply' = [kind |-> "create", id |-> p, ok |-> ok,
                   exit |-> "ok", output |-> 0]
      /\ UNCHANGED <<reader, outcome, termed, written, buffer, exit, done>>
  BY DEF Create, NextId, Inv, Numbered, Answer
<1>2. inbox' \in Seq(Requests) /\ sent' = sent /\ reader = 0
  BY <1>1, Received DEF Inv
<1>3. life[p] = "none" /\ procs[p] = 0 /\ given[p] = 0
  BY <1>1 DEF Inv, TypeOK, Numbered, Procs, Ids
<1>4. p # 0 /\ p \in Nat
  BY <1>1 DEF Procs, Inv, TypeOK
<1>5. CASE ok
  <2>1. /\ procs' = [procs EXCEPT ![p] = p]
        /\ life' = [life EXCEPT ![p] = "running"]
        /\ pipe' = [pipe EXCEPT ![p] = TRUE]
        /\ waiter' = [waiter EXCEPT ![p] = "reaping"]
        /\ given' = [given EXCEPT ![p] = p]
    BY <1>1, <1>3, <1>5 DEF Started, Inv, TypeOK
  <2>2. TypeOK'
    BY <1>1, <1>2, <1>4, <2>1 DEF Inv, TypeOK, Replies, Outcomes, Ids, Procs
  <2>3. Numbered'
    BY <1>1, <1>4, <2>1 DEF Inv, TypeOK, Numbered, Ids, Procs
  <2>4. Ordered'
    BY <1>1, <1>3, <2>1 DEF Inv, TypeOK, Ordered
  <2>5. Answered' /\ WaitIsTruthful' /\ OutputCompleteAfterWait'
    BY <1>1 DEF Answered, WaitIsTruthful, OutputCompleteAfterWait
  <2> QED
    BY <2>2, <2>3, <2>4, <2>5 DEF Inv
<1>6. CASE ~ok
  <2>1. UNCHANGED <<procs, life, pipe, waiter, given>>
    BY <1>1, <1>6 DEF Started, Inv, TypeOK
  <2>2. TypeOK'
    BY <1>1, <1>2, <1>4, <2>1 DEF Inv, TypeOK, Replies, Outcomes
  <2>3. Numbered'
    BY <1>1, <1>4, <2>1 DEF Inv, TypeOK, Numbered, Ids, Procs
  <2>4. Ordered'
    BY <1>1, <2>1 DEF Inv, Ordered
  <2>5. Answered' /\ WaitIsTruthful' /\ OutputCompleteAfterWait'
    BY <1>1 DEF Answered, WaitIsTruthful, OutputCompleteAfterWait
  <2> QED
    BY <2>2, <2>3, <2>4, <2>5 DEF Inv
<1> QED
  BY <1>5, <1>6

\* A terminal that is registered names its own process, which was started.
LEMMA Registered ==
  ASSUME Inv, NEW i \in Ids, procs[i] # 0
  PROVE  procs[i] \in Procs /\ given[i] = procs[i] /\ life[procs[i]] # "none"
BY DEF Inv, TypeOK, Numbered

\* Output is read whole if the goroutine's value was received before.
LEMMA OutputInv ==
  ASSUME Inv, Output
  PROVE  Inv'
<1> DEFINE id == Head(inbox).id
<1>1. /\ inbox' \in Seq(Requests) /\ sent' = sent /\ id \in Ids
      /\ UNCHANGED <<reader, table, child, termed, result>>
  BY Received DEF Output, Inv
<1>2. Numbered' /\ Ordered'
  BY <1>1, Unmoved
<1>3. CASE Answer("output", id, FALSE, "ok", 0)
  <2>1. TypeOK'
    BY <1>1, <1>3 DEF Inv, TypeOK, Answer, Replies, Outcomes, table, child, result
  <2> QED
    BY <1>2, <1>3, <2>1
    DEF Inv, Answer, Answered, WaitIsTruthful, OutputCompleteAfterWait
<1>4. CASE procs[id] # 0 /\ \E v \in Readings(procs[id]) :
             Answer("output", id, TRUE, "ok", v)
  <2>1. PICK v \in Readings(procs[id]) : Answer("output", id, TRUE, "ok", v)
    BY <1>4
  <2>2. procs[id] \in Procs /\ given[id] # 0
    BY <1>1, <1>4, Registered DEF Ids
  <2>3. v \in Nat \cup {Torn}
    BY <2>1, <2>2 DEF Readings, Inv, TypeOK
  <2>4. TypeOK'
    BY <1>1, <2>1, <2>3
    DEF Inv, TypeOK, Answer, Replies, Outcomes, table, child, result
  <2>5. Taken(procs[id]) => v = written[procs[id]]
    BY <2>1, <2>2 DEF Readings, Taken, Inv, Ordered
  <2>6. procs[id] = given[id]
    BY <1>1, <1>4, Registered
  <2> QED
    BY <1>1, <1>2, <2>1, <2>2, <2>4, <2>5, <2>6
    DEF Inv, Answer, Answered, WaitIsTruthful, OutputCompleteAfterWait, Taken,
        table, child, result
<1> QED
  BY <1>3, <1>4 DEF Output

\* A wait begins on a process that was started.
LEMMA WaitInv ==
  ASSUME Inv, Wait
  PROVE  Inv'
<1> DEFINE id == Head(inbox).id
<1>1. /\ inbox' \in Seq(Requests) /\ sent' = sent /\ id \in Ids
      /\ UNCHANGED <<table, child, termed, result>>
  BY Received DEF Wait, Inv
<1>2. Numbered' /\ Ordered'
  BY <1>1, Unmoved
<1>3. CASE Answer("wait", id, FALSE, "ok", 0) /\ UNCHANGED reader
  <2>1. TypeOK'
    BY <1>1, <1>3 DEF Inv, TypeOK, Answer, Replies, Outcomes, table, child, result
  <2> QED
    BY <1>2, <1>3, <2>1
    DEF Inv, Answer, Answered, WaitIsTruthful, OutputCompleteAfterWait
<1>4. CASE procs[id] # 0 /\ reader' = procs[id] /\ UNCHANGED reply
  <2>1. procs[id] \in Procs /\ life[procs[id]] # "none"
    BY <1>1, <1>4, Registered
  <2>2. TypeOK'
    BY <1>1, <1>4, <2>1 DEF Inv, TypeOK, table, child, result
  <2> QED
    BY <1>1, <1>2, <1>4, <2>2
    DEF Inv, Answered, WaitIsTruthful, OutputCompleteAfterWait, Taken,
        table, child, result
<1> QED
  BY <1>3, <1>4 DEF Wait

\* The value on the channel says that the result was recorded.
LEMMA WaitReturnsInv ==
  ASSUME Inv, WaitReturns
  PROVE  Inv'
<1>1. /\ reader \in Procs /\ done[reader]
      /\ done' = [done EXCEPT ![reader] = FALSE] /\ reader' = 0
      /\ UNCHANGED <<wire, table, child, termed, buffer, waiter, exit>>
  BY DEF WaitReturns, Inv, TypeOK
<1>2. PICK id \in Ids :
        given[id] = reader /\ Answer("wait", id, TRUE, exit[reader], 0)
  BY DEF WaitReturns
<1>3. waiter[reader] = "done" /\ exit[reader] = outcome[reader]
  BY <1>1 DEF Inv, Ordered
<1>4. life[reader] = "exited"
  BY <1>1, <1>3 DEF Inv, Ordered, TypeOK
<1>5. TypeOK'
  BY <1>1, <1>2 DEF Inv, TypeOK, Answer, Replies, wire, table, child
<1>6. Numbered' /\ Ordered'
  BY <1>1 DEF Inv, TypeOK, Numbered, Ordered, table, child
<1>7. Answered' /\ WaitIsTruthful' /\ OutputCompleteAfterWait'
  BY <1>1, <1>2, <1>3, <1>4
  DEF Answer, Answered, WaitIsTruthful, OutputCompleteAfterWait, table, child,
      Procs
<1> QED
  BY <1>5, <1>6, <1>7 DEF Inv

\* A signal changes only which processes may end by one.
LEMMA KillInv ==
  ASSUME Inv, Kill
  PROVE  Inv'
<1> DEFINE id == Head(inbox).id
<1>1. /\ inbox' \in Seq(Requests) /\ sent' = sent /\ id \in Ids
      /\ UNCHANGED <<reader, table, child, result>>
  BY Received DEF Kill, Inv
<1>2. PICK ok \in BOOLEAN : Answer("kill", id, ok, "ok", 0)
  BY DEF Kill
<1>3. termed' \subseteq Procs
  <2>1. termed' = termed \/ \E q \in Unreaped : termed' = termed \cup {q}
    BY DEF Kill
  <2> QED
    BY <2>1 DEF Unreaped, Inv, TypeOK
<1>4. TypeOK'
  BY <1>1, <1>2, <1>3
  DEF Inv, TypeOK, Answer, Replies, Outcomes, table, child, result
<1> QED
  BY <1>1, <1>2, <1>4, Unmoved
  DEF Inv, Answer, Answered, WaitIsTruthful, OutputCompleteAfterWait

\* A release empties a place of the table and nothing else.
LEMMA ReleaseInv ==
  ASSUME Inv, Release
  PROVE  Inv'
<1> DEFINE id == Head(inbox).id
<1>1. /\ inbox' \in Seq(Requests) /\ sent' = sent /\ id \in Ids
      /\ procs' = [procs EXCEPT ![id] = 0]
      /\ Answer("release", id, TRUE, "ok", 0)
      /\ UNCHANGED <<reader, next, creates, given, child, termed, result>>
  BY Received DEF Release, Inv
<1>2. TypeOK'
  BY <1>1 DEF Inv, TypeOK, Answer, Replies, Outcomes, child, result
<1>3. Numbered' /\ Ordered'
  BY <1>1 DEF Inv, TypeOK, Numbered, Ordered, child, result
<1> QED
  BY <1>1, <1>2, <1>3
  DEF Inv, Answer, Answered, WaitIsTruthful, OutputCompleteAfterWait

\* Writing, ending and hanging up happen before the goroutine records.
LEMMA ChildInv ==
  ASSUME Inv, NEW p \in Procs, Child(p)
  PROVE  Inv'
<1> USE DEF wire, table, result
<1>1. CASE Emit(p)
  <2>1. TypeOK' /\ Numbered' /\ Ordered'
    BY <1>1 DEF Emit, Inv, TypeOK, Numbered, Ordered
  <2>2. ~Taken(p) /\ \A q \in Procs \ {p} : written'[q] = written[q]
    BY <1>1 DEF Emit, Inv, Ordered, Taken, TypeOK
  <2>3. OutputCompleteAfterWait'
    BY <1>1, <2>2
    DEF Emit, Inv, TypeOK, Answered, OutputCompleteAfterWait, Taken
  <2> QED
    BY <1>1, <2>1, <2>3 DEF Emit, Inv, Answered, WaitIsTruthful
<1>2. CASE Exit(p)
  <2>1. TypeOK' /\ Numbered' /\ Ordered'
    BY <1>2 DEF Exit, Inv, TypeOK, Numbered, Ordered, Outcomes
  <2>2. WaitIsTruthful'
    BY <1>2 DEF Exit, Inv, TypeOK, Answered, WaitIsTruthful
  <2> QED
    BY <1>2, <2>1, <2>2 DEF Exit, Inv, Answered, OutputCompleteAfterWait, Taken
<1>3. CASE HangUp(p)
  <2>1. TypeOK' /\ Numbered' /\ Ordered'
    BY <1>3 DEF HangUp, Inv, TypeOK, Numbered, Ordered
  <2> QED
    BY <1>3, <2>1
    DEF HangUp, Inv, Answered, WaitIsTruthful, OutputCompleteAfterWait, Taken
<1> QED
  BY <1>1, <1>2, <1>3 DEF Child

\* The goroutines go on in order, and none of their steps takes the value.
LEMMA GoroutineInv ==
  ASSUME Inv, NEW p \in Procs, Copy(p) \/ Waited(p) \/ Finish(p)
  PROVE  Inv'
<1> USE DEF wire, table, child
<1>1. CASE Copy(p)
  <2>1. TypeOK' /\ Numbered' /\ Ordered'
    BY <1>1 DEF Copy, Inv, TypeOK, Numbered, Ordered
  <2> QED
    BY <1>1, <2>1
    DEF Copy, Inv, Answered, WaitIsTruthful, OutputCompleteAfterWait, Taken
<1>2. CASE Waited(p)
  <2>1. PICK to \in {"copying", "recording"} :
          /\ Goes(p, IF to = "copying" THEN "reaping" ELSE "copying", to)
          /\ to = "copying" => life[p] = "exited"
          /\ to = "recording" => ~pipe[p] /\ buffer[p] = written[p]
          /\ UNCHANGED <<exit, done>>
    BY <1>2 DEF Waited
  <2>2. TypeOK'
    BY <2>1 DEF Goes, Inv, TypeOK
  <2>3. Numbered'
    BY <2>1 DEF Goes, Inv, Numbered
  <2>4. Ordered'
    BY <2>1 DEF Goes, Inv, TypeOK, Ordered
  <2>5. Answered' /\ WaitIsTruthful' /\ OutputCompleteAfterWait'
    BY <2>1
    DEF Goes, Inv, TypeOK, Answered, WaitIsTruthful, OutputCompleteAfterWait,
        Taken
  <2> QED
    BY <2>2, <2>3, <2>4, <2>5 DEF Inv
<1>3. CASE Goes(p, "recording", "sending")
             /\ exit' = [exit EXCEPT ![p] = outcome[p]] /\ UNCHANGED done
  <2>1. TypeOK'
    BY <1>3 DEF Goes, Inv, TypeOK
  <2>2. Numbered'
    BY <1>3 DEF Goes, Inv, Numbered
  <2>3. Ordered'
    BY <1>3 DEF Goes, Inv, TypeOK, Ordered
  <2>4. Answered' /\ WaitIsTruthful' /\ OutputCompleteAfterWait'
    BY <1>3
    DEF Goes, Inv, TypeOK, Answered, WaitIsTruthful, OutputCompleteAfterWait,
        Taken
  <2> QED
    BY <2>1, <2>2, <2>3, <2>4 DEF Inv
<1>4. CASE Goes(p, "sending", "done")
             /\ done' = [done EXCEPT ![p] = TRUE] /\ UNCHANGED exit
  <2>1. TypeOK'
    BY <1>4 DEF Goes, Inv, TypeOK
  <2>2. Numbered'
    BY <1>4 DEF Goes, Inv, Numbered
  <2>3. Ordered'
    BY <1>4 DEF Goes, Inv, TypeOK, Ordered
  <2>4. \A q \in Procs : Taken(q)' => Taken(q)
    BY <1>4 DEF Goes, Inv, TypeOK, Taken
  <2>5. Answered' /\ WaitIsTruthful' /\ OutputCompleteAfterWait'
    BY <1>4, <2>4
    DEF Goes, Inv, TypeOK, Answered, WaitIsTruthful, OutputCompleteAfterWait
  <2> QED
    BY <2>1, <2>2, <2>3, <2>5 DEF Inv
<1> QED
  BY <1>1, <1>2, <1>3, <1>4 DEF Finish

\* No step breaks the invariant.
LEMMA NextInv == Inv /\ [Next]_vars => Inv'
<1> SUFFICES ASSUME Inv, [Next]_vars PROVE Inv'
  OBVIOUS
<1>1. CASE UNCHANGED vars
  BY <1>1
  DEF vars, wire, table, child, result, Inv, TypeOK, Numbered, Ordered,
      Answered, WaitIsTruthful, OutputCompleteAfterWait, Taken
<1>2. CASE \E r \in Requests : Ask(r)
  BY <1>2, AskInv
<1>3. CASE Reading
  BY <1>3, CreateInv, OutputInv, WaitInv, WaitReturnsInv, KillInv, ReleaseInv
  DEF Reading
<1>4. CASE \E p \in Procs : Child(p) \/ Copy(p) \/ Waited(p) \/ Finish(p)
  BY <1>4, ChildInv, GoroutineInv
<1> QED
  BY <1>1, <1>2, <1>3, <1>4 DEF Next

\* The invariant holds of the specification.
LEMMA SpecInv == Spec => []Inv
<1>1. Init => Inv
  BY InvInit
<1>2. Inv /\ [Next]_vars => Inv'
  BY NextInv
<1> QED
  BY <1>1, <1>2, PTL DEF Spec

-----------------------------------------------------------------------------
\* Variables keep their kinds, and a terminal that is registered or waited for
\* was started (manager.go:44-47).
THEOREM TypeCorrect == Spec => []TypeOK
<1>1. Inv => TypeOK
  BY DEF Inv
<1> QED
  BY <1>1, SpecInv, PTL

\* An identifier names one process for good, whatever starts fail and whatever
\* is released (manager.go:37).
THEOREM IdsStay == Spec => []NamesOneProcess
<1>1. Inv => NamesOneProcess
  BY DEF Inv, Numbered, NamesOneProcess
<1> QED
  BY <1>1, SpecInv, PTL

\* A wait is told how its own process ended (manager.go:49-52, 74).
THEOREM WaitsAreTruthful == Spec => []WaitIsTruthful
<1>1. Inv => WaitIsTruthful
  BY DEF Inv
<1> QED
  BY <1>1, SpecInv, PTL

\* After a wait the output is complete and stable (manager.go:49, 64).
THEOREM OutputsComplete == Spec => []OutputCompleteAfterWait
<1>1. Inv => OutputCompleteAfterWait
  BY DEF Inv
<1> QED
  BY <1>1, SpecInv, PTL
=============================================================================
