------------------------- MODULE QueueServerProofs -------------------------
(***************************************************************************)
(* The depth counter of QueueServer, for every finite set of connections,  *)
(* every limit and every TTL.                                              *)
(***************************************************************************)
EXTENDS QueueServer, FiniteSetTheorems, TLAPS

\* A connection waiting in the backlog is there once and has no goroutine yet;
\* without this, accepting it could take a slot away from its holder.
Queued ==
  /\ \A i \in 1..Len(backlog) :
       handler[backlog[i]] = "none" /\ client[backlog[i]] # "idle"
  /\ \A i, j \in 1..Len(backlog) : backlog[i] = backlog[j] => i = j
  /\ \A c \in Conns : client[c] = "idle" => handler[c] = "none"

Inv == TypeOK /\ Queued /\ DepthExact /\ DepthBounded

\* The goroutines that hold a slot are finitely many.
LEMMA HoldingFinite == IsFiniteSet(Holding) /\ Cardinality(Holding) \in Nat
<1>1. Holding \subseteq Conns
  BY DEF Holding
<1> QED
  BY <1>1, FS_Subset, FS_CardinalityType, ConstantsAssumption

\* No connection, no slot.
LEMMA InvInit == Init => Inv
<1> SUFFICES ASSUME Init PROVE Inv
  OBVIOUS
<1>1. Holding = {}
  BY DEF Init, Holding
<1>2. TypeOK
  BY ConstantsAssumption
  DEF Init, TypeOK, HandlerPlaces, Replies, ClientPlaces
<1> QED
  BY <1>1, <1>2, FS_EmptySet, ConstantsAssumption
  DEF Inv, Queued, DepthExact, DepthBounded, Init

\* A move between two places changes the holders only at the slot's ends.
LEMMA HoldingMoves ==
  ASSUME TypeOK, NEW c \in Conns, NEW from, NEW to, Step(c, from, to)
  PROVE  LET S == {"running", "replying", "releasing"} IN
         /\ (from \in S <=> to \in S) => Holding' = Holding
         /\ from \notin S /\ to \in S =>
              Holding' = Holding \cup {c} /\ c \notin Holding
         /\ from \in S /\ to \notin S =>
              Holding' = Holding \ {c} /\ c \in Holding
BY DEF TypeOK, Step, Holding

\* Every step of a connection's goroutine keeps the types.
LEMMA ServeType ==
  ASSUME TypeOK, DepthExact, NEW c \in Conns, Serve(c)
  PROVE  TypeOK'
<1> USE DEF TypeOK, HandlerPlaces, Replies, Step, runVars
<1>1. CASE \/ ReadRequest(c) \/ ReadFails(c) \/ Refuse(c)
           \/ WriteReply(c) \/ WriteRefusal(c)
  BY <1>1 DEF ReadRequest, ReadFails, Refuse, Decide, WriteReply, WriteRefusal
<1>2. CASE \E r \in {"ok", "failed"} : Dispatched(c, r)
  BY <1>2 DEF Dispatched, Decide
<1>3. CASE Admit(c)
  BY <1>3 DEF Admit
<1>4. CASE ReleaseSlot(c)
  <2>1. c \in Holding
    BY <1>4 DEF ReleaseSlot, Holding
  <2>2. depth > 0
    BY <2>1, HoldingFinite, FS_EmptySet DEF DepthExact
  <2> QED
    BY <1>4, <2>2 DEF ReleaseSlot
<1> QED
  BY <1>1, <1>2, <1>3, <1>4 DEF Serve

\* The counter follows the holders: up by one with a newcomer below the
\* limit, down by one when a holder leaves.
LEMMA ServeDepth ==
  ASSUME Inv, NEW c \in Conns, Serve(c)
  PROVE  DepthExact' /\ DepthBounded'
<1> USE DEF Inv, DepthExact, DepthBounded
<1>1. CASE \/ ReadRequest(c) \/ ReadFails(c) \/ Refuse(c)
           \/ WriteReply(c) \/ WriteRefusal(c)
  <2>1. Holding' = Holding
    BY <1>1, HoldingMoves
    DEF ReadRequest, ReadFails, Refuse, WriteReply, WriteRefusal
  <2> QED
    BY <1>1, <2>1
    DEF ReadRequest, ReadFails, Refuse, WriteReply, WriteRefusal
<1>2. CASE \E r \in {"ok", "failed"} : Dispatched(c, r)
  <2>1. Holding' = Holding
    BY <1>2, HoldingMoves DEF Dispatched
  <2> QED
    BY <1>2, <2>1 DEF Dispatched
<1>3. CASE Admit(c)
  <2>1. Holding' = Holding \cup {c} /\ c \notin Holding
    BY <1>3, HoldingMoves DEF Admit
  <2>2. Cardinality(Holding') = Cardinality(Holding) + 1
    BY <2>1, HoldingFinite, FS_AddElement
  <2> QED
    BY <1>3, <2>2, HoldingFinite, ConstantsAssumption DEF Admit, Full, TypeOK
<1>4. CASE ReleaseSlot(c)
  <2>1. Holding' = Holding \ {c} /\ c \in Holding
    BY <1>4, HoldingMoves DEF ReleaseSlot
  <2>2. Cardinality(Holding') = Cardinality(Holding) - 1
    BY <2>1, HoldingFinite, FS_RemoveElement
  <2> QED
    BY <1>4, <2>2, HoldingFinite, ConstantsAssumption DEF ReleaseSlot, TypeOK
<1> QED
  BY <1>1, <1>2, <1>3, <1>4 DEF Serve

\* A goroutine that runs is past the backlog.
LEMMA ServeQueued ==
  ASSUME Inv, NEW c \in Conns, Serve(c)
  PROVE  Queued'
<1>1. /\ UNCHANGED <<backlog, client>>
      /\ handler[c] # "none"
      /\ \A d \in Conns \ {c} : handler'[d] = handler[d]
  BY DEF Serve, ReadRequest, ReadFails, Admit, Refuse, Dispatched, WriteReply,
         WriteRefusal, ReleaseSlot, Step, runVars, Inv, TypeOK
<1>2. \A i \in 1..Len(backlog) : backlog[i] \in Conns \ {c}
  BY <1>1 DEF Inv, TypeOK, Queued
<1> QED
  BY <1>1, <1>2 DEF Inv, Queued

\* Steps of the clients, the accept loop, the ticker and the process.
LEMMA OtherStep ==
  ASSUME Inv,
         \/ \E c \in Conns : Dial(c) \/ Write(c) \/ Read(c) \/ GiveUp(c)
         \/ Accept \/ Tick \/ Expire \/ Cancelled \/ RunReturns \/ Exit
  PROVE  TypeOK' /\ Queued' /\ Holding' = Holding /\ depth' = depth
<1> USE DEF Inv, TypeOK, runVars
<1> DEFINE Kept == TypeOK' /\ Queued' /\ Holding' = Holding /\ depth' = depth
<1>0. ASSUME UNCHANGED <<handler, depth>>
      PROVE  Holding' = Holding /\ depth' = depth
  BY <1>0 DEF Holding
<1>1. ASSUME NEW c \in Conns, Dial(c) PROVE Kept
  <2>1. CASE listener = "open"
    <3>1. /\ backlog' \in Seq(Conns) /\ Len(backlog') = Len(backlog) + 1
          /\ \A i \in 1..Len(backlog) + 1 :
               backlog'[i] = IF i = Len(backlog) + 1 THEN c ELSE backlog[i]
      <4>1. backlog' = Append(backlog, c) /\ backlog \in Seq(Conns)
        BY <1>1, <2>1 DEF Dial
      <4> QED
        BY <4>1
    <3>2. \A i \in 1..Len(backlog) : backlog[i] # c /\ backlog[i] \in Conns
      BY <1>1 DEF Dial, Queued
    <3>3. /\ client' = [client EXCEPT ![c] = "dialed"] /\ handler' = handler
          /\ client[c] = "idle" /\ Len(backlog) \in Nat
      BY <1>1, <2>1 DEF Dial
    <3>4. handler[c] = "none"
      BY <3>3 DEF Queued
    <3>5. ASSUME NEW i \in 1..Len(backlog')
          PROVE  handler'[backlog'[i]] = "none" /\ client'[backlog'[i]] # "idle"
      <4>1. CASE i = Len(backlog) + 1
        BY <3>1, <3>3, <3>4, <4>1
      <4>2. CASE i \in 1..Len(backlog)
        <5>1. /\ backlog'[i] = backlog[i] /\ backlog[i] # c
              /\ backlog[i] \in Conns
          BY <3>1, <3>2, <3>3, <4>2
        <5>2. handler[backlog[i]] = "none" /\ client[backlog[i]] # "idle"
          BY <4>2 DEF Queued
        <5> QED
          BY <3>3, <5>1, <5>2
      <4> QED
        BY <3>1, <3>3, <4>1, <4>2
    <3>6. \A i, j \in 1..Len(backlog') : backlog'[i] = backlog'[j] => i = j
      <4>1. \A i, j \in 1..Len(backlog) : backlog[i] = backlog[j] => i = j
        BY DEF Queued
      <4> QED
        BY <3>1, <3>2, <3>3, <4>1
    <3>7. \A d \in Conns : client'[d] = "idle" => handler'[d] = "none"
      BY <3>3 DEF Queued
    <3>8. Queued'
      BY <3>5, <3>6, <3>7 DEF Queued
    <3> QED
      BY <1>0, <1>1, <2>1, <3>1, <3>8 DEF Dial, ClientPlaces
  <2>2. CASE listener # "open"
    BY <1>0, <1>1, <2>2 DEF Dial, ClientPlaces, Queued
  <2> QED
    BY <2>1, <2>2
<1>2. ASSUME NEW c \in Conns, Write(c) PROVE Kept
  BY <1>0, <1>2 DEF Write, ClientPlaces, Queued
<1>3. ASSUME NEW c \in Conns, Read(c) PROVE Kept
  BY <1>0, <1>3 DEF Read, ClientPlaces, Queued
<1>4. ASSUME NEW c \in Conns, GiveUp(c) PROVE Kept
  <2>1. \E place \in {"gone", "error"} :
          client' = [client EXCEPT ![c] = place]
    BY <1>4 DEF GiveUp
  <2>2. client' \in [Conns -> ClientPlaces]
    BY <2>1 DEF ClientPlaces
  <2>3. Queued'
    BY <1>4, <2>1 DEF GiveUp, Queued
  <2> QED
    BY <1>0, <1>4, <2>2, <2>3 DEF GiveUp
<1>5. CASE Accept
  <2>1. /\ Len(backlog) > 0 /\ Head(backlog) = backlog[1]
        /\ backlog' \in Seq(Conns) /\ Len(backlog') = Len(backlog) - 1
        /\ \A i \in 1..Len(backlog) - 1 : backlog'[i] = backlog[i + 1]
    BY <1>5 DEF Accept
  <2>2. /\ Head(backlog) \in Conns /\ handler[Head(backlog)] = "none"
        /\ client[Head(backlog)] # "idle"
    BY <2>1 DEF Queued
  <2>3. /\ handler' \in [Conns -> HandlerPlaces]
        /\ handler'[Head(backlog)] = "reading"
        /\ \A d \in Conns \ {Head(backlog)} : handler'[d] = handler[d]
    BY <1>5, <2>2 DEF Accept, HandlerPlaces
  <2>4. \A i \in 2..Len(backlog) : backlog[i] \in Conns \ {Head(backlog)}
    <3> SUFFICES ASSUME NEW i \in 2..Len(backlog) PROVE backlog[i] # backlog[1]
      BY <2>1
    <3>1. i \in 1..Len(backlog) /\ 1 \in 1..Len(backlog) /\ i # 1
      BY <2>1
    <3> QED
      BY <3>1 DEF Queued
  <2>5. Queued'
    BY <1>5, <2>1, <2>2, <2>3, <2>4 DEF Accept, Queued
  <2>6. Holding' = Holding
    BY <2>2, <2>3 DEF Holding
  <2> QED
    BY <1>5, <2>1, <2>3, <2>5, <2>6, ConstantsAssumption DEF Accept
<1>6. CASE Tick
  BY <1>0, <1>6, ConstantsAssumption DEF Tick, Queued
<1>7. CASE Expire \/ Cancelled
  <2>1. CloseListener
    BY <1>7 DEF Expire, Cancelled
  <2>2. client' \in [Conns -> ClientPlaces]
    BY <2>1 DEF CloseListener, Reset, ClientPlaces
  <2>3. \A d \in Conns : client'[d] = "idle" => client[d] = "idle"
    BY <2>1 DEF CloseListener, Reset
  <2>4. Queued'
    BY <2>1, <2>3 DEF CloseListener, Queued
  <2> QED
    BY <1>0, <2>1, <2>2, <2>4 DEF CloseListener
<1>8. CASE RunReturns
  BY <1>0, <1>8 DEF RunReturns, Queued
<1>9. CASE Exit
  <2>1. client' \in [Conns -> ClientPlaces]
    BY <1>9 DEF Exit, Reset, ClientPlaces
  <2>2. \A d \in Conns : client'[d] = "idle" <=> client[d] = "idle"
    BY <1>9 DEF Exit, Reset, Waits
  <2>3. Queued'
    BY <1>9, <2>2 DEF Exit, Queued
  <2> QED
    BY <1>0, <1>9, <2>1, <2>3 DEF Exit
<1> QED
  BY <1>1, <1>2, <1>3, <1>4, <1>5, <1>6, <1>7, <1>8, <1>9

\* Every step keeps the counter equal to the slots taken, within the limit.
LEMMA InvStep == Inv /\ [Next]_vars => Inv'
<1> SUFFICES ASSUME Inv, [Next]_vars PROVE Inv'
  OBVIOUS
<1>1. ASSUME NEW c \in Conns, Serve(c) PROVE Inv'
  BY <1>1, ServeType, ServeQueued, ServeDepth DEF Inv
<1>2. ASSUME \/ \E c \in Conns : Dial(c) \/ Write(c) \/ Read(c) \/ GiveUp(c)
             \/ Accept \/ Tick \/ Expire \/ Cancelled \/ RunReturns \/ Exit
      PROVE  Inv'
  BY <1>2, OtherStep DEF Inv, DepthExact, DepthBounded
<1>3. CASE UNCHANGED vars
  BY <1>3 DEF vars, runVars, Inv, TypeOK, Queued, DepthExact, DepthBounded,
              Holding
<1> QED
  BY <1>1, <1>2, <1>3 DEF Next

\* Places, replies and the counter are of their kind.
THEOREM TypeCorrect == Spec => []TypeOK
<1>1. Inv => TypeOK
  BY DEF Inv
<1> QED
  BY <1>1, InvInit, InvStep, PTL DEF Spec

\* The depth counter counts the commands in flight (server.go 80-100).
THEOREM DepthCounts == Spec => []DepthExact
<1>1. Inv => DepthExact
  BY DEF Inv
<1> QED
  BY <1>1, InvInit, InvStep, PTL DEF Spec

\* No more commands run at once than MaxDepth allows (server.go 81).
THEOREM DepthIsBounded == Spec => []DepthBounded
<1>1. Inv => DepthBounded
  BY DEF Inv
<1> QED
  BY <1>1, InvInit, InvStep, PTL DEF Spec

\* An overload is only reported while the limit's worth of commands hold
\* their slots.
THEOREM OverloadsAreReal == Spec => OverloadIsReal
<1>1. Inv /\ [Next]_vars =>
        \A c \in Conns : reply[c] # "overload" /\ reply'[c] = "overload" =>
          Cardinality(Holding) >= MaxDepth
  <2> SUFFICES ASSUME Inv, [Next]_vars, NEW c \in Conns,
                      reply[c] # "overload", reply'[c] = "overload"
               PROVE  Cardinality(Holding) >= MaxDepth
    OBVIOUS
  <2>1. Refuse(c)
    BY DEF Next, Serve, Inv, TypeOK, vars, runVars, Dial, Write, Read, GiveUp,
           Accept, Tick, Expire, Cancelled, CloseListener, RunReturns, Exit,
           ReadRequest, ReadFails, Admit, Refuse, Dispatched, WriteReply,
           WriteRefusal, ReleaseSlot, Step, Decide
  <2> QED
    BY <2>1 DEF Refuse, Full, Inv, DepthExact
<1> QED
  BY <1>1, InvInit, InvStep, PTL DEF Spec, OverloadIsReal
=============================================================================
