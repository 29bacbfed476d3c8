------------------------ MODULE WorkingSessionProofs ------------------------
(***************************************************************************)
(* Theorems about WorkingSession, for any number of sessions on one socket *)
(* path and any heartbeat age allowed.                                     *)
(***************************************************************************)
EXTENDS WorkingSession, TLAPS

\* The heartbeat goroutine lives between Acquire and the end of the process,
\* and owes a heartbeat only while it waits.
Hearts ==
  \A o \in Owners :
    /\ heart[o] # "off" => pc[o] \notin {"idle", "acquiring", "gone"}
    /\ o \in due => heart[o] = "waiting"
    /\ pc[o] \in {"idle", "acquiring"} => o \notin beaten

\* A session that has met no other runs alone.
Lone ==
  \A o \in Owners \ met :
    Running(o) => \A q \in Owners \ {o} : ~Running(q)

\* What such a session owns, at each place.
Owned ==
  \A o \in Owners \ met :
    /\ pc[o] = "acquiring" => lease = Empty /\ o \in leaseFds
    /\ Running(o) /\ pc[o] # "acquiring" => lease = o
    /\ pc[o] = "listening" => sock = None
    /\ pc[o] = "serving" => sock = o

\* Who answers for each file that is there, while nobody was killed.
Accounted ==
  killed = {} =>
    /\ lease # None => \E o \in Owners : Running(o)
    /\ sock # None => sock \in Owners /\ pc[sock] = "serving"
    /\ beat # "none" =>
         late # {} \/ \E o \in Owners : Running(o) /\ pc[o] # "unlocking"

\* Once a lone session's ticker has fired, no goroutine of an earlier session
\* has a heartbeat to write any more.
Quiet ==
  \A o \in Owners \ met :
    Running(o) /\ (o \in due \/ heart[o] = "writing" \/ o \in beaten) =>
      \A q \in Owners \ {o} : q \notin due /\ heart[q] # "writing"

Working(o) ==
  pc[o] \in {"starting", "loading", "clearing", "listening", "serving"}

\* The heartbeat of a lone session: its own, and a second old at most.
Fresh ==
  \A o \in Owners \ met : Working(o) =>
    /\ heart[o] # "off"
    /\ heart[o] = "writing" => o \in beatFds
    /\ o \in beaten /\ heart[o] # "writing" =>
         /\ beat = "stamped" /\ age <= 1
         /\ o \notin due => age = 0

\* What the watcher carries from one step of IsStale to the next.
Watched ==
  /\ watch.well # None => watch.pid = watch.well
  /\ watch.at = "age" => MaxBeat # 0

IInv == /\ TypeOK /\ Hearts /\ Lone /\ Owned /\ Accounted
        /\ Quiet /\ Fresh /\ Watched

-----------------------------------------------------------------------------
\* At first there are no files and no sessions.
LEMMA IInvInit == Init => IInv
<1> SUFFICES ASSUME Init PROVE IInv
  OBVIOUS
<1>1. TypeOK
  BY ConstantsAssumption DEF Init, TypeOK, Places, Away
<1>2. Hearts /\ Lone /\ Owned /\ Accounted
  BY DEF Init, Hearts, Lone, Owned, Accounted, Running
<1>3. Quiet /\ Fresh /\ Watched
  BY DEF Init, Quiet, Fresh, Watched, Working, Running, Away
<1> QED
  BY <1>1, <1>2, <1>3 DEF IInv

\* Every step keeps the types.
LEMMA TypeStep ==
  ASSUME IInv, [Next]_vars
  PROVE  TypeOK'
<1>1. ASSUME NEW o \in Owners, OpenLease(o) PROVE TypeOK'
  <2>1. Others(o) \subseteq Owners
    BY DEF Others
  <2>2. met' \subseteq Owners
    BY <1>1, <2>1 DEF OpenLease, IInv, TypeOK
  <2> QED
    BY <1>1, <2>2, ConstantsAssumption DEF IInv, OpenLease, Goto, files,
       goroutine, watcher, TypeOK, Places
<1>2. ASSUME NEW o \in Owners, WriteLease(o) PROVE TypeOK'
  BY <1>2, ConstantsAssumption DEF IInv, WriteLease, Goto, Claimed, files, goroutine, watcher,
     TypeOK, Places
<1>3. ASSUME NEW o \in Owners, Start(o) PROVE TypeOK'
  BY <1>3, ConstantsAssumption DEF IInv, Start, Goto, Quietly, files, goroutine, watcher,
     TypeOK, Places
<1>4. ASSUME NEW o \in Owners, StartFails(o) PROVE TypeOK'
  BY <1>4, ConstantsAssumption DEF IInv, StartFails, Goto, Quietly, files, goroutine, watcher,
     TypeOK, Places
<1>5. ASSUME NEW o \in Owners, Load(o) PROVE TypeOK'
  BY <1>5, ConstantsAssumption DEF IInv, Load, Goto, Quietly, files, goroutine, watcher,
     TypeOK, Places
<1>6. ASSUME NEW o \in Owners, CreateFails(o) PROVE TypeOK'
  BY <1>6, ConstantsAssumption DEF IInv, CreateFails, Goto, Quietly, files, goroutine, watcher,
     TypeOK, Places
<1>7. ASSUME NEW o \in Owners, ClearSocket(o) PROVE TypeOK'
  BY <1>7, ConstantsAssumption DEF IInv, ClearSocket, Goto, SockStep, files, goroutine, watcher,
     TypeOK, Places
<1>8. ASSUME NEW o \in Owners, Listen(o) PROVE TypeOK'
  BY <1>8, ConstantsAssumption DEF IInv, Listen, Goto, SockStep, files, goroutine, watcher,
     TypeOK, Places
<1>9. ASSUME NEW o \in Owners, ListenFails(o) PROVE TypeOK'
  BY <1>9, ConstantsAssumption DEF IInv, ListenFails, Goto, Quietly, files, goroutine, watcher,
     TypeOK, Places
<1>10. ASSUME NEW o \in Owners, CloseListener(o) PROVE TypeOK'
  BY <1>10, ConstantsAssumption DEF IInv, CloseListener, Goto, SockStep, files, goroutine, watcher,
     TypeOK, Places
<1>11. ASSUME NEW o \in Owners, RunReturns(o) PROVE TypeOK'
  BY <1>11, ConstantsAssumption DEF IInv, RunReturns, Goto, SockStep, files, goroutine, watcher,
     TypeOK, Places
<1>12. ASSUME NEW o \in Owners, CloseAgent(o) PROVE TypeOK'
  BY <1>12, ConstantsAssumption DEF IInv, CloseAgent, Goto, Quietly, files, goroutine, watcher,
     TypeOK, Places
<1>13. ASSUME NEW o \in Owners, RemoveBeat(o) PROVE TypeOK'
  BY <1>13, ConstantsAssumption DEF IInv, RemoveBeat, Goto, files, goroutine, watcher,
     TypeOK, Places
<1>14. ASSUME NEW o \in Owners, RemoveLease(o) PROVE TypeOK'
  BY <1>14, ConstantsAssumption DEF IInv, RemoveLease, Goto, files, goroutine, watcher,
     TypeOK, Places
<1>15. ASSUME NEW o \in Owners, OpenBeat(o) PROVE TypeOK'
  BY <1>15, ConstantsAssumption DEF IInv, OpenBeat, files, goroutine, watcher,
     TypeOK, Places
<1>16. ASSUME NEW o \in Owners, WriteBeat(o) PROVE TypeOK'
  BY <1>16, ConstantsAssumption DEF IInv, WriteBeat, files, goroutine, watcher,
     TypeOK, Places
<1>17. ASSUME NEW o \in Owners, StopHeart(o) PROVE TypeOK'
  BY <1>17, ConstantsAssumption DEF IInv, StopHeart, files, goroutine, watcher,
     TypeOK, Places
<1>18. ASSUME NEW o \in Owners, Exit(o) PROVE TypeOK'
  BY <1>18, ConstantsAssumption DEF IInv, Exit, End, files, goroutine, watcher,
     TypeOK, Places
<1>19. ASSUME NEW o \in Owners, Kill(o) PROVE TypeOK'
  BY <1>19, ConstantsAssumption DEF IInv, Kill, End, files, goroutine, watcher,
     TypeOK, Places
<1>20. CASE Second
  BY <1>20, ConstantsAssumption DEF IInv, Second, files, goroutine, watcher,
     TypeOK, Places
<1>21. CASE ReadPID
  BY <1>21, ConstantsAssumption DEF IInv, ReadPID, Returns, Away, files, goroutine, watcher,
     TypeOK, Places
<1>22. CASE Signal
  BY <1>22, ConstantsAssumption DEF IInv, Signal, Returns, Away, files, goroutine, watcher,
     TypeOK, Places
<1>23. CASE HeartbeatAge
  BY <1>23, ConstantsAssumption DEF IInv, HeartbeatAge, Returns, Outcomes, Away, files, goroutine, watcher,
     TypeOK, Places
<1>24. CASE UNCHANGED vars
  BY <1>24 DEF IInv, vars, files, goroutine, watcher, TypeOK, Places
<1> QED
  BY <1>1, <1>2, <1>3, <1>4, <1>5, <1>6, <1>7, <1>8, <1>9, <1>10, <1>11, <1>12, <1>13, <1>14, <1>15, <1>16, <1>17, <1>18, <1>19, <1>20, <1>21, <1>22, <1>23, <1>24 DEF Next, Session, Heartbeat, IsStale

\* No step starts a heart before its time.
LEMMA HeartsStep ==
  ASSUME IInv, [Next]_vars
  PROVE  Hearts'
<1>1. ASSUME NEW o \in Owners, OpenLease(o) PROVE Hearts'
  BY <1>1, ConstantsAssumption DEF IInv, OpenLease, Goto, files, goroutine, watcher,
     TypeOK, Hearts, Cancelled, Places, Running
<1>2. ASSUME NEW o \in Owners, WriteLease(o) PROVE Hearts'
  BY <1>2, ConstantsAssumption DEF IInv, WriteLease, Goto, Claimed, files, goroutine, watcher,
     TypeOK, Hearts, Cancelled, Places, Running
<1>3. ASSUME NEW o \in Owners, Start(o) PROVE Hearts'
  BY <1>3, ConstantsAssumption DEF IInv, Start, Goto, Quietly, files, goroutine, watcher,
     TypeOK, Hearts, Cancelled, Places, Running
<1>4. ASSUME NEW o \in Owners, StartFails(o) PROVE Hearts'
  BY <1>4, ConstantsAssumption DEF IInv, StartFails, Goto, Quietly, files, goroutine, watcher,
     TypeOK, Hearts, Cancelled, Places, Running
<1>5. ASSUME NEW o \in Owners, Load(o) PROVE Hearts'
  BY <1>5, ConstantsAssumption DEF IInv, Load, Goto, Quietly, files, goroutine, watcher,
     TypeOK, Hearts, Cancelled, Places, Running
<1>6. ASSUME NEW o \in Owners, CreateFails(o) PROVE Hearts'
  BY <1>6, ConstantsAssumption DEF IInv, CreateFails, Goto, Quietly, files, goroutine, watcher,
     TypeOK, Hearts, Cancelled, Places, Running
<1>7. ASSUME NEW o \in Owners, ClearSocket(o) PROVE Hearts'
  BY <1>7, ConstantsAssumption DEF IInv, ClearSocket, Goto, SockStep, files, goroutine, watcher,
     TypeOK, Hearts, Cancelled, Places, Running
<1>8. ASSUME NEW o \in Owners, Listen(o) PROVE Hearts'
  BY <1>8, ConstantsAssumption DEF IInv, Listen, Goto, SockStep, files, goroutine, watcher,
     TypeOK, Hearts, Cancelled, Places, Running
<1>9. ASSUME NEW o \in Owners, ListenFails(o) PROVE Hearts'
  BY <1>9, ConstantsAssumption DEF IInv, ListenFails, Goto, Quietly, files, goroutine, watcher,
     TypeOK, Hearts, Cancelled, Places, Running
<1>10. ASSUME NEW o \in Owners, CloseListener(o) PROVE Hearts'
  BY <1>10, ConstantsAssumption DEF IInv, CloseListener, Goto, SockStep, files, goroutine, watcher,
     TypeOK, Hearts, Cancelled, Places, Running
<1>11. ASSUME NEW o \in Owners, RunReturns(o) PROVE Hearts'
  BY <1>11, ConstantsAssumption DEF IInv, RunReturns, Goto, SockStep, files, goroutine, watcher,
     TypeOK, Hearts, Cancelled, Places, Running
<1>12. ASSUME NEW o \in Owners, CloseAgent(o) PROVE Hearts'
  BY <1>12, ConstantsAssumption DEF IInv, CloseAgent, Goto, Quietly, files, goroutine, watcher,
     TypeOK, Hearts, Cancelled, Places, Running
<1>13. ASSUME NEW o \in Owners, RemoveBeat(o) PROVE Hearts'
  BY <1>13, ConstantsAssumption DEF IInv, RemoveBeat, Goto, files, goroutine, watcher,
     TypeOK, Hearts, Cancelled, Places, Running
<1>14. ASSUME NEW o \in Owners, RemoveLease(o) PROVE Hearts'
  BY <1>14, ConstantsAssumption DEF IInv, RemoveLease, Goto, files, goroutine, watcher,
     TypeOK, Hearts, Cancelled, Places, Running
<1>15. ASSUME NEW o \in Owners, OpenBeat(o) PROVE Hearts'
  BY <1>15, ConstantsAssumption DEF IInv, OpenBeat, files, goroutine, watcher,
     TypeOK, Hearts, Cancelled, Places, Running
<1>16. ASSUME NEW o \in Owners, WriteBeat(o) PROVE Hearts'
  BY <1>16, ConstantsAssumption DEF IInv, WriteBeat, files, goroutine, watcher,
     TypeOK, Hearts, Cancelled, Places, Running
<1>17. ASSUME NEW o \in Owners, StopHeart(o) PROVE Hearts'
  BY <1>17, ConstantsAssumption DEF IInv, StopHeart, files, goroutine, watcher,
     TypeOK, Hearts, Cancelled, Places, Running
<1>18. ASSUME NEW o \in Owners, Exit(o) PROVE Hearts'
  BY <1>18, ConstantsAssumption DEF IInv, Exit, End, files, goroutine, watcher,
     TypeOK, Hearts, Cancelled, Places, Running
<1>19. ASSUME NEW o \in Owners, Kill(o) PROVE Hearts'
  BY <1>19, ConstantsAssumption DEF IInv, Kill, End, files, goroutine, watcher,
     TypeOK, Hearts, Cancelled, Places, Running
<1>20. CASE Second
  BY <1>20, ConstantsAssumption DEF IInv, Second, files, goroutine, watcher,
     TypeOK, Hearts, Cancelled, Places, Running
<1>21. CASE ReadPID
  BY <1>21, ConstantsAssumption DEF IInv, ReadPID, Returns, Away, files, goroutine, watcher,
     TypeOK, Hearts, Cancelled, Places, Running
<1>22. CASE Signal
  BY <1>22, ConstantsAssumption DEF IInv, Signal, Returns, Away, files, goroutine, watcher,
     TypeOK, Hearts, Cancelled, Places, Running
<1>23. CASE HeartbeatAge
  BY <1>23, ConstantsAssumption DEF IInv, HeartbeatAge, Returns, Outcomes, Away, files, goroutine, watcher,
     TypeOK, Hearts, Cancelled, Places, Running
<1>24. CASE UNCHANGED vars
  BY <1>24 DEF IInv, vars, files, goroutine, watcher, TypeOK, Hearts, Cancelled, Places, Running
<1> QED
  BY <1>1, <1>2, <1>3, <1>4, <1>5, <1>6, <1>7, <1>8, <1>9, <1>10, <1>11, <1>12, <1>13, <1>14, <1>15, <1>16, <1>17, <1>18, <1>19, <1>20, <1>21, <1>22, <1>23, <1>24 DEF Next, Session, Heartbeat, IsStale

\* A session that begins beside another one is no longer lone, nor is that.
LEMMA LoneStep ==
  ASSUME IInv, [Next]_vars
  PROVE  Lone'
<1>1. ASSUME NEW o \in Owners, OpenLease(o) PROVE Lone'
  BY <1>1, ConstantsAssumption DEF IInv, OpenLease, Goto, files, goroutine, watcher,
     TypeOK, Lone, Running, Others
<1>2. ASSUME NEW o \in Owners, WriteLease(o) PROVE Lone'
  BY <1>2, ConstantsAssumption DEF IInv, WriteLease, Goto, Claimed, files, goroutine, watcher,
     TypeOK, Lone, Running, Others
<1>3. ASSUME NEW o \in Owners, Start(o) PROVE Lone'
  BY <1>3, ConstantsAssumption DEF IInv, Start, Goto, Quietly, files, goroutine, watcher,
     TypeOK, Lone, Running, Others
<1>4. ASSUME NEW o \in Owners, StartFails(o) PROVE Lone'
  BY <1>4, ConstantsAssumption DEF IInv, StartFails, Goto, Quietly, files, goroutine, watcher,
     TypeOK, Lone, Running, Others
<1>5. ASSUME NEW o \in Owners, Load(o) PROVE Lone'
  BY <1>5, ConstantsAssumption DEF IInv, Load, Goto, Quietly, files, goroutine, watcher,
     TypeOK, Lone, Running, Others
<1>6. ASSUME NEW o \in Owners, CreateFails(o) PROVE Lone'
  BY <1>6, ConstantsAssumption DEF IInv, CreateFails, Goto, Quietly, files, goroutine, watcher,
     TypeOK, Lone, Running, Others
<1>7. ASSUME NEW o \in Owners, ClearSocket(o) PROVE Lone'
  BY <1>7, ConstantsAssumption DEF IInv, ClearSocket, Goto, SockStep, files, goroutine, watcher,
     TypeOK, Lone, Running, Others
<1>8. ASSUME NEW o \in Owners, Listen(o) PROVE Lone'
  BY <1>8, ConstantsAssumption DEF IInv, Listen, Goto, SockStep, files, goroutine, watcher,
     TypeOK, Lone, Running, Others
<1>9. ASSUME NEW o \in Owners, ListenFails(o) PROVE Lone'
  BY <1>9, ConstantsAssumption DEF IInv, ListenFails, Goto, Quietly, files, goroutine, watcher,
     TypeOK, Lone, Running, Others
<1>10. ASSUME NEW o \in Owners, CloseListener(o) PROVE Lone'
  BY <1>10, ConstantsAssumption DEF IInv, CloseListener, Goto, SockStep, files, goroutine, watcher,
     TypeOK, Lone, Running, Others
<1>11. ASSUME NEW o \in Owners, RunReturns(o) PROVE Lone'
  BY <1>11, ConstantsAssumption DEF IInv, RunReturns, Goto, SockStep, files, goroutine, watcher,
     TypeOK, Lone, Running, Others
<1>12. ASSUME NEW o \in Owners, CloseAgent(o) PROVE Lone'
  BY <1>12, ConstantsAssumption DEF IInv, CloseAgent, Goto, Quietly, files, goroutine, watcher,
     TypeOK, Lone, Running, Others
<1>13. ASSUME NEW o \in Owners, RemoveBeat(o) PROVE Lone'
  BY <1>13, ConstantsAssumption DEF IInv, RemoveBeat, Goto, files, goroutine, watcher,
     TypeOK, Lone, Running, Others
<1>14. ASSUME NEW o \in Owners, RemoveLease(o) PROVE Lone'
  BY <1>14, ConstantsAssumption DEF IInv, RemoveLease, Goto, files, goroutine, watcher,
     TypeOK, Lone, Running, Others
<1>15. ASSUME NEW o \in Owners, OpenBeat(o) PROVE Lone'
  BY <1>15, ConstantsAssumption DEF IInv, OpenBeat, files, goroutine, watcher,
     TypeOK, Lone, Running, Others
<1>16. ASSUME NEW o \in Owners, WriteBeat(o) PROVE Lone'
  BY <1>16, ConstantsAssumption DEF IInv, WriteBeat, files, goroutine, watcher,
     TypeOK, Lone, Running, Others
<1>17. ASSUME NEW o \in Owners, StopHeart(o) PROVE Lone'
  BY <1>17, ConstantsAssumption DEF IInv, StopHeart, files, goroutine, watcher,
     TypeOK, Lone, Running, Others
<1>18. ASSUME NEW o \in Owners, Exit(o) PROVE Lone'
  BY <1>18, ConstantsAssumption DEF IInv, Exit, End, files, goroutine, watcher,
     TypeOK, Lone, Running, Others
<1>19. ASSUME NEW o \in Owners, Kill(o) PROVE Lone'
  BY <1>19, ConstantsAssumption DEF IInv, Kill, End, files, goroutine, watcher,
     TypeOK, Lone, Running, Others
<1>20. CASE Second
  BY <1>20, ConstantsAssumption DEF IInv, Second, files, goroutine, watcher,
     TypeOK, Lone, Running, Others
<1>21. CASE ReadPID
  BY <1>21, ConstantsAssumption DEF IInv, ReadPID, Returns, Away, files, goroutine, watcher,
     TypeOK, Lone, Running, Others
<1>22. CASE Signal
  BY <1>22, ConstantsAssumption DEF IInv, Signal, Returns, Away, files, goroutine, watcher,
     TypeOK, Lone, Running, Others
<1>23. CASE HeartbeatAge
  BY <1>23, ConstantsAssumption DEF IInv, HeartbeatAge, Returns, Outcomes, Away, files, goroutine, watcher,
     TypeOK, Lone, Running, Others
<1>24. CASE UNCHANGED vars
  BY <1>24 DEF IInv, vars, files, goroutine, watcher, TypeOK, Lone, Running, Others
<1> QED
  BY <1>1, <1>2, <1>3, <1>4, <1>5, <1>6, <1>7, <1>8, <1>9, <1>10, <1>11, <1>12, <1>13, <1>14, <1>15, <1>16, <1>17, <1>18, <1>19, <1>20, <1>21, <1>22, <1>23, <1>24 DEF Next, Session, Heartbeat, IsStale

\* Nobody else touches what a lone session owns.
LEMMA OwnedStep ==
  ASSUME IInv, [Next]_vars
  PROVE  Owned'
<1>1. ASSUME NEW o \in Owners, OpenLease(o) PROVE Owned'
  BY <1>1, ConstantsAssumption DEF IInv, OpenLease, Goto, files, goroutine, watcher,
     TypeOK, Lone, Owned, Running, Others
<1>2. ASSUME NEW o \in Owners, WriteLease(o) PROVE Owned'
  BY <1>2, ConstantsAssumption DEF IInv, WriteLease, Goto, Claimed, files, goroutine, watcher,
     TypeOK, Lone, Owned, Running, Others
<1>3. ASSUME NEW o \in Owners, Start(o) PROVE Owned'
  BY <1>3, ConstantsAssumption DEF IInv, Start, Goto, Quietly, files, goroutine, watcher,
     TypeOK, Lone, Owned, Running, Others
<1>4. ASSUME NEW o \in Owners, StartFails(o) PROVE Owned'
  BY <1>4, ConstantsAssumption DEF IInv, StartFails, Goto, Quietly, files, goroutine, watcher,
     TypeOK, Lone, Owned, Running, Others
<1>5. ASSUME NEW o \in Owners, Load(o) PROVE Owned'
  BY <1>5, ConstantsAssumption DEF IInv, Load, Goto, Quietly, files, goroutine, watcher,
     TypeOK, Lone, Owned, Running, Others
<1>6. ASSUME NEW o \in Owners, CreateFails(o) PROVE Owned'
  BY <1>6, ConstantsAssumption DEF IInv, CreateFails, Goto, Quietly, files, goroutine, watcher,
     TypeOK, Lone, Owned, Running, Others
<1>7. ASSUME NEW o \in Owners, ClearSocket(o) PROVE Owned'
  BY <1>7, ConstantsAssumption DEF IInv, ClearSocket, Goto, SockStep, files, goroutine, watcher,
     TypeOK, Lone, Owned, Running, Others
<1>8. ASSUME NEW o \in Owners, Listen(o) PROVE Owned'
  BY <1>8, ConstantsAssumption DEF IInv, Listen, Goto, SockStep, files, goroutine, watcher,
     TypeOK, Lone, Owned, Running, Others
<1>9. ASSUME NEW o \in Owners, ListenFails(o) PROVE Owned'
  BY <1>9, ConstantsAssumption DEF IInv, ListenFails, Goto, Quietly, files, goroutine, watcher,
     TypeOK, Lone, Owned, Running, Others
<1>10. ASSUME NEW o \in Owners, CloseListener(o) PROVE Owned'
  BY <1>10, ConstantsAssumption DEF IInv, CloseListener, Goto, SockStep, files, goroutine, watcher,
     TypeOK, Lone, Owned, Running, Others
<1>11. ASSUME NEW o \in Owners, RunReturns(o) PROVE Owned'
  BY <1>11, ConstantsAssumption DEF IInv, RunReturns, Goto, SockStep, files, goroutine, watcher,
     TypeOK, Lone, Owned, Running, Others
<1>12. ASSUME NEW o \in Owners, CloseAgent(o) PROVE Owned'
  BY <1>12, ConstantsAssumption DEF IInv, CloseAgent, Goto, Quietly, files, goroutine, watcher,
     TypeOK, Lone, Owned, Running, Others
<1>13. ASSUME NEW o \in Owners, RemoveBeat(o) PROVE Owned'
  BY <1>13, ConstantsAssumption DEF IInv, RemoveBeat, Goto, files, goroutine, watcher,
     TypeOK, Lone, Owned, Running, Others
<1>14. ASSUME NEW o \in Owners, RemoveLease(o) PROVE Owned'
  BY <1>14, ConstantsAssumption DEF IInv, RemoveLease, Goto, files, goroutine, watcher,
     TypeOK, Lone, Owned, Running, Others
<1>15. ASSUME NEW o \in Owners, OpenBeat(o) PROVE Owned'
  BY <1>15, ConstantsAssumption DEF IInv, OpenBeat, files, goroutine, watcher,
     TypeOK, Lone, Owned, Running, Others
<1>16. ASSUME NEW o \in Owners, WriteBeat(o) PROVE Owned'
  BY <1>16, ConstantsAssumption DEF IInv, WriteBeat, files, goroutine, watcher,
     TypeOK, Lone, Owned, Running, Others
<1>17. ASSUME NEW o \in Owners, StopHeart(o) PROVE Owned'
  BY <1>17, ConstantsAssumption DEF IInv, StopHeart, files, goroutine, watcher,
     TypeOK, Lone, Owned, Running, Others
<1>18. ASSUME NEW o \in Owners, Exit(o) PROVE Owned'
  BY <1>18, ConstantsAssumption DEF IInv, Exit, End, files, goroutine, watcher,
     TypeOK, Lone, Owned, Running, Others
<1>19. ASSUME NEW o \in Owners, Kill(o) PROVE Owned'
  BY <1>19, ConstantsAssumption DEF IInv, Kill, End, files, goroutine, watcher,
     TypeOK, Lone, Owned, Running, Others
<1>20. CASE Second
  BY <1>20, ConstantsAssumption DEF IInv, Second, files, goroutine, watcher,
     TypeOK, Lone, Owned, Running, Others
<1>21. CASE ReadPID
  BY <1>21, ConstantsAssumption DEF IInv, ReadPID, Returns, Away, files, goroutine, watcher,
     TypeOK, Lone, Owned, Running, Others
<1>22. CASE Signal
  BY <1>22, ConstantsAssumption DEF IInv, Signal, Returns, Away, files, goroutine, watcher,
     TypeOK, Lone, Owned, Running, Others
<1>23. CASE HeartbeatAge
  BY <1>23, ConstantsAssumption DEF IInv, HeartbeatAge, Returns, Outcomes, Away, files, goroutine, watcher,
     TypeOK, Lone, Owned, Running, Others
<1>24. CASE UNCHANGED vars
  BY <1>24 DEF IInv, vars, files, goroutine, watcher, TypeOK, Lone, Owned, Running, Others
<1> QED
  BY <1>1, <1>2, <1>3, <1>4, <1>5, <1>6, <1>7, <1>8, <1>9, <1>10, <1>11, <1>12, <1>13, <1>14, <1>15, <1>16, <1>17, <1>18, <1>19, <1>20, <1>21, <1>22, <1>23, <1>24 DEF Next, Session, Heartbeat, IsStale

\* A file is made by a session that runs, and removed before it is over.
LEMMA AccountedStep ==
  ASSUME IInv, [Next]_vars
  PROVE  Accounted'
<1>1. ASSUME NEW o \in Owners, OpenLease(o) PROVE Accounted'
  BY <1>1, ConstantsAssumption DEF IInv, OpenLease, Goto, files, goroutine, watcher,
     TypeOK, Hearts, Accounted, Running, Cancelled, Stamped
<1>2. ASSUME NEW o \in Owners, WriteLease(o) PROVE Accounted'
  BY <1>2, ConstantsAssumption DEF IInv, WriteLease, Goto, Claimed, files, goroutine, watcher,
     TypeOK, Hearts, Accounted, Running, Cancelled, Stamped
<1>3. ASSUME NEW o \in Owners, Start(o) PROVE Accounted'
  BY <1>3, ConstantsAssumption DEF IInv, Start, Goto, Quietly, files, goroutine, watcher,
     TypeOK, Hearts, Accounted, Running, Cancelled, Stamped
<1>4. ASSUME NEW o \in Owners, StartFails(o) PROVE Accounted'
  BY <1>4, ConstantsAssumption DEF IInv, StartFails, Goto, Quietly, files, goroutine, watcher,
     TypeOK, Hearts, Accounted, Running, Cancelled, Stamped
<1>5. ASSUME NEW o \in Owners, Load(o) PROVE Accounted'
  BY <1>5, ConstantsAssumption DEF IInv, Load, Goto, Quietly, files, goroutine, watcher,
     TypeOK, Hearts, Accounted, Running, Cancelled, Stamped
<1>6. ASSUME NEW o \in Owners, CreateFails(o) PROVE Accounted'
  BY <1>6, ConstantsAssumption DEF IInv, CreateFails, Goto, Quietly, files, goroutine, watcher,
     TypeOK, Hearts, Accounted, Running, Cancelled, Stamped
<1>7. ASSUME NEW o \in Owners, ClearSocket(o) PROVE Accounted'
  BY <1>7, ConstantsAssumption DEF IInv, ClearSocket, Goto, SockStep, files, goroutine, watcher,
     TypeOK, Hearts, Accounted, Running, Cancelled, Stamped
<1>8. ASSUME NEW o \in Owners, Listen(o) PROVE Accounted'
  BY <1>8, ConstantsAssumption DEF IInv, Listen, Goto, SockStep, files, goroutine, watcher,
     TypeOK, Hearts, Accounted, Running, Cancelled, Stamped
<1>9. ASSUME NEW o \in Owners, ListenFails(o) PROVE Accounted'
  BY <1>9, ConstantsAssumption DEF IInv, ListenFails, Goto, Quietly, files, goroutine, watcher,
     TypeOK, Hearts, Accounted, Running, Cancelled, Stamped
<1>10. ASSUME NEW o \in Owners, CloseListener(o) PROVE Accounted'
  BY <1>10, ConstantsAssumption DEF IInv, CloseListener, Goto, SockStep, files, goroutine, watcher,
     TypeOK, Hearts, Accounted, Running, Cancelled, Stamped
<1>11. ASSUME NEW o \in Owners, RunReturns(o) PROVE Accounted'
  BY <1>11, ConstantsAssumption DEF IInv, RunReturns, Goto, SockStep, files, goroutine, watcher,
     TypeOK, Hearts, Accounted, Running, Cancelled, Stamped
<1>12. ASSUME NEW o \in Owners, CloseAgent(o) PROVE Accounted'
  BY <1>12, ConstantsAssumption DEF IInv, CloseAgent, Goto, Quietly, files, goroutine, watcher,
     TypeOK, Hearts, Accounted, Running, Cancelled, Stamped
<1>13. ASSUME NEW o \in Owners, RemoveBeat(o) PROVE Accounted'
  BY <1>13, ConstantsAssumption DEF IInv, RemoveBeat, Goto, files, goroutine, watcher,
     TypeOK, Hearts, Accounted, Running, Cancelled, Stamped
<1>14. ASSUME NEW o \in Owners, RemoveLease(o) PROVE Accounted'
  BY <1>14, ConstantsAssumption DEF IInv, RemoveLease, Goto, files, goroutine, watcher,
     TypeOK, Hearts, Accounted, Running, Cancelled, Stamped
<1>15. ASSUME NEW o \in Owners, OpenBeat(o) PROVE Accounted'
  BY <1>15, ConstantsAssumption DEF IInv, OpenBeat, files, goroutine, watcher,
     TypeOK, Hearts, Accounted, Running, Cancelled, Stamped
<1>16. ASSUME NEW o \in Owners, WriteBeat(o) PROVE Accounted'
  BY <1>16, ConstantsAssumption DEF IInv, WriteBeat, files, goroutine, watcher,
     TypeOK, Hearts, Accounted, Running, Cancelled, Stamped
<1>17. ASSUME NEW o \in Owners, StopHeart(o) PROVE Accounted'
  BY <1>17, ConstantsAssumption DEF IInv, StopHeart, files, goroutine, watcher,
     TypeOK, Hearts, Accounted, Running, Cancelled, Stamped
<1>18. ASSUME NEW o \in Owners, Exit(o) PROVE Accounted'
  BY <1>18, ConstantsAssumption DEF IInv, Exit, End, files, goroutine, watcher,
     TypeOK, Hearts, Accounted, Running, Cancelled, Stamped
<1>19. ASSUME NEW o \in Owners, Kill(o) PROVE Accounted'
  BY <1>19, ConstantsAssumption DEF IInv, Kill, End, files, goroutine, watcher,
     TypeOK, Hearts, Accounted, Running, Cancelled, Stamped
<1>20. CASE Second
  BY <1>20, ConstantsAssumption DEF IInv, Second, files, goroutine, watcher,
     TypeOK, Hearts, Accounted, Running, Cancelled, Stamped
<1>21. CASE ReadPID
  BY <1>21, ConstantsAssumption DEF IInv, ReadPID, Returns, Away, files, goroutine, watcher,
     TypeOK, Hearts, Accounted, Running, Cancelled, Stamped
<1>22. CASE Signal
  BY <1>22, ConstantsAssumption DEF IInv, Signal, Returns, Away, files, goroutine, watcher,
     TypeOK, Hearts, Accounted, Running, Cancelled, Stamped
<1>23. CASE HeartbeatAge
  BY <1>23, ConstantsAssumption DEF IInv, HeartbeatAge, Returns, Outcomes, Away, files, goroutine, watcher,
     TypeOK, Hearts, Accounted, Running, Cancelled, Stamped
<1>24. CASE UNCHANGED vars
  BY <1>24 DEF IInv, vars, files, goroutine, watcher, TypeOK, Hearts, Accounted, Running, Cancelled, Stamped
<1> QED
  BY <1>1, <1>2, <1>3, <1>4, <1>5, <1>6, <1>7, <1>8, <1>9, <1>10, <1>11, <1>12, <1>13, <1>14, <1>15, <1>16, <1>17, <1>18, <1>19, <1>20, <1>21, <1>22, <1>23, <1>24 DEF Next, Session, Heartbeat, IsStale

\* The second that fires a lone session's ticker waits for late heartbeats.
LEMMA QuietStep ==
  ASSUME IInv, [Next]_vars
  PROVE  Quiet'
<1>1. ASSUME NEW o \in Owners, OpenLease(o) PROVE Quiet'
  BY <1>1, ConstantsAssumption DEF IInv, OpenLease, Goto, files, goroutine, watcher,
     TypeOK, Hearts, Lone, Quiet, Running, Others, Cancelled, Places
<1>2. ASSUME NEW o \in Owners, WriteLease(o) PROVE Quiet'
  BY <1>2, ConstantsAssumption DEF IInv, WriteLease, Goto, Claimed, files, goroutine, watcher,
     TypeOK, Hearts, Lone, Quiet, Running, Others, Cancelled, Places
<1>3. ASSUME NEW o \in Owners, Start(o) PROVE Quiet'
  BY <1>3, ConstantsAssumption DEF IInv, Start, Goto, Quietly, files, goroutine, watcher,
     TypeOK, Hearts, Lone, Quiet, Running, Others, Cancelled, Places
<1>4. ASSUME NEW o \in Owners, StartFails(o) PROVE Quiet'
  BY <1>4, ConstantsAssumption DEF IInv, StartFails, Goto, Quietly, files, goroutine, watcher,
     TypeOK, Hearts, Lone, Quiet, Running, Others, Cancelled, Places
<1>5. ASSUME NEW o \in Owners, Load(o) PROVE Quiet'
  BY <1>5, ConstantsAssumption DEF IInv, Load, Goto, Quietly, files, goroutine, watcher,
     TypeOK, Hearts, Lone, Quiet, Running, Others, Cancelled, Places
<1>6. ASSUME NEW o \in Owners, CreateFails(o) PROVE Quiet'
  BY <1>6, ConstantsAssumption DEF IInv, CreateFails, Goto, Quietly, files, goroutine, watcher,
     TypeOK, Hearts, Lone, Quiet, Running, Others, Cancelled, Places
<1>7. ASSUME NEW o \in Owners, ClearSocket(o) PROVE Quiet'
  BY <1>7, ConstantsAssumption DEF IInv, ClearSocket, Goto, SockStep, files, goroutine, watcher,
     TypeOK, Hearts, Lone, Quiet, Running, Others, Cancelled, Places
<1>8. ASSUME NEW o \in Owners, Listen(o) PROVE Quiet'
  BY <1>8, ConstantsAssumption DEF IInv, Listen, Goto, SockStep, files, goroutine, watcher,
     TypeOK, Hearts, Lone, Quiet, Running, Others, Cancelled, Places
<1>9. ASSUME NEW o \in Owners, ListenFails(o) PROVE Quiet'
  BY <1>9, ConstantsAssumption DEF IInv, ListenFails, Goto, Quietly, files, goroutine, watcher,
     TypeOK, Hearts, Lone, Quiet, Running, Others, Cancelled, Places
<1>10. ASSUME NEW o \in Owners, CloseListener(o) PROVE Quiet'
  BY <1>10, ConstantsAssumption DEF IInv, CloseListener, Goto, SockStep, files, goroutine, watcher,
     TypeOK, Hearts, Lone, Quiet, Running, Others, Cancelled, Places
<1>11. ASSUME NEW o \in Owners, RunReturns(o) PROVE Quiet'
  BY <1>11, ConstantsAssumption DEF IInv, RunReturns, Goto, SockStep, files, goroutine, watcher,
     TypeOK, Hearts, Lone, Quiet, Running, Others, Cancelled, Places
<1>12. ASSUME NEW o \in Owners, CloseAgent(o) PROVE Quiet'
  BY <1>12, ConstantsAssumption DEF IInv, CloseAgent, Goto, Quietly, files, goroutine, watcher,
     TypeOK, Hearts, Lone, Quiet, Running, Others, Cancelled, Places
<1>13. ASSUME NEW o \in Owners, RemoveBeat(o) PROVE Quiet'
  BY <1>13, ConstantsAssumption DEF IInv, RemoveBeat, Goto, files, goroutine, watcher,
     TypeOK, Hearts, Lone, Quiet, Running, Others, Cancelled, Places
<1>14. ASSUME NEW o \in Owners, RemoveLease(o) PROVE Quiet'
  BY <1>14, ConstantsAssumption DEF IInv, RemoveLease, Goto, files, goroutine, watcher,
     TypeOK, Hearts, Lone, Quiet, Running, Others, Cancelled, Places
<1>15. ASSUME NEW o \in Owners, OpenBeat(o) PROVE Quiet'
  BY <1>15, ConstantsAssumption DEF IInv, OpenBeat, files, goroutine, watcher,
     TypeOK, Hearts, Lone, Quiet, Running, Others, Cancelled, Places
<1>16. ASSUME NEW o \in Owners, WriteBeat(o) PROVE Quiet'
  BY <1>16, ConstantsAssumption DEF IInv, WriteBeat, files, goroutine, watcher,
     TypeOK, Hearts, Lone, Quiet, Running, Others, Cancelled, Places
<1>17. ASSUME NEW o \in Owners, StopHeart(o) PROVE Quiet'
  BY <1>17, ConstantsAssumption DEF IInv, StopHeart, files, goroutine, watcher,
     TypeOK, Hearts, Lone, Quiet, Running, Others, Cancelled, Places
<1>18. ASSUME NEW o \in Owners, Exit(o) PROVE Quiet'
  BY <1>18, ConstantsAssumption DEF IInv, Exit, End, files, goroutine, watcher,
     TypeOK, Hearts, Lone, Quiet, Running, Others, Cancelled, Places
<1>19. ASSUME NEW o \in Owners, Kill(o) PROVE Quiet'
  BY <1>19, ConstantsAssumption DEF IInv, Kill, End, files, goroutine, watcher,
     TypeOK, Hearts, Lone, Quiet, Running, Others, Cancelled, Places
<1>20. CASE Second
  BY <1>20, ConstantsAssumption DEF IInv, Second, files, goroutine, watcher,
     TypeOK, Hearts, Lone, Quiet, Running, Others, Cancelled, Places
<1>21. CASE ReadPID
  BY <1>21, ConstantsAssumption DEF IInv, ReadPID, Returns, Away, files, goroutine, watcher,
     TypeOK, Hearts, Lone, Quiet, Running, Others, Cancelled, Places
<1>22. CASE Signal
  BY <1>22, ConstantsAssumption DEF IInv, Signal, Returns, Away, files, goroutine, watcher,
     TypeOK, Hearts, Lone, Quiet, Running, Others, Cancelled, Places
<1>23. CASE HeartbeatAge
  BY <1>23, ConstantsAssumption DEF IInv, HeartbeatAge, Returns, Outcomes, Away, files, goroutine, watcher,
     TypeOK, Hearts, Lone, Quiet, Running, Others, Cancelled, Places
<1>24. CASE UNCHANGED vars
  BY <1>24 DEF IInv, vars, files, goroutine, watcher, TypeOK, Hearts, Lone, Quiet, Running, Others, Cancelled, Places
<1> QED
  BY <1>1, <1>2, <1>3, <1>4, <1>5, <1>6, <1>7, <1>8, <1>9, <1>10, <1>11, <1>12, <1>13, <1>14, <1>15, <1>16, <1>17, <1>18, <1>19, <1>20, <1>21, <1>22, <1>23, <1>24 DEF Next, Session, Heartbeat, IsStale

\* Nobody else touches a lone session's heartbeat, and no second passes it by.
LEMMA FreshStep ==
  ASSUME IInv, [Next]_vars
  PROVE  Fresh'
<1>1. ASSUME NEW o \in Owners, OpenLease(o) PROVE Fresh'
  BY <1>1, ConstantsAssumption DEF IInv, OpenLease, Goto, files, goroutine, watcher,
     TypeOK, Hearts, Lone, Quiet, Fresh, Working, Running, Others, Cancelled, Stamped
<1>2. ASSUME NEW o \in Owners, WriteLease(o) PROVE Fresh'
  BY <1>2, ConstantsAssumption DEF IInv, WriteLease, Goto, Claimed, files, goroutine, watcher,
     TypeOK, Hearts, Lone, Quiet, Fresh, Working, Running, Others, Cancelled, Stamped
<1>3. ASSUME NEW o \in Owners, Start(o) PROVE Fresh'
  BY <1>3, ConstantsAssumption DEF IInv, Start, Goto, Quietly, files, goroutine, watcher,
     TypeOK, Hearts, Lone, Quiet, Fresh, Working, Running, Others, Cancelled, Stamped
<1>4. ASSUME NEW o \in Owners, StartFails(o) PROVE Fresh'
  BY <1>4, ConstantsAssumption DEF IInv, StartFails, Goto, Quietly, files, goroutine, watcher,
     TypeOK, Hearts, Lone, Quiet, Fresh, Working, Running, Others, Cancelled, Stamped
<1>5. ASSUME NEW o \in Owners, Load(o) PROVE Fresh'
  BY <1>5, ConstantsAssumption DEF IInv, Load, Goto, Quietly, files, goroutine, watcher,
     TypeOK, Hearts, Lone, Quiet, Fresh, Working, Running, Others, Cancelled, Stamped
<1>6. ASSUME NEW o \in Owners, CreateFails(o) PROVE Fresh'
  BY <1>6, ConstantsAssumption DEF IInv, CreateFails, Goto, Quietly, files, goroutine, watcher,
     TypeOK, Hearts, Lone, Quiet, Fresh, Working, Running, Others, Cancelled, Stamped
<1>7. ASSUME NEW o \in Owners, ClearSocket(o) PROVE Fresh'
  BY <1>7, ConstantsAssumption DEF IInv, ClearSocket, Goto, SockStep, files, goroutine, watcher,
     TypeOK, Hearts, Lone, Quiet, Fresh, Working, Running, Others, Cancelled, Stamped
<1>8. ASSUME NEW o \in Owners, Listen(o) PROVE Fresh'
  BY <1>8, ConstantsAssumption DEF IInv, Listen, Goto, SockStep, files, goroutine, watcher,
     TypeOK, Hearts, Lone, Quiet, Fresh, Working, Running, Others, Cancelled, Stamped
<1>9. ASSUME NEW o \in Owners, ListenFails(o) PROVE Fresh'
  BY <1>9, ConstantsAssumption DEF IInv, ListenFails, Goto, Quietly, files, goroutine, watcher,
     TypeOK, Hearts, Lone, Quiet, Fresh, Working, Running, Others, Cancelled, Stamped
<1>10. ASSUME NEW o \in Owners, CloseListener(o) PROVE Fresh'
  BY <1>10, ConstantsAssumption DEF IInv, CloseListener, Goto, SockStep, files, goroutine, watcher,
     TypeOK, Hearts, Lone, Quiet, Fresh, Working, Running, Others, Cancelled, Stamped
<1>11. ASSUME NEW o \in Owners, RunReturns(o) PROVE Fresh'
  BY <1>11, ConstantsAssumption DEF IInv, RunReturns, Goto, SockStep, files, goroutine, watcher,
     TypeOK, Hearts, Lone, Quiet, Fresh, Working, Running, Others, Cancelled, Stamped
<1>12. ASSUME NEW o \in Owners, CloseAgent(o) PROVE Fresh'
  BY <1>12, ConstantsAssumption DEF IInv, CloseAgent, Goto, Quietly, files, goroutine, watcher,
     TypeOK, Hearts, Lone, Quiet, Fresh, Working, Running, Others, Cancelled, Stamped
<1>13. ASSUME NEW o \in Owners, RemoveBeat(o) PROVE Fresh'
  BY <1>13, ConstantsAssumption DEF IInv, RemoveBeat, Goto, files, goroutine, watcher,
     TypeOK, Hearts, Lone, Quiet, Fresh, Working, Running, Others, Cancelled, Stamped
<1>14. ASSUME NEW o \in Owners, RemoveLease(o) PROVE Fresh'
  BY <1>14, ConstantsAssumption DEF IInv, RemoveLease, Goto, files, goroutine, watcher,
     TypeOK, Hearts, Lone, Quiet, Fresh, Working, Running, Others, Cancelled, Stamped
<1>15. ASSUME NEW o \in Owners, OpenBeat(o) PROVE Fresh'
  BY <1>15, ConstantsAssumption DEF IInv, OpenBeat, files, goroutine, watcher,
     TypeOK, Hearts, Lone, Quiet, Fresh, Working, Running, Others, Cancelled, Stamped
<1>16. ASSUME NEW o \in Owners, WriteBeat(o) PROVE Fresh'
  BY <1>16, ConstantsAssumption DEF IInv, WriteBeat, files, goroutine, watcher,
     TypeOK, Hearts, Lone, Quiet, Fresh, Working, Running, Others, Cancelled, Stamped
<1>17. ASSUME NEW o \in Owners, StopHeart(o) PROVE Fresh'
  BY <1>17, ConstantsAssumption DEF IInv, StopHeart, files, goroutine, watcher,
     TypeOK, Hearts, Lone, Quiet, Fresh, Working, Running, Others, Cancelled, Stamped
<1>18. ASSUME NEW o \in Owners, Exit(o) PROVE Fresh'
  BY <1>18, ConstantsAssumption DEF IInv, Exit, End, files, goroutine, watcher,
     TypeOK, Hearts, Lone, Quiet, Fresh, Working, Running, Others, Cancelled, Stamped
<1>19. ASSUME NEW o \in Owners, Kill(o) PROVE Fresh'
  BY <1>19, ConstantsAssumption DEF IInv, Kill, End, files, goroutine, watcher,
     TypeOK, Hearts, Lone, Quiet, Fresh, Working, Running, Others, Cancelled, Stamped
<1>20. CASE Second
  BY <1>20, ConstantsAssumption DEF IInv, Second, files, goroutine, watcher,
     TypeOK, Hearts, Lone, Quiet, Fresh, Working, Running, Others, Cancelled, Stamped
<1>21. CASE ReadPID
  BY <1>21, ConstantsAssumption DEF IInv, ReadPID, Returns, Away, files, goroutine, watcher,
     TypeOK, Hearts, Lone, Quiet, Fresh, Working, Running, Others, Cancelled, Stamped
<1>22. CASE Signal
  BY <1>22, ConstantsAssumption DEF IInv, Signal, Returns, Away, files, goroutine, watcher,
     TypeOK, Hearts, Lone, Quiet, Fresh, Working, Running, Others, Cancelled, Stamped
<1>23. CASE HeartbeatAge
  BY <1>23, ConstantsAssumption DEF IInv, HeartbeatAge, Returns, Outcomes, Away, files, goroutine, watcher,
     TypeOK, Hearts, Lone, Quiet, Fresh, Working, Running, Others, Cancelled, Stamped
<1>24. CASE UNCHANGED vars
  BY <1>24 DEF IInv, vars, files, goroutine, watcher, TypeOK, Hearts, Lone, Quiet, Fresh, Working, Running, Others, Cancelled, Stamped
<1> QED
  BY <1>1, <1>2, <1>3, <1>4, <1>5, <1>6, <1>7, <1>8, <1>9, <1>10, <1>11, <1>12, <1>13, <1>14, <1>15, <1>16, <1>17, <1>18, <1>19, <1>20, <1>21, <1>22, <1>23, <1>24 DEF Next, Session, Heartbeat, IsStale

\* The watcher goes on with the owner it has read.
LEMMA WatchedStep ==
  ASSUME IInv, [Next]_vars
  PROVE  Watched'
<1>1. ASSUME NEW o \in Owners, OpenLease(o) PROVE Watched'
  BY <1>1, ConstantsAssumption DEF IInv, OpenLease, Goto, files, goroutine, watcher,
     TypeOK, Watched
<1>2. ASSUME NEW o \in Owners, WriteLease(o) PROVE Watched'
  BY <1>2, ConstantsAssumption DEF IInv, WriteLease, Goto, Claimed, files, goroutine, watcher,
     TypeOK, Watched
<1>3. ASSUME NEW o \in Owners, Start(o) PROVE Watched'
  BY <1>3, ConstantsAssumption DEF IInv, Start, Goto, Quietly, files, goroutine, watcher,
     TypeOK, Watched
<1>4. ASSUME NEW o \in Owners, StartFails(o) PROVE Watched'
  BY <1>4, ConstantsAssumption DEF IInv, StartFails, Goto, Quietly, files, goroutine, watcher,
     TypeOK, Watched
<1>5. ASSUME NEW o \in Owners, Load(o) PROVE Watched'
  BY <1>5, ConstantsAssumption DEF IInv, Load, Goto, Quietly, files, goroutine, watcher,
     TypeOK, Watched
<1>6. ASSUME NEW o \in Owners, CreateFails(o) PROVE Watched'
  BY <1>6, ConstantsAssumption DEF IInv, CreateFails, Goto, Quietly, files, goroutine, watcher,
     TypeOK, Watched
<1>7. ASSUME NEW o \in Owners, ClearSocket(o) PROVE Watched'
  BY <1>7, ConstantsAssumption DEF IInv, ClearSocket, Goto, SockStep, files, goroutine, watcher,
     TypeOK, Watched
<1>8. ASSUME NEW o \in Owners, Listen(o) PROVE Watched'
  BY <1>8, ConstantsAssumption DEF IInv, Listen, Goto, SockStep, files, goroutine, watcher,
     TypeOK, Watched
<1>9. ASSUME NEW o \in Owners, ListenFails(o) PROVE Watched'
  BY <1>9, ConstantsAssumption DEF IInv, ListenFails, Goto, Quietly, files, goroutine, watcher,
     TypeOK, Watched
<1>10. ASSUME NEW o \in Owners, CloseListener(o) PROVE Watched'
  BY <1>10, ConstantsAssumption DEF IInv, CloseListener, Goto, SockStep, files, goroutine, watcher,
     TypeOK, Watched
<1>11. ASSUME NEW o \in Owners, RunReturns(o) PROVE Watched'
  BY <1>11, ConstantsAssumption DEF IInv, RunReturns, Goto, SockStep, files, goroutine, watcher,
     TypeOK, Watched
<1>12. ASSUME NEW o \in Owners, CloseAgent(o) PROVE Watched'
  BY <1>12, ConstantsAssumption DEF IInv, CloseAgent, Goto, Quietly, files, goroutine, watcher,
     TypeOK, Watched
<1>13. ASSUME NEW o \in Owners, RemoveBeat(o) PROVE Watched'
  BY <1>13, ConstantsAssumption DEF IInv, RemoveBeat, Goto, files, goroutine, watcher,
     TypeOK, Watched
<1>14. ASSUME NEW o \in Owners, RemoveLease(o) PROVE Watched'
  BY <1>14, ConstantsAssumption DEF IInv, RemoveLease, Goto, files, goroutine, watcher,
     TypeOK, Watched
<1>15. ASSUME NEW o \in Owners, OpenBeat(o) PROVE Watched'
  BY <1>15, ConstantsAssumption DEF IInv, OpenBeat, files, goroutine, watcher,
     TypeOK, Watched
<1>16. ASSUME NEW o \in Owners, WriteBeat(o) PROVE Watched'
  BY <1>16, ConstantsAssumption DEF IInv, WriteBeat, files, goroutine, watcher,
     TypeOK, Watched
<1>17. ASSUME NEW o \in Owners, StopHeart(o) PROVE Watched'
  BY <1>17, ConstantsAssumption DEF IInv, StopHeart, files, goroutine, watcher,
     TypeOK, Watched
<1>18. ASSUME NEW o \in Owners, Exit(o) PROVE Watched'
  BY <1>18, ConstantsAssumption DEF IInv, Exit, End, files, goroutine, watcher,
     TypeOK, Watched
<1>19. ASSUME NEW o \in Owners, Kill(o) PROVE Watched'
  BY <1>19, ConstantsAssumption DEF IInv, Kill, End, files, goroutine, watcher,
     TypeOK, Watched
<1>20. CASE Second
  BY <1>20, ConstantsAssumption DEF IInv, Second, files, goroutine, watcher,
     TypeOK, Watched
<1>21. CASE ReadPID
  BY <1>21, ConstantsAssumption DEF IInv, ReadPID, Returns, Away, files, goroutine, watcher,
     TypeOK, Watched
<1>22. CASE Signal
  BY <1>22, ConstantsAssumption DEF IInv, Signal, Returns, Away, files, goroutine, watcher,
     TypeOK, Watched
<1>23. CASE HeartbeatAge
  BY <1>23, ConstantsAssumption DEF IInv, HeartbeatAge, Returns, Outcomes, Away, files, goroutine, watcher,
     TypeOK, Watched
<1>24. CASE UNCHANGED vars
  BY <1>24 DEF IInv, vars, files, goroutine, watcher, TypeOK, Watched
<1> QED
  BY <1>1, <1>2, <1>3, <1>4, <1>5, <1>6, <1>7, <1>8, <1>9, <1>10, <1>11, <1>12, <1>13, <1>14, <1>15, <1>16, <1>17, <1>18, <1>19, <1>20, <1>21, <1>22, <1>23, <1>24 DEF Next, Session, Heartbeat, IsStale

-----------------------------------------------------------------------------
LEMMA Invariance == Spec => []IInv
<1>1. IInv /\ [Next]_vars => IInv'
  BY TypeStep, HeartsStep, LoneStep, OwnedStep, AccountedStep, QuietStep,
     FreshStep, WatchedStep DEF IInv
<1> QED
  BY IInvInit, <1>1, PTL DEF Spec

\* TypeOK: files and places are of their kind, for any sessions.
THEOREM TypeCorrect == Spec => []TypeOK
<1>1. IInv => TypeOK
  BY DEF IInv
<1> QED
  BY Invariance, <1>1, PTL

\* LoneSessionOwns: whatever was left behind, a session that meets no other
\* listens, under its own lease and its own socket.
THEOREM LoneSessionServes == Spec => []LoneSessionOwns
<1>1. IInv => LoneSessionOwns
  BY DEF IInv, Owned, LoneSessionOwns, Running
<1> QED
  BY Invariance, <1>1, PTL

\* NothingLeft: sessions that all come to their end leave no lease and no
\* socket, however they overlapped, and a heartbeat only by a late goroutine.
THEOREM SessionsCleanUp == Spec => []NothingLeft
<1>1. IInv => NothingLeft
  BY DEF IInv, TypeOK, Accounted, NothingLeft, Running
<1> QED
  BY Invariance, <1>1, PTL

\* A check of a healthy session that ends says that it is alive.
LEMMA HealthyStep ==
  ASSUME IInv, [Next]_vars, NEW o \in Owners,
         watch.at # "idle", watch'.at = "idle", MaxBeat # 1,
         watch.well = o, Healthy(o)
  PROVE  verdict' = "live"
<1>1. watch.pid = o /\ Alive(o) /\ watch.at \in {"signal", "age"}
  BY ConstantsAssumption DEF IInv, Watched, TypeOK, Healthy, Alive
<1>2. beat = "stamped" /\ age <= 1
  BY DEF IInv, Fresh, Healthy, Working
<1>3. CASE Signal
  <2>1. ~(watch' = [watch EXCEPT !.at = "age"])
    BY DEF IInv, TypeOK
  <2> QED
    BY <1>1, <1>3, <2>1 DEF Signal, Returns, Away
<1>4. CASE HeartbeatAge
  <2>1. MaxBeat > 1 /\ age < MaxBeat /\ age \in Nat
    BY <1>2, <1>4, ConstantsAssumption DEF HeartbeatAge, IInv, Watched, TypeOK
  <2>2. Outcomes = {"live"}
    BY <1>2, <2>1, ConstantsAssumption DEF Outcomes
  <2> QED
    BY <1>4, <2>2 DEF HeartbeatAge, Returns
<1>5. watch' # watch
  BY DEF IInv
<1> QED
  BY <1>1, <1>3, <1>4, <1>5
  DEF Next, Session, Heartbeat, IsStale, vars, files, goroutine, watcher,
      OpenLease, WriteLease, Start, StartFails, Load, CreateFails, ClearSocket,
      Listen, ListenFails, CloseListener, RunReturns, CloseAgent, RemoveBeat,
      RemoveLease, Quietly, SockStep, OpenBeat, WriteBeat, StopHeart, Exit, Kill,
      End, Second, ReadPID

\* HealthyIsLive: a lone session with a heartbeat is not judged stale by a
\* watcher that allows two seconds or more, or looks at no heartbeat.
THEOREM HealthyJudgedLive == Spec => HealthyIsLive
<1>1. IInv /\ [Next]_vars =>
        [\A o \in Owners :
           /\ watch.at # "idle" /\ watch'.at = "idle" /\ MaxBeat # 1
           /\ watch.well = o /\ Healthy(o)
           => verdict' = "live"]_vars
  BY HealthyStep
<1> QED
  BY Invariance, <1>1, PTL DEF Spec, HealthyIsLive
=============================================================================
