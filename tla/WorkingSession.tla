--------------------------- MODULE WorkingSession ---------------------------
(***************************************************************************)
(* The life of a working session and the three files it shares with every  *)
(* other session on the same socket path: the lease, the heartbeat         *)
(* (internal/queue/lease.go) and the socket (internal/queue/server.go), as *)
(* RunWorkingSession (internal/session/runtime.go) goes through them.      *)
(*                                                                         *)
(* A member of Owners is one process that runs one working session.  What  *)
(* the session does while it serves is QueueServer and PromptStream.  A    *)
(* watcher process calls IsStale over and over.                            *)
(*                                                                         *)
(* A tick is a second of the wall clock, which is what a heartbeat is      *)
(* stamped with and how often it is due.  Heartbeats are timely: a second  *)
(* does not pass before the goroutines that owe one have written it.       *)
(***************************************************************************)
EXTENDS Naturals

CONSTANTS
  Owners,    \* processes that run a working session
  MaxBeat,   \* maxHeartbeatAge of the watcher, in seconds; 0 ignores heartbeats
  None,      \* no file
  Empty,     \* a lease opened with O_TRUNC and not yet written
  Torn       \* a lease pieced together from two process identifiers

ASSUME ConstantsAssumption ==
  /\ MaxBeat \in Nat
  /\ {None, Empty, Torn} \cap Owners = {}
  /\ None # Empty /\ None # Torn /\ Empty # Torn

VARIABLES
  lease,    \* what the lease file holds
  beat,     \* the heartbeat file: "none", "empty" or "stamped"
  age,      \* seconds since its stamp, no further than MaxBeat + 1
  sock,     \* the process whose listener made the socket file, or None
  pc,       \* pc[o]: where RunWorkingSession of o stands
  heart,    \* heart[o]: the heartbeat goroutine: "off", "waiting", "writing"
  due,      \* processes whose ticker has fired since their last heartbeat
  leaseFds, \* processes whose descriptor names the file at the lease's path
  beatFds,  \* processes whose descriptor names the file at the heartbeat's path
  watch,    \* the watcher: where IsStale stands, and what it has read
  verdict,  \* what IsStale returned last
  beaten,   \* processes that have written a heartbeat
  met,      \* processes that ran beside another one at some time
  killed,   \* processes that were killed
  late      \* processes that wrote a heartbeat after their Release began

files == <<lease, beat, age, sock, leaseFds, beatFds>>
goroutine == <<heart, due, beaten, late>>
watcher == <<watch, verdict>>
vars == <<files, goroutine, watcher, pc, met, killed>>

Places ==
  {"idle", "acquiring", "starting", "loading", "clearing", "listening",
   "serving", "closed", "closing", "releasing", "unlocking", "over", "gone"}

\* Between the first and the last of its file operations.
Running(o) == pc[o] \notin {"idle", "over", "gone"}

\* processAlive
Alive(o) == pc[o] \notin {"idle", "gone"}

\* cancelHeartbeat has run.
Cancelled(o) == pc[o] \in {"releasing", "unlocking", "over"}

Away == [at |-> "idle", pid |-> None, well |-> None]

TypeOK ==
  /\ lease \in Owners \cup {None, Empty, Torn}
  /\ beat \in {"none", "empty", "stamped"}
  /\ age \in 0..MaxBeat + 1
  /\ sock \in Owners \cup {None}
  /\ pc \in [Owners -> Places]
  /\ heart \in [Owners -> {"off", "waiting", "writing"}]
  /\ due \subseteq Owners /\ leaseFds \subseteq Owners
  /\ beatFds \subseteq Owners /\ beaten \subseteq Owners
  /\ met \subseteq Owners /\ killed \subseteq Owners /\ late \subseteq Owners
  /\ watch \in [at : {"idle", "signal", "age"}, pid : Owners \cup {None, Torn},
                well : Owners \cup {None}]
  /\ verdict \in {"none", "live", "stale"}

Init ==
  /\ lease = None /\ beat = "none" /\ age = 0 /\ sock = None
  /\ pc = [o \in Owners |-> "idle"]
  /\ heart = [o \in Owners |-> "off"]
  /\ due = {} /\ leaseFds = {} /\ beatFds = {}
  /\ watch = Away /\ verdict = "none"
  /\ beaten = {} /\ met = {} /\ killed = {} /\ late = {}

Goto(o, from, to) == pc[o] = from /\ pc' = [pc EXCEPT ![o] = to]

-----------------------------------------------------------------------------
(* RunWorkingSession: the lease *)

\* The sessions o meets when it begins.
Others(o) == {q \in Owners \ {o} : Running(q)}

\* Acquire opens the lease, whoever holds it, and so empties it.
OpenLease(o) ==
  /\ Goto(o, "idle", "acquiring")
  /\ lease' = Empty /\ leaseFds' = leaseFds \cup {o}
  /\ met' = IF Others(o) = {} THEN met ELSE met \cup Others(o) \cup {o}
  /\ UNCHANGED <<beat, age, sock, beatFds, goroutine, watcher, killed>>

\* A write over another's identifier may leave some of its digits; a write to
\* a file removed in between is seen by nobody.
Claimed(o) ==
  IF o \notin leaseFds THEN {lease}
  ELSE IF lease = Empty THEN {o} ELSE {o, Torn}

\* Acquire writes the identifier, and the heartbeat goroutine starts.
WriteLease(o) ==
  /\ Goto(o, "acquiring", "starting")
  /\ lease' \in Claimed(o)
  /\ leaseFds' = leaseFds \ {o}
  /\ heart' = [heart EXCEPT ![o] = "waiting"]
  /\ UNCHANGED <<beat, age, sock, beatFds, due, beaten, late, watcher, met,
                 killed>>

\* Release: the heartbeat goes first, then the lease, whoever wrote them.
RemoveBeat(o) ==
  /\ Goto(o, "releasing", "unlocking")
  /\ beat' = "none" /\ age' = 0 /\ beatFds' = {}
  /\ UNCHANGED <<lease, sock, leaseFds, goroutine, watcher, met, killed>>

RemoveLease(o) ==
  /\ Goto(o, "unlocking", "over")
  /\ lease' = None /\ leaseFds' = {}
  /\ UNCHANGED <<beat, age, sock, beatFds, goroutine, watcher, met, killed>>

-----------------------------------------------------------------------------
(* RunWorkingSession: agent and server *)

Quietly == UNCHANGED <<files, goroutine, watcher, met, killed>>

Start(o) == Goto(o, "starting", "loading") /\ Quietly

\* Mutant of StartFails: the lease is released by the paths that serve only.
StartFailsHolding(o) == Goto(o, "starting", "over") /\ Quietly

\* Nothing but the lease is to be given back.
StartFails(o) == Goto(o, "starting", "releasing") /\ Quietly

\* The session is loaded, or created in its place.
Load(o) == Goto(o, "loading", "clearing") /\ Quietly

CreateFails(o) == Goto(o, "loading", "closing") /\ Quietly

SockStep(s) ==
  /\ sock' = s
  /\ UNCHANGED <<lease, beat, age, leaseFds, beatFds, goroutine, watcher, met,
                 killed>>

\* Mutant of ClearSocket: the path is not cleared.
ClearNothing(o) == Goto(o, "clearing", "listening") /\ Quietly

\* Server.Run removes whatever is at the path, a socket in use included.
ClearSocket(o) == Goto(o, "clearing", "listening") /\ SockStep(None)

Listen(o) == sock = None /\ Goto(o, "listening", "serving") /\ SockStep(o)

\* The address is in use: another session bound it in between.
ListenFails(o) == sock # None /\ Goto(o, "listening", "closing") /\ Quietly

\* The ticker closes the listener, on the TTL or the end of the context, and
\* the listener removes what is at the path, its own socket or not.
CloseListener(o) == Goto(o, "serving", "closed") /\ SockStep(None)

\* Run returns and its deferred call removes what is at the path by now.
RunReturns(o) == Goto(o, "closed", "closing") /\ SockStep(None)

\* The deferred Close of the client, then cancelHeartbeat.
CloseAgent(o) == Goto(o, "closing", "releasing") /\ Quietly

-----------------------------------------------------------------------------
(* The heartbeat goroutine and the clock *)

\* Refresh opens the heartbeat file and so empties it.  A tick that fired may
\* be taken after cancelHeartbeat: select prefers neither.
OpenBeat(o) ==
  /\ heart[o] = "waiting" /\ o \in due
  /\ heart' = [heart EXCEPT ![o] = "writing"]
  /\ due' = due \ {o}
  /\ beat' = "empty" /\ age' = 0 /\ beatFds' = beatFds \cup {o}
  /\ late' = IF Cancelled(o) THEN late \cup {o} ELSE late
  /\ UNCHANGED <<lease, sock, leaseFds, beaten, watcher, pc, met, killed>>

\* Mutant of Stamped: only a file that was not there before is stamped.
StampedOnce(o) == o \in beatFds /\ o \notin beaten

Stamped(o) == o \in beatFds

\* Refresh writes the time; every stamp is as long as any other.
WriteBeat(o) ==
  /\ heart[o] = "writing"
  /\ heart' = [heart EXCEPT ![o] = "waiting"]
  /\ beat' = IF Stamped(o) THEN "stamped" ELSE beat
  /\ age' = IF Stamped(o) THEN 0 ELSE age
  /\ beatFds' = beatFds \ {o}
  /\ beaten' = beaten \cup {o}
  /\ late' = IF Cancelled(o) THEN late \cup {o} ELSE late
  /\ UNCHANGED <<lease, sock, leaseFds, due, watcher, pc, met, killed>>

\* The goroutine sees the end of its context: cancelHeartbeat, or the end of
\* the session's own context, which closed the listener or failed the start.
StopHeart(o) ==
  /\ heart[o] = "waiting" /\ (Cancelled(o) \/ pc[o] \in {"closed", "closing"})
  /\ heart' = [heart EXCEPT ![o] = "off"]
  /\ due' = due \ {o}
  /\ UNCHANGED <<files, beaten, late, watcher, pc, met, killed>>

\* A second passes: heartbeats fall due, the one in the file grows older.
Second ==
  /\ due = {} /\ \A o \in Owners : heart[o] # "writing"
  /\ due' = {o \in Owners : heart[o] = "waiting" /\ ~Cancelled(o)}
  /\ age' = IF beat = "stamped" /\ age <= MaxBeat THEN age + 1 ELSE age
  /\ UNCHANGED <<lease, beat, sock, leaseFds, beatFds, heart, beaten, late,
                 watcher, pc, met, killed>>

\* The process ends, after its session or, when killed, at any time; what it
\* has opened is closed, what it has written stays.
End(o) ==
  /\ pc' = [pc EXCEPT ![o] = "gone"]
  /\ heart' = [heart EXCEPT ![o] = "off"]
  /\ due' = due \ {o}
  /\ leaseFds' = leaseFds \ {o} /\ beatFds' = beatFds \ {o}
  /\ UNCHANGED <<lease, beat, age, sock, beaten, late, watcher, met>>

Exit(o) == pc[o] = "over" /\ End(o) /\ UNCHANGED killed

Kill(o) == Running(o) /\ End(o) /\ killed' = killed \cup {o}

-----------------------------------------------------------------------------
(* The watcher: IsStale *)

\* Serving by itself, its first heartbeat written, and none half written.
Healthy(o) ==
  /\ pc[o] = "serving" /\ o \notin met
  /\ o \in beaten /\ heart[o] # "writing"

Returns(v) == watch' = Away /\ verdict' = v

\* ReadPID.  What two identifiers make together is no number, no process, or
\* a process that has nothing to do with any of this.
ReadPID ==
  /\ watch.at = "idle"
  /\ \/ lease \in {None, Empty, Torn} /\ Returns("stale")
     \/ /\ lease \in Owners \cup {Torn}
        /\ watch' = [at |-> "signal", pid |-> lease,
                     well |-> IF lease \in Owners /\ Healthy(lease) THEN lease
                              ELSE None]
        /\ UNCHANGED verdict
  /\ UNCHANGED <<files, goroutine, pc, met, killed>>

Signal ==
  /\ watch.at = "signal"
  /\ IF watch.pid \in Owners /\ ~Alive(watch.pid) THEN Returns("stale")
     ELSE IF MaxBeat = 0 THEN Returns("live")
     ELSE watch' = [watch EXCEPT !.at = "age"] /\ UNCHANGED verdict
  /\ UNCHANGED <<files, goroutine, pc, met, killed>>

\* Mutant of Outcomes: the age of the heartbeat does not matter.
OutcomesAgeless == IF beat = "stamped" THEN {"live"} ELSE {"stale"}

\* The stamp has no fraction of a second and the clock has: a heartbeat of
\* the second MaxBeat ago may count as older.
Outcomes ==
  CASE beat # "stamped" \/ age > MaxBeat -> {"stale"}
    [] age = MaxBeat                     -> {"live", "stale"}
    [] OTHER                             -> {"live"}

HeartbeatAge ==
  /\ watch.at = "age"
  /\ \E v \in Outcomes : Returns(v)
  /\ UNCHANGED <<files, goroutine, pc, met, killed>>

IsStale == ReadPID \/ Signal \/ HeartbeatAge

-----------------------------------------------------------------------------
Session(o) ==
  \/ OpenLease(o) \/ WriteLease(o) \/ Start(o) \/ StartFails(o) \/ Load(o)
  \/ CreateFails(o) \/ ClearSocket(o) \/ Listen(o) \/ ListenFails(o)
  \/ CloseListener(o) \/ RunReturns(o) \/ CloseAgent(o) \/ RemoveBeat(o)
  \/ RemoveLease(o)

Heartbeat(o) == OpenBeat(o) \/ WriteBeat(o) \/ StopHeart(o)

Next ==
  \/ \E o \in Owners : Session(o) \/ Heartbeat(o) \/ Exit(o) \/ Kill(o)
  \/ Second \/ IsStale

Spec == Init /\ [][Next]_vars

\* The clock, the heartbeat goroutines and the watcher do not stand still.
Fairness ==
  /\ WF_vars(Second) /\ WF_vars(IsStale)
  /\ \A o \in Owners : WF_vars(Heartbeat(o))

FairSpec == Spec /\ Fairness

-----------------------------------------------------------------------------
(* Properties *)

\* Whatever killed sessions have left behind, a session that meets no other
\* gets to listen, and as long as it serves the lease names it and the socket
\* is its own (runtime.go 139-194, server.go 30).
LoneSessionOwns ==
  \A o \in Owners \ met :
    /\ pc[o] = "listening" => sock = None
    /\ pc[o] = "serving" => lease = o /\ sock = o

\* When every session has ended and none was killed, there is no lease and no
\* socket, however the sessions overlapped, and a heartbeat only from a
\* goroutine that outlived its session's Release (runtime.go 143-156).
NothingLeft ==
  (killed = {} /\ \A o \in Owners : ~Running(o)) =>
    /\ lease = None /\ sock = None
    /\ beat # "none" => late # {}

\* A session that serves alone and has begun its heartbeats is not judged
\* stale by a check that begins and ends in that time and reads no heartbeat
\* half written, if two seconds or more are allowed (lease.go 51-68).
HealthyIsLive ==
  [][\A o \in Owners :
       /\ watch.at # "idle" /\ watch'.at = "idle" /\ MaxBeat # 1
       /\ watch.well = o /\ Healthy(o)
       => verdict' = "live"]_vars

\* Once no process is left, IsStale comes to say so and keeps saying it,
\* whatever lease and heartbeat the last ones left (lease.go 51-68).
DeadIsStale ==
  MaxBeat > 0 =>
    [](<>(\E o \in Owners : Alive(o)) \/ <>[](verdict = "stale"))
=============================================================================
