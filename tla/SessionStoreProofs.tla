------------------------- MODULE SessionStoreProofs -------------------------
(***************************************************************************)
(* What the files of the session store hold, for any number of processes,  *)
(* records, scopes and saves, killed and failing anywhere.                 *)
(***************************************************************************)
EXTENDS SessionStore, FiniteSetTheorems, WellFoundedInduction, TLAPS

Writing == {"open", "write", "rename"}

\* p has a file to write, and it is f.
Writes(p, f) == me[p].pc \in Writing /\ Target(p) = f

\* A process saves records of its own, each under its scope, and writes the
\* record before the index.
Task(p) ==
  LET m == me[p] IN
  /\ m.pc # "idle" => m.task \in {"save", "find"} /\ m.scope \in Scopes
  /\ m.pc # "idle" /\ m.task = "save" =>
       /\ m.rec \in Records /\ p \in Savers[m.rec]
       /\ m.scope = ScopeOf[m.rec] /\ m.version \in 1..saves
  /\ m.pc \in Writing /\ m.goal = "record" =>
       m.task = "save" /\ m.out = RecordFile(m.rec, m.version)
  /\ m.pc \in Writing /\ m.goal = "index" => m.task = "save"
  /\ m.pc \in Writing /\ m.goal # "record" => m.out \in IndexFiles

Tasks == \A p \in Procs : Task(p)

\* Entries that name records that are there, each under its own scope.
Honest(on, idx) ==
  \A s \in Scopes : idx[s] # None => ScopeOf[idx[s]] = s /\ on[idx[s]] # Absent

\* What p has in hand for the index, or goes for, is there.
Stand(p) ==
  LET m == me[p] IN
  /\ m.task = "save" /\ m.pc \in {"load", "scan"} => disk[m.rec] # Absent
  /\ m.task = "save" /\ m.pc \in Writing /\ m.goal # "record" => disk[m.rec] # Absent
  /\ Honest(disk, m.idx)
  /\ m.pc = "scan" => \A r \in m.names : disk[r] # Absent
  /\ m.pc \in Writing /\ m.goal # "record" => Honest(disk, m.out.entries)
  /\ m.pc = "fetch" /\ m.rec # None => ScopeOf[m.rec] = m.scope /\ disk[m.rec] # Absent

\* The index, and what may become the index, is honest.
IndexStands ==
  /\ disk[Index] \in IndexFiles => Honest(disk, disk[Index].entries)
  /\ temp[Index] \in IndexFiles => Honest(disk, temp[Index].entries)

Honesty == IndexStands /\ \A p \in Procs : Stand(p)

\* A record of one process, and a file that one process writes at a time.
Own(f)  == f \in Records /\ Sole(f)
Calm(f) == ~overlapped \/ Own(f)

\* The file of such a record is whole or not there at all, and carries a stamp
\* that was given.
CalmFile(f) ==
  Own(f) /\ disk[f] # Absent => disk[f] \in RecordFiles /\ disk[f].version <= saves

\* The temporary file of a calm file is its writer's own, and what is written
\* to such a record is newer.
CalmWriter(f, q) ==
  Calm(f) /\ Writes(q, f) =>
    /\ \A p \in Procs : Writes(p, f) => p = q
    /\ me[q].pc = "write" => me[q].fd = "temp" /\ temp[f] = Empty
    /\ me[q].pc = "rename" => temp[f] = me[q].out
    /\ Own(f) /\ disk[f] # Absent => disk[f].version <= me[q].version

Calmness == \A f \in Files : CalmFile(f) /\ \A q \in Procs : CalmWriter(f, q)

\* While processes take turns, one at most is under way.
Single ==
  ~overlapped => \A p, q \in Procs : me[p].pc # "idle" /\ me[q].pc # "idle" => p = q

\* A rebuild has come so far: idx[s] is the last readable record of s among
\* those it has been through, and these come before the others.
Been(m) == Records \ m.names

Rebuilding(m) ==
  /\ \A s \in Scopes :
       LET seen == Readable(s) \cap Been(m) IN
       IF seen = {} THEN m.idx[s] = None
       ELSE m.idx[s] \in seen /\ \A r \in seen : r <= m.idx[s]
  /\ \A r \in m.names, q \in Been(m) : disk[q] # Absent => q < r

\* Must the index be rebuilt?
Lost == disk[Index] \notin IndexFiles \cup {Absent}

\* What p, taking its turn, has in hand agrees with what is on disk: the index
\* it rebuilds or writes holds the entries that stand, but for that of the
\* record it saves, and a find goes for the entry that stands.
Turn(p) ==
  LET m == me[p] IN
  ~overlapped =>
    /\ m.pc = "scan" => Lost /\ Rebuilding(m)
    /\ m.pc \in Writing /\ m.goal = "rebuild" =>
         Lost /\ m.out = IndexFile(m.idx) /\ \A s \in Scopes : m.idx[s] = Entry(s)
    /\ m.pc \in Writing /\ m.goal = "index" =>
         /\ m.out.entries[m.scope] = m.rec
         /\ \A s \in Scopes \ {m.scope} : m.out.entries[s] = Entry(s)
    /\ m.task = "save" /\ (m.pc \in {"load", "scan"} \/ (m.pc \in Writing /\ m.goal # "record"))
         => disk[m.rec] = RecordFile(m.rec, m.version)
    /\ m.pc = "fetch" => m.rec = Entry(m.scope)

Turns == Single /\ \A p \in Procs : Turn(p)

\* Until it loads an index a process has none, nor an answer until it is done;
\* when it is done it has no task.
Fresh(p) ==
  LET m == me[p] IN
  /\ m.pc = "load" \/ (m.pc \in Writing /\ m.goal = "record") => m.idx = NoEntries
  /\ m.pc = "fetch" => m.task = "find"
  /\ IF m.pc = "idle" THEN m.scope = None /\ m.task = "none" ELSE got[p] = Nothing

IInv == /\ TypeOK /\ Tasks /\ Honesty /\ FindIsSound
        /\ Calmness /\ Turns /\ \A p \in Procs : Fresh(p)

-----------------------------------------------------------------------------
(* Locals *)

LEMMA Idling ==
  /\ Idle \in Locals /\ Idle.pc = "idle" /\ Idle.fd = "none" /\ Idle.idx = NoEntries
  /\ Idle.scope = None /\ Idle.task = "none"
BY DEF Idle, Locals, Contents, Entries, NoEntries

LEMMA EntriesOf == \A idx : IndexFile(idx).entries = idx
BY DEF IndexFile

LEMMA NothingIsHonest == NoEntries \in Entries /\ \A on : Honest(on, NoEntries)
BY DEF NoEntries, Entries, Honest

\* What Resume does to the locals it is given.
LEMMA Resumed ==
  ASSUME NEW m \in Locals, NEW idx \in Entries, m.scope \in Scopes,
         m.task = "save" => m.rec \in Records
  PROVE  /\ Resume(m, idx) \in Locals
         /\ Resume(m, idx).task = m.task /\ Resume(m, idx).scope = m.scope
         /\ Resume(m, idx).version = m.version /\ Resume(m, idx).fd = m.fd
         /\ Resume(m, idx).idx = NoEntries
         /\ m.task = "save" =>
              /\ Resume(m, idx).pc = "open" /\ Resume(m, idx).goal = "index"
              /\ Resume(m, idx).rec = m.rec
              /\ Resume(m, idx).out = IndexFile([idx EXCEPT ![m.scope] = m.rec])
         /\ m.task # "save" =>
              /\ Resume(m, idx).pc = "fetch" /\ Resume(m, idx).goal = "record"
              /\ Resume(m, idx).rec = idx[m.scope]
<1>1. NoEntries \in Entries /\ Absent \in Contents
  BY DEF NoEntries, Entries, Contents
<1>2. CASE m.task = "save"
  <2>1. [idx EXCEPT ![m.scope] = m.rec] \in Entries
    BY <1>2 DEF Entries
  <2>2. IndexFile([idx EXCEPT ![m.scope] = m.rec]) \in Contents
    BY <2>1 DEF IndexFile, IndexFiles, Contents
  <2> DEFINE o == IndexFile([idx EXCEPT ![m.scope] = m.rec])
  <2>3. Resume(m, idx) = [m EXCEPT !.pc = "open", !.goal = "index", !.idx = NoEntries, !.out = o]
    BY <1>2 DEF Resume
  <2> HIDE DEF o
  <2>4. o \in Contents
    BY <2>2 DEF o
  <2> QED
    BY ZenonT(40), <1>1, <1>2, <2>3, <2>4 DEF Locals, o
<1>3. CASE m.task # "save"
  <2>1. idx[m.scope] \in Records \cup {None}
    BY DEF Entries
  <2>2. Resume(m, idx) = [m EXCEPT !.pc = "fetch", !.goal = "record", !.idx = NoEntries,
                                   !.out = Absent, !.rec = idx[m.scope]]
    BY <1>3 DEF Resume
  <2> QED
    BY ZenonT(40), <1>1, <1>3, <2>1, <2>2 DEF Locals
<1> QED
  BY <1>2, <1>3

-----------------------------------------------------------------------------
(* What each action does to the locals of its process. *)

Others(p) ==
  me' = [q \in Procs |-> me'[q]] /\ \A q \in Procs \ {p} : me'[q] = me[q]

\* The fields that an action leaves alone.
Keeps(p) ==
  /\ me'[p].task = me[p].task /\ me'[p].goal = me[p].goal /\ me'[p].rec = me[p].rec
  /\ me'[p].version = me[p].version /\ me'[p].scope = me[p].scope
  /\ me'[p].out = me[p].out /\ me'[p].idx = me[p].idx

\* It has the index idx in hand now.
Resumes(p, idx) ==
  /\ me'[p].task = me[p].task /\ me'[p].scope = me[p].scope
  /\ me'[p].version = me[p].version /\ me'[p].idx = NoEntries
  /\ me[p].task = "save" =>
       /\ me'[p].pc = "open" /\ me'[p].goal = "index" /\ me'[p].rec = me[p].rec
       /\ me'[p].out = IndexFile([idx EXCEPT ![me[p].scope] = me[p].rec])
       /\ me'[p].out \in IndexFiles
  /\ me[p].task # "save" =>
       me'[p].pc = "fetch" /\ me'[p].goal = "record" /\ me'[p].rec = idx[me[p].scope]

Ends(p) == me'[p] = Idle

\* At the end of a write that stops short of its rename.
GivesUp(p) ==
  me'[p] \in Locals /\ (IF me[p].goal = "rebuild" THEN Resumes(p, me[p].idx) ELSE Ends(p))

LEMMA Typed ==
  ASSUME IInv, NEW p \in Procs
  PROVE  /\ me \in [Procs -> Locals] /\ me[p] \in Locals
         /\ me[p].idx \in Entries /\ me[p].out \in Contents /\ me[p].version \in Nat
         /\ me[p].rec \in Records \cup {None} /\ saves \in Nat
BY ConstantsAssumption DEF IInv, TypeOK, Locals

LEMMA Effect_Start ==
  ASSUME IInv, NEW p \in Procs, NEW m \in Locals, Start(p, m)
  PROVE  /\ me[p].pc = "idle" /\ Others(p) /\ me'[p] = m
         /\ ~overlapped' => \A q \in Procs : me[q].pc = "idle"
         /\ got' = [got EXCEPT ![p] = Nothing] /\ UNCHANGED <<disk, temp>>
BY Typed DEF Start, Others, IInv, TypeOK

LEMMA Effect_BeginSave ==
  ASSUME IInv, NEW p \in Procs, NEW r \in Records, BeginSave(p, r)
  PROVE  /\ me[p].pc = "idle" /\ Others(p) /\ p \in Savers[r]
         /\ saves < MaxSaves /\ saves' = saves + 1
         /\ me'[p] \in Locals
         /\ me'[p].pc = "open" /\ me'[p].task = "save" /\ me'[p].goal = "record"
         /\ me'[p].rec = r /\ me'[p].version = saves + 1 /\ me'[p].scope = ScopeOf[r]
         /\ me'[p].out = RecordFile(r, saves + 1) /\ me'[p].fd = "none"
         /\ me'[p].idx = NoEntries
         /\ ~overlapped' => \A q \in Procs : me[q].pc = "idle"
         /\ got' = [got EXCEPT ![p] = Nothing] /\ UNCHANGED <<disk, temp>>
<1> DEFINE m == [Idle EXCEPT !.pc = "open", !.task = "save", !.rec = r,
                             !.version = saves + 1, !.scope = ScopeOf[r],
                             !.out = RecordFile(r, saves + 1)]
<1>1. Start(p, m) /\ p \in Savers[r] /\ saves < MaxSaves /\ saves' = saves + 1
  BY DEF BeginSave
<1>2. /\ m \in Locals /\ m.pc = "open" /\ m.task = "save" /\ m.goal = "record" /\ m.rec = r
      /\ m.version = saves + 1 /\ m.scope = ScopeOf[r] /\ m.fd = "none"
      /\ m.out = RecordFile(r, saves + 1) /\ m.idx = NoEntries
  <2>1. saves + 1 \in Nat \ {0} /\ ScopeOf[r] \in Scopes /\ NoEntries \in Entries
    BY Typed, ConstantsAssumption DEF NoEntries, Entries
  <2>2. RecordFile(r, saves + 1) \in Contents
    BY <2>1 DEF RecordFile, Contents, RecordFiles
  <2> QED
    BY <2>1, <2>2 DEF Idle, Locals
<1> HIDE DEF m
<1> QED
  BY <1>1, <1>2, Effect_Start

LEMMA Effect_BeginFind ==
  ASSUME IInv, NEW p \in Procs, NEW s \in Scopes, BeginFind(p, s)
  PROVE  /\ me[p].pc = "idle" /\ Others(p)
         /\ me'[p] \in Locals
         /\ me'[p].pc = "load" /\ me'[p].task = "find" /\ me'[p].goal = "record"
         /\ me'[p].scope = s /\ me'[p].idx = NoEntries
         /\ ~overlapped' => \A q \in Procs : me[q].pc = "idle"
         /\ got' = [got EXCEPT ![p] = Nothing] /\ UNCHANGED <<disk, temp, saves>>
<1> DEFINE m == [Idle EXCEPT !.pc = "load", !.task = "find", !.scope = s]
<1>1. Start(p, m) /\ saves' = saves
  BY DEF BeginFind
<1>2. m \in Locals /\ m.pc = "load" /\ m.task = "find" /\ m.goal = "record" /\ m.scope = s
      /\ m.idx = NoEntries
  BY DEF Idle, Locals, NoEntries, Entries, Contents
<1> HIDE DEF m
<1> QED
  BY <1>1, <1>2, Effect_Start

LEMMA Effect_Open ==
  ASSUME IInv, NEW p \in Procs, Open(p)
  PROVE  /\ me[p].pc = "open" /\ Others(p) /\ Keeps(p) /\ me'[p] \in Locals
         /\ me'[p].pc = "write" /\ me'[p].fd = "temp"
         /\ temp' = [temp EXCEPT ![Target(p)] = Empty]
         /\ UNCHANGED <<disk, saves, got, overlapped>>
<1>1. /\ me[p].pc = "open" /\ temp' = [temp EXCEPT ![Target(p)] = Empty]
      /\ UNCHANGED <<disk, saves, got, overlapped>>
  BY DEF Open
<1>2. Others(p) /\ me'[p] = [me[p] EXCEPT !.pc = "write", !.fd = "temp"]
  BY Typed DEF Open, Others
<1>3. Keeps(p) /\ me'[p].pc = "write" /\ me'[p].fd = "temp"
  BY <1>2, Typed DEF Keeps, Locals
<1>4. me'[p] \in Locals
  BY <1>2, Typed DEF Locals
<1> QED
  BY <1>1, <1>2, <1>3, <1>4

LEMMA Effect_Write ==
  ASSUME IInv, NEW p \in Procs, Write(p)
  PROVE  /\ me[p].pc = "write" /\ Others(p) /\ Keeps(p) /\ me'[p] \in Locals
         /\ me'[p].pc = "rename" /\ UNCHANGED <<saves, got, overlapped>>
         /\ \/ /\ me[p].fd = "temp" /\ disk' = disk
               /\ \E c \in Written(temp[Target(p)], me[p].out) :
                    temp' = [temp EXCEPT ![Target(p)] = c]
            \/ /\ me[p].fd = "disk" /\ temp' = temp
               /\ \E c \in Written(disk[Target(p)], me[p].out) :
                    disk' = [disk EXCEPT ![Target(p)] = c]
            \/ me[p].fd = "gone" /\ temp' = temp /\ disk' = disk
<1>1. /\ me[p].pc = "write" /\ me' = [me EXCEPT ![p].pc = "rename", ![p].fd = "none"]
      /\ UNCHANGED <<saves, got, overlapped>>
  BY DEF Write
<1>2. Others(p) /\ me'[p] = [me[p] EXCEPT !.pc = "rename", !.fd = "none"]
  BY <1>1, Typed DEF Others
<1>3. Keeps(p) /\ me'[p].pc = "rename"
  BY <1>2, Typed DEF Keeps, Locals
<1>4. me'[p] \in Locals
  BY <1>2, Typed DEF Locals
<1> QED
  BY <1>1, <1>2, <1>3, <1>4 DEF Write

\* Resume as a step of p.
LEMMA ResumeSteps ==
  ASSUME IInv, NEW p \in Procs, me[p].pc # "idle", NEW idx \in Entries,
         NEW m, m = Resume(me[p], idx)
  PROVE  /\ m \in Locals /\ m.task = me[p].task /\ m.scope = me[p].scope
         /\ m.version = me[p].version /\ m.fd = me[p].fd /\ m.idx = NoEntries
         /\ me[p].task = "save" =>
              /\ m.pc = "open" /\ m.goal = "index" /\ m.rec = me[p].rec
              /\ m.out = IndexFile([idx EXCEPT ![me[p].scope] = me[p].rec])
              /\ m.out \in IndexFiles
         /\ me[p].task # "save" =>
              m.pc = "fetch" /\ m.goal = "record" /\ m.rec = idx[me[p].scope]
<1>1. me[p] \in Locals /\ me[p].scope \in Scopes /\ (me[p].task = "save" => me[p].rec \in Records)
  BY Typed DEF IInv, Tasks, Task
<1>2. me[p].task = "save" => [idx EXCEPT ![me[p].scope] = me[p].rec] \in Entries
  BY <1>1 DEF Entries
<1> QED
  BY <1>1, <1>2, Resumed DEF IndexFile, IndexFiles

LEMMA Effect_Give ==
  ASSUME IInv, NEW p \in Procs, me[p].pc # "idle", NEW m,
         m = Failed(me[p]) \/ m = [Failed(me[p]) EXCEPT !.fd = "none"],
         me' = [me EXCEPT ![p] = m]
  PROVE  Others(p) /\ GivesUp(p)
<1>1. Others(p) /\ me'[p] = m
  BY Typed DEF Others
<1>2. CASE me[p].goal = "rebuild"
  <2> DEFINE n == Resume(me[p], me[p].idx)
  <2>1. m = n \/ m = [n EXCEPT !.fd = "none"]
    BY <1>2 DEF Failed
  <2>2. /\ n \in Locals /\ n.task = me[p].task /\ n.scope = me[p].scope
        /\ n.version = me[p].version /\ n.idx = NoEntries
        /\ me[p].task = "save" =>
             /\ n.pc = "open" /\ n.goal = "index" /\ n.rec = me[p].rec
             /\ n.out = IndexFile([me[p].idx EXCEPT ![me[p].scope] = me[p].rec])
             /\ n.out \in IndexFiles
        /\ me[p].task # "save" =>
             n.pc = "fetch" /\ n.goal = "record" /\ n.rec = me[p].idx[me[p].scope]
    BY ResumeSteps, Typed
  <2> HIDE DEF n
  <2>3. /\ m \in Locals /\ m.task = n.task /\ m.scope = n.scope /\ m.version = n.version
        /\ m.pc = n.pc /\ m.goal = n.goal /\ m.rec = n.rec /\ m.out = n.out
        /\ m.idx = n.idx
    BY <2>1, <2>2 DEF Locals
  <2>4. Resumes(p, me[p].idx)
    BY <1>1, <2>2, <2>3 DEF Resumes
  <2> QED
    BY <1>1, <1>2, <2>3, <2>4 DEF GivesUp
<1>3. CASE me[p].goal # "rebuild"
  <2>1. m = Idle
    BY <1>3 DEF Failed, Idle
  <2> QED
    BY <1>1, <1>3, <2>1, Idling DEF GivesUp, Ends
<1> QED
  BY <1>2, <1>3

LEMMA Effect_RenameFails ==
  ASSUME IInv, NEW p \in Procs, RenameFails(p)
  PROVE  /\ me[p].pc = "rename" /\ temp[Target(p)] = Absent /\ Others(p) /\ GivesUp(p)
         /\ UNCHANGED <<disk, temp, saves, got, overlapped>>
BY Effect_Give DEF RenameFails

LEMMA Effect_WriteFails ==
  ASSUME IInv, NEW p \in Procs, WriteFails(p)
  PROVE  /\ me[p].pc \in {"open", "write"} /\ Others(p) /\ GivesUp(p)
         /\ UNCHANGED <<disk, temp, saves, got, overlapped>>
BY Effect_Give DEF WriteFails

LEMMA Effect_LoadIndex ==
  ASSUME IInv, NEW p \in Procs, LoadIndex(p)
  PROVE  /\ me[p].pc = "load" /\ Others(p) /\ me'[p] \in Locals
         /\ UNCHANGED <<disk, temp, saves, got, overlapped>>
         /\ \/ disk[Index] = Absent /\ Resumes(p, NoEntries)
            \/ disk[Index] \in IndexFiles /\ Resumes(p, disk[Index].entries)
            \/ /\ disk[Index] \notin IndexFiles \cup {Absent}
               /\ me'[p].pc = "scan" /\ Keeps(p)
               /\ me'[p].names = {r \in Records : disk[r] # Absent}
<1> DEFINE m == CASE disk[Index] = Absent        -> Resume(me[p], NoEntries)
                  [] disk[Index] \in IndexFiles  -> Resume(me[p], disk[Index].entries)
                  [] OTHER -> [me[p] EXCEPT !.pc = "scan",
                                            !.names = {r \in Records : disk[r] # Absent}]
<1>1. /\ me[p].pc = "load" /\ me' = [me EXCEPT ![p] = m]
      /\ UNCHANGED <<disk, temp, saves, got, overlapped>>
  BY DEF LoadIndex
<1> HIDE DEF m
<1>2. Others(p) /\ me'[p] = m
  BY <1>1, Typed DEF Others
<1>3. CASE disk[Index] = Absent
  <2>1. m = Resume(me[p], NoEntries)
    BY <1>3, FilesAssumption DEF m
  <2>2. NoEntries \in Entries
    BY DEF NoEntries, Entries
  <2> QED
    BY <1>1, <1>2, <1>3, <2>1, <2>2, ResumeSteps DEF Resumes
<1>4. CASE disk[Index] \in IndexFiles /\ disk[Index] # Absent
  <2>1. m = Resume(me[p], disk[Index].entries) /\ disk[Index].entries \in Entries
    BY <1>4 DEF m, IndexFiles
  <2> QED
    BY <1>1, <1>2, <1>4, <2>1, ResumeSteps DEF Resumes
<1>5. CASE disk[Index] \notin IndexFiles \cup {Absent}
  <2>1. m = [me[p] EXCEPT !.pc = "scan", !.names = {r \in Records : disk[r] # Absent}]
    BY <1>5 DEF m
  <2>2. m \in Locals /\ m.pc = "scan" /\ m.names = {r \in Records : disk[r] # Absent}
    BY ZenonT(40), <2>1, Typed DEF Locals
  <2>3. Keeps(p)
    BY <1>2, <2>1, Typed DEF Keeps, Locals
  <2> QED
    BY <1>1, <1>2, <1>5, <2>2, <2>3
<1> QED
  BY <1>3, <1>4, <1>5

LEMMA Effect_Scan ==
  ASSUME IInv, NEW p \in Procs, Scan(p)
  PROVE  /\ me[p].pc = "scan" /\ Others(p) /\ me'[p] \in Locals /\ me'[p].pc = "scan"
         /\ me'[p].task = me[p].task /\ me'[p].goal = me[p].goal /\ me'[p].rec = me[p].rec
         /\ me'[p].version = me[p].version /\ me'[p].scope = me[p].scope
         /\ me'[p].names \subseteq me[p].names
         /\ \E r \in me[p].names :
              /\ r \in Records /\ \A q \in me[p].names : r <= q
              /\ me'[p].names = me[p].names \ {r}
              /\ me'[p].idx = IF disk[r] \in RecordFiles
                              THEN [me[p].idx EXCEPT ![ScopeOf[r]] = r] ELSE me[p].idx
         /\ UNCHANGED <<disk, temp, saves, got, overlapped>>
<1>1. PICK r \in me[p].names :
        /\ \A q \in me[p].names : r <= q
        /\ me' = [me EXCEPT
             ![p].names = @ \ {r},
             ![p].idx = IF disk[r] \in RecordFiles
                        THEN [@ EXCEPT ![ScopeOf[r]] = r] ELSE @]
  BY DEF Scan
<1> DEFINE i == IF disk[r] \in RecordFiles
                THEN [me[p].idx EXCEPT ![ScopeOf[r]] = r] ELSE me[p].idx
<1>2. r \in Records /\ me[p].names \subseteq Records
  BY Typed DEF Locals
<1>3. i \in Entries
  BY <1>2, Typed, ConstantsAssumption DEF Entries
<1>4. me'[p] = [me[p] EXCEPT !.names = me[p].names \ {r}, !.idx = i] /\ Others(p)
  BY <1>1, Typed DEF Others, Locals
<1> HIDE DEF i
<1>5. /\ me'[p].pc = me[p].pc
      /\ me'[p].task = me[p].task /\ me'[p].goal = me[p].goal /\ me'[p].rec = me[p].rec
      /\ me'[p].version = me[p].version /\ me'[p].scope = me[p].scope
      /\ me'[p].names = me[p].names \ {r} /\ me'[p].idx = i
  BY <1>4, Typed DEF Locals
<1>6. me'[p] \in Locals
  <2> DEFINE n == me[p].names \ {r}
  <2>1. n \in SUBSET Records
    BY <1>2
  <2>2. me'[p] = [me[p] EXCEPT !.names = n, !.idx = i]
    BY <1>4
  <2> HIDE DEF n
  <2> QED
    BY <1>3, <2>1, <2>2, Typed DEF Locals
<1>7. me[p].pc = "scan" /\ UNCHANGED <<disk, temp, saves, got, overlapped>>
  BY DEF Scan
<1> QED
  BY <1>1, <1>2, <1>4, <1>5, <1>6, <1>7 DEF i

LEMMA Effect_Rebuild ==
  ASSUME IInv, NEW p \in Procs, Rebuild(p)
  PROVE  /\ me[p].pc = "scan" /\ Others(p) /\ me'[p] \in Locals
         /\ me'[p].pc = "open" /\ me'[p].goal = "rebuild" /\ me'[p].task = me[p].task
         /\ me'[p].rec = me[p].rec /\ me'[p].version = me[p].version
         /\ me'[p].scope = me[p].scope /\ me'[p].idx = me[p].idx
         /\ me'[p].out = IndexFile(me[p].idx) /\ me'[p].out \in IndexFiles
         /\ UNCHANGED <<disk, temp, saves, got, overlapped>>
<1>1. IndexFile(me[p].idx) \in Contents /\ IndexFile(me[p].idx) \in IndexFiles
  BY Typed DEF IndexFile, IndexFiles, Contents
<1> DEFINE o == IndexFile(me[p].idx)
<1>2. /\ me' = [me EXCEPT ![p].pc = "open", ![p].goal = "rebuild", ![p].out = o]
      /\ me[p].pc = "scan" /\ UNCHANGED <<disk, temp, saves, got, overlapped>>
  BY DEF Rebuild
<1>3. o \in Contents /\ o \in IndexFiles
  BY <1>1
<1> HIDE DEF o
<1>4. Others(p) /\ me'[p] = [me[p] EXCEPT !.pc = "open", !.goal = "rebuild", !.out = o]
  BY <1>2, Typed DEF Others
<1>5. /\ me'[p].pc = "open" /\ me'[p].goal = "rebuild" /\ me'[p].task = me[p].task
      /\ me'[p].rec = me[p].rec /\ me'[p].version = me[p].version
      /\ me'[p].scope = me[p].scope /\ me'[p].idx = me[p].idx /\ me'[p].out = o
  BY <1>4, Typed DEF Locals
<1>6. me'[p] \in Locals
  BY <1>3, <1>4, Typed DEF Locals
<1> QED
  BY <1>2, <1>3, <1>4, <1>5, <1>6 DEF o

LEMMA Effect_End ==
  ASSUME IInv, NEW p \in Procs, Fetch(p) \/ Crash(p)
  PROVE  /\ me[p].pc # "idle" /\ Others(p) /\ Ends(p) /\ me'[p] \in Locals
         /\ \A q \in Procs \ {p} : got'[q] = got[q]
         /\ UNCHANGED <<disk, temp, saves, overlapped>>
BY Typed, Idling DEF Fetch, Crash, Others, Ends, IInv, TypeOK

\* A rename takes the open writers of the file along.
LEMMA Effect_Rename ==
  ASSUME IInv, NEW p \in Procs, Rename(p)
  PROVE  /\ me[p].pc = "rename" /\ temp[Target(p)] # Absent
         /\ disk' = [disk EXCEPT ![Target(p)] = temp[Target(p)]]
         /\ temp' = [temp EXCEPT ![Target(p)] = Absent]
         /\ UNCHANGED <<saves, got, overlapped>>
         /\ me' \in [Procs -> Locals]
         /\ me[p].goal = "record" =>
              /\ me'[p].pc = "load" /\ me'[p].task = me[p].task /\ me'[p].goal = me[p].goal
              /\ me'[p].rec = me[p].rec /\ me'[p].version = me[p].version
              /\ me'[p].scope = me[p].scope /\ me'[p].idx = me[p].idx
         /\ me[p].goal = "rebuild" => Resumes(p, me[p].idx)
         /\ me[p].goal = "index" => Ends(p)
         /\ \A q \in Procs \ {p} :
              /\ Keeps(q) /\ me'[q].pc = me[q].pc /\ me'[q].names = me[q].names
              /\ Target(q) # Target(p) => me'[q].fd = me[q].fd
<1>1. /\ me[p].pc = "rename" /\ temp[Target(p)] # Absent
      /\ disk' = [disk EXCEPT ![Target(p)] = temp[Target(p)]]
      /\ temp' = [temp EXCEPT ![Target(p)] = Absent]
      /\ UNCHANGED <<saves, got, overlapped>>
      /\ me' = [q \in Procs |-> IF q = p THEN Renamed(me[p])
                                ELSE Follow(me[q], Target(q) = Target(p))]
  BY DEF Rename
<1>2. me'[p] = Renamed(me[p]) /\ \A q \in Procs \ {p} : me'[q] = Follow(me[q], Target(q) = Target(p))
  BY <1>1
<1>3. ASSUME NEW q \in Procs \ {p}
      PROVE  /\ me'[q] \in Locals /\ Keeps(q) /\ me'[q].pc = me[q].pc
             /\ me'[q].names = me[q].names
             /\ Target(q) # Target(p) => me'[q].fd = me[q].fd
  <2>1. CASE Target(q) # Target(p)
    BY <1>2, <2>1, Typed DEF Follow, Keeps
  <2>2. CASE Target(q) = Target(p)
    <3> DEFINE d == CASE me[q].fd = "temp" -> "disk" [] me[q].fd = "disk" -> "gone"
                      [] OTHER -> me[q].fd
    <3>1. me'[q] = [me[q] EXCEPT !.fd = d]
      BY <1>2, <2>2 DEF Follow
    <3>2. d \in {"none", "temp", "disk", "gone"}
      BY Typed DEF Locals
    <3> HIDE DEF d
    <3> QED
      BY <2>2, <3>1, <3>2, Typed DEF Keeps, Locals
  <2> QED
    BY <2>1, <2>2
<1>4. CASE me[p].goal = "record"
  <2>1. me'[p] = [me[p] EXCEPT !.pc = "load", !.out = Absent]
    BY <1>2, <1>4 DEF Renamed
  <2>2. /\ me'[p] \in Locals
        /\ me'[p].pc = "load" /\ me'[p].task = me[p].task /\ me'[p].goal = me[p].goal
        /\ me'[p].rec = me[p].rec /\ me'[p].version = me[p].version
        /\ me'[p].scope = me[p].scope /\ me'[p].idx = me[p].idx
    BY ZenonT(40), <2>1, Typed DEF Locals, Contents
  <2>3. me' \in [Procs -> Locals]
    BY <1>1, <1>3, <2>2
  <2> QED
    BY <1>1, <1>3, <1>4, <2>2, <2>3
<1>5. CASE me[p].goal = "rebuild"
  <2>1. me'[p] = Resume(me[p], me[p].idx)
    BY <1>2, <1>5 DEF Renamed
  <2>2. me'[p] \in Locals /\ Resumes(p, me[p].idx)
    BY <1>1, <2>1, Typed, ResumeSteps DEF Resumes
  <2>3. me' \in [Procs -> Locals]
    BY <1>1, <1>3, <2>2
  <2> QED
    BY <1>1, <1>3, <1>5, <2>2, <2>3
<1>6. CASE me[p].goal = "index"
  <2>1. me'[p] = Idle
    BY <1>2, <1>6 DEF Renamed
  <2>2. me' \in [Procs -> Locals]
    BY <1>1, <1>3, <2>1, Idling
  <2> QED
    BY <1>1, <1>3, <1>6, <2>1, <2>2 DEF Ends
<1> QED
  BY <1>4, <1>5, <1>6, Typed DEF Locals

-----------------------------------------------------------------------------
\* At first there are no files and nobody is at work.
LEMMA IInvInit == Init => IInv
<1> SUFFICES ASSUME Init PROVE IInv
  OBVIOUS
<1>1. me \in [Procs -> Locals] /\ \A p \in Procs : me[p].pc = "idle"
  BY Idling DEF Init
<1>2. TypeOK
  <2>1. disk \in [Files -> Contents] /\ temp \in [Files -> Contents]
    BY DEF Init, Contents
  <2>2. got \in [Procs -> Answers]
    BY DEF Init, Answers, Nothing
  <2>4. saves \in 0..MaxSaves
    BY ConstantsAssumption DEF Init
  <2>5. overlapped \in BOOLEAN
    BY DEF Init
  <2> QED
    BY <1>1, <2>1, <2>2, <2>4, <2>5 DEF TypeOK
<1>3. Tasks /\ Turns /\ FindIsSound /\ \A p \in Procs : Fresh(p)
  BY <1>1
     DEF Tasks, Task, Turns, Single, Turn, Fresh, FindIsSound, Init, Writing, Nothing, Idle
<1>4. Absent \notin IndexFiles /\ \A f \in Files : disk[f] = Absent /\ temp[f] = Absent
  BY FilesAssumption DEF Init
<1>5. Index \in Files
  BY DEF Files
<1>6. Honesty
  BY <1>1, <1>4, <1>5, Idling, NothingIsHonest DEF Honesty, IndexStands, Stand, Writing, Init
<1>7. Calmness
  BY <1>1, <1>4 DEF Calmness, CalmFile, CalmWriter, Writes, Writing
<1> QED
  BY <1>2, <1>3, <1>6, <1>7 DEF IInv

\* Processes keep to their tasks.
LEMMA TaskStep ==
  ASSUME IInv, [Next]_vars, NEW q \in Procs
  PROVE  Task(q)'
<1>1. ASSUME NEW p \in Procs, NEW r \in Records, BeginSave(p, r)
      PROVE Task(q)'
  <2>1. CASE q = p
    <3>1. saves + 1 \in 1..saves'
      BY <1>1, Typed, Effect_BeginSave
    <3> QED
      BY <1>1, <2>1, <3>1, ConstantsAssumption, Effect_BeginSave DEF Task, Writing
  <2>2. CASE q # p
    BY <1>1, <2>2, Typed, Effect_BeginSave DEF Others, IInv, Tasks, Task, Writing
  <2> QED
    BY <2>1, <2>2
<1>2. ASSUME NEW p \in Procs, NEW s \in Scopes, BeginFind(p, s)
      PROVE Task(q)'
  <2>1. CASE q = p
    BY <1>2, <2>1, Typed, Effect_BeginFind
       DEF IInv, Tasks, Task, Writing, Keeps, Resumes, GivesUp, Ends, Idle
  <2>2. CASE q # p
    BY <1>2, <2>2, Typed, Effect_BeginFind DEF Others, IInv, Tasks, Task, Writing
  <2> QED
    BY <2>1, <2>2
<1>3. ASSUME NEW p \in Procs, Open(p)
      PROVE Task(q)'
  <2>1. CASE q = p
    BY <1>3, <2>1, Typed, Effect_Open
       DEF IInv, Tasks, Task, Writing, Keeps, Resumes, GivesUp, Ends, Idle
  <2>2. CASE q # p
    BY <1>3, <2>2, Typed, Effect_Open DEF Others, IInv, Tasks, Task, Writing
  <2> QED
    BY <2>1, <2>2
<1>4. ASSUME NEW p \in Procs, Write(p)
      PROVE Task(q)'
  <2>1. CASE q = p
    BY <1>4, <2>1, Typed, Effect_Write
       DEF IInv, Tasks, Task, Writing, Keeps, Resumes, GivesUp, Ends, Idle
  <2>2. CASE q # p
    BY <1>4, <2>2, Typed, Effect_Write DEF Others, IInv, Tasks, Task, Writing
  <2> QED
    BY <2>1, <2>2
<1>5. ASSUME NEW p \in Procs, Rename(p)
      PROVE Task(q)'
  <2>1. CASE q = p
    <3>0. Task(p) /\ me[p].pc # "idle" /\ saves' = saves
      BY <1>5, Effect_Rename DEF IInv, Tasks
    <3>1. CASE me[p].goal = "rebuild"
      <4>1. Resumes(p, me[p].idx)
        BY <1>5, <3>1, Effect_Rename
      <4> QED
        BY <2>1, <3>0, <4>1 DEF Resumes, Task, Writing
    <3>2. CASE me[p].goal = "index"
      <4>1. me'[p] = Idle
        BY <1>5, <3>2, Effect_Rename DEF Ends
      <4> QED
        BY <2>1, <4>1 DEF Idle, Task, Writing
    <3>3. CASE me[p].goal = "record"
      BY <1>5, <2>1, <3>0, <3>3, Effect_Rename DEF Task, Writing
    <3> QED
      BY <3>1, <3>2, <3>3, Typed DEF Locals
  <2>2. CASE q # p
    BY <1>5, <2>2, Typed, Effect_Rename DEF Keeps, IInv, Tasks, Task, Writing
  <2> QED
    BY <2>1, <2>2
<1>6. ASSUME NEW p \in Procs, RenameFails(p)
      PROVE Task(q)'
  <2>1. CASE q = p
    <3>0. Task(p) /\ me[p].pc # "idle"
      BY <1>6, Effect_RenameFails DEF IInv, Tasks
    <3>1. CASE me[p].goal = "rebuild"
      <4>1. Resumes(p, me[p].idx) /\ saves' = saves
        BY <1>6, <3>1, Effect_RenameFails DEF GivesUp
      <4> QED
        BY <2>1, <3>0, <4>1 DEF Resumes, Task, Writing
    <3>2. CASE me[p].goal # "rebuild"
      <4>1. me'[p] = Idle
        BY <1>6, <3>2, Effect_RenameFails DEF GivesUp, Ends
      <4> QED
        BY <2>1, <4>1 DEF Idle, Task, Writing
    <3> QED
      BY <3>1, <3>2
  <2>2. CASE q # p
    BY <1>6, <2>2, Typed, Effect_RenameFails DEF Others, IInv, Tasks, Task, Writing
  <2> QED
    BY <2>1, <2>2
<1>7. ASSUME NEW p \in Procs, WriteFails(p)
      PROVE Task(q)'
  <2>1. CASE q = p
    <3>0. Task(p) /\ me[p].pc # "idle"
      BY <1>7, Effect_WriteFails DEF IInv, Tasks
    <3>1. CASE me[p].goal = "rebuild"
      <4>1. Resumes(p, me[p].idx) /\ saves' = saves
        BY <1>7, <3>1, Effect_WriteFails DEF GivesUp
      <4> QED
        BY <2>1, <3>0, <4>1 DEF Resumes, Task, Writing
    <3>2. CASE me[p].goal # "rebuild"
      <4>1. me'[p] = Idle
        BY <1>7, <3>2, Effect_WriteFails DEF GivesUp, Ends
      <4> QED
        BY <2>1, <4>1 DEF Idle, Task, Writing
    <3> QED
      BY <3>1, <3>2
  <2>2. CASE q # p
    BY <1>7, <2>2, Typed, Effect_WriteFails DEF Others, IInv, Tasks, Task, Writing
  <2> QED
    BY <2>1, <2>2
<1>8. ASSUME NEW p \in Procs, LoadIndex(p)
      PROVE Task(q)'
  <2>1. CASE q = p
    <3>1. /\ Task(p) /\ me[p].pc = "load" /\ saves' = saves
          /\ \/ \E idx : Resumes(p, idx)
             \/ me'[p].pc = "scan" /\ Keeps(p)
      BY <1>8, Effect_LoadIndex DEF IInv, Tasks
    <3>2. CASE \E idx : Resumes(p, idx)
      BY <2>1, <3>1, <3>2 DEF Resumes, Task, Writing
    <3>3. CASE me'[p].pc = "scan" /\ Keeps(p)
      BY <2>1, <3>1, <3>3 DEF Keeps, Task, Writing
    <3> QED
      BY <3>1, <3>2, <3>3
  <2>2. CASE q # p
    BY <1>8, <2>2, Typed, Effect_LoadIndex DEF Others, IInv, Tasks, Task, Writing
  <2> QED
    BY <2>1, <2>2
<1>9. ASSUME NEW p \in Procs, Scan(p)
      PROVE Task(q)'
  <2>1. CASE q = p
    BY <1>9, <2>1, Typed, Effect_Scan
       DEF IInv, Tasks, Task, Writing, Keeps, Resumes, GivesUp, Ends, Idle
  <2>2. CASE q # p
    BY <1>9, <2>2, Typed, Effect_Scan DEF Others, IInv, Tasks, Task, Writing
  <2> QED
    BY <2>1, <2>2
<1>10. ASSUME NEW p \in Procs, Rebuild(p)
       PROVE Task(q)'
  <2>1. CASE q = p
    BY <1>10, <2>1, Typed, Effect_Rebuild
       DEF IInv, Tasks, Task, Writing, Keeps, Resumes, GivesUp, Ends, Idle
  <2>2. CASE q # p
    BY <1>10, <2>2, Typed, Effect_Rebuild DEF Others, IInv, Tasks, Task, Writing
  <2> QED
    BY <2>1, <2>2
<1>11. ASSUME NEW p \in Procs, Fetch(p)
       PROVE Task(q)'
  <2>1. CASE q = p
    BY <1>11, <2>1, Typed, Effect_End
       DEF IInv, Tasks, Task, Writing, Keeps, Resumes, GivesUp, Ends, Idle
  <2>2. CASE q # p
    BY <1>11, <2>2, Typed, Effect_End DEF Others, IInv, Tasks, Task, Writing
  <2> QED
    BY <2>1, <2>2
<1>12. ASSUME NEW p \in Procs, Crash(p)
       PROVE Task(q)'
  <2>1. CASE q = p
    BY <1>12, <2>1, Typed, Effect_End
       DEF IInv, Tasks, Task, Writing, Keeps, Resumes, GivesUp, Ends, Idle
  <2>2. CASE q # p
    BY <1>12, <2>2, Typed, Effect_End DEF Others, IInv, Tasks, Task, Writing
  <2> QED
    BY <2>1, <2>2
<1>13. CASE UNCHANGED vars
  BY <1>13 DEF vars, IInv, Tasks, Task
<1> QED
  BY <1>1, <1>2, <1>3, <1>4, <1>5, <1>6, <1>7, <1>8, <1>9, <1>10, <1>11, <1>12, <1>13 DEF Next

\* Files keep their types.
LEMMA FileTypeStep ==
  ASSUME IInv, [Next]_vars
  PROVE  disk' \in [Files -> Contents] /\ temp' \in [Files -> Contents]
<1>1. ASSUME NEW p \in Procs, NEW r \in Records, BeginSave(p, r)
      PROVE disk' \in [Files -> Contents] /\ temp' \in [Files -> Contents]
  BY <1>1, Effect_BeginSave DEF IInv, TypeOK
<1>2. ASSUME NEW p \in Procs, NEW s \in Scopes, BeginFind(p, s)
      PROVE disk' \in [Files -> Contents] /\ temp' \in [Files -> Contents]
  BY <1>2, Effect_BeginFind DEF IInv, TypeOK
<1>3. ASSUME NEW p \in Procs, Open(p)
      PROVE disk' \in [Files -> Contents] /\ temp' \in [Files -> Contents]
  <2>1. Empty \in Contents
    BY DEF Contents, Unreadable
  <2> QED
    BY <1>3, <2>1, Effect_Open DEF IInv, TypeOK
<1>4. ASSUME NEW p \in Procs, Write(p)
      PROVE disk' \in [Files -> Contents] /\ temp' \in [Files -> Contents]
  <2>1. \A c \in Written(temp[Target(p)], me[p].out) : c \in Contents
    BY Typed DEF Written, Contents, Unreadable
  <2>2. \A c \in Written(disk[Target(p)], me[p].out) : c \in Contents
    BY Typed DEF Written, Contents, Unreadable
  <2> QED
    BY <1>4, <2>1, <2>2, Effect_Write DEF IInv, TypeOK
<1>5. ASSUME NEW p \in Procs, Rename(p)
      PROVE disk' \in [Files -> Contents] /\ temp' \in [Files -> Contents]
  <2>1. Absent \in Contents
    BY DEF Contents
  <2>2. Target(p) \in Files
    <3>1. me[p].goal = "record" => me[p].rec \in Records
      BY <1>5, Effect_Rename DEF IInv, Tasks, Task, Writing
    <3> QED
      BY <3>1 DEF Target, Files
  <2> QED
    BY <1>5, <2>1, <2>2, Effect_Rename DEF IInv, TypeOK
<1>6. ASSUME NEW p \in Procs, RenameFails(p)
      PROVE disk' \in [Files -> Contents] /\ temp' \in [Files -> Contents]
  BY <1>6, Effect_RenameFails DEF IInv, TypeOK
<1>7. ASSUME NEW p \in Procs, WriteFails(p)
      PROVE disk' \in [Files -> Contents] /\ temp' \in [Files -> Contents]
  BY <1>7, Effect_WriteFails DEF IInv, TypeOK
<1>8. ASSUME NEW p \in Procs, LoadIndex(p)
      PROVE disk' \in [Files -> Contents] /\ temp' \in [Files -> Contents]
  BY <1>8, Effect_LoadIndex DEF IInv, TypeOK
<1>9. ASSUME NEW p \in Procs, Scan(p)
      PROVE disk' \in [Files -> Contents] /\ temp' \in [Files -> Contents]
  BY <1>9, Effect_Scan DEF IInv, TypeOK
<1>10. ASSUME NEW p \in Procs, Rebuild(p)
       PROVE disk' \in [Files -> Contents] /\ temp' \in [Files -> Contents]
  BY <1>10, Effect_Rebuild DEF IInv, TypeOK
<1>11. ASSUME NEW p \in Procs, Fetch(p)
       PROVE disk' \in [Files -> Contents] /\ temp' \in [Files -> Contents]
  BY <1>11, Effect_End DEF IInv, TypeOK
<1>12. ASSUME NEW p \in Procs, Crash(p)
       PROVE disk' \in [Files -> Contents] /\ temp' \in [Files -> Contents]
  BY <1>12, Effect_End DEF IInv, TypeOK
<1>13. CASE UNCHANGED vars
  BY <1>13 DEF vars, IInv, TypeOK
<1> QED
  BY <1>1, <1>2, <1>3, <1>4, <1>5, <1>6, <1>7, <1>8, <1>9, <1>10, <1>11, <1>12, <1>13 DEF Next

\* Locals keep their types.
LEMMA LocalTypeStep ==
  ASSUME IInv, [Next]_vars
  PROVE  me' \in [Procs -> Locals]
<1>1. ASSUME NEW p \in Procs, NEW r \in Records, BeginSave(p, r)
      PROVE me' \in [Procs -> Locals]
  BY <1>1, Typed, Effect_BeginSave DEF Others
<1>2. ASSUME NEW p \in Procs, NEW s \in Scopes, BeginFind(p, s)
      PROVE me' \in [Procs -> Locals]
  BY <1>2, Typed, Effect_BeginFind DEF Others
<1>3. ASSUME NEW p \in Procs, Open(p)
      PROVE me' \in [Procs -> Locals]
  BY <1>3, Typed, Effect_Open DEF Others
<1>4. ASSUME NEW p \in Procs, Write(p)
      PROVE me' \in [Procs -> Locals]
  BY <1>4, Typed, Effect_Write DEF Others
<1>5. ASSUME NEW p \in Procs, Rename(p)
      PROVE me' \in [Procs -> Locals]
  BY <1>5, Effect_Rename
<1>6. ASSUME NEW p \in Procs, RenameFails(p)
      PROVE me' \in [Procs -> Locals]
  BY <1>6, Typed, Effect_RenameFails DEF Others, GivesUp
<1>7. ASSUME NEW p \in Procs, WriteFails(p)
      PROVE me' \in [Procs -> Locals]
  BY <1>7, Typed, Effect_WriteFails DEF Others, GivesUp
<1>8. ASSUME NEW p \in Procs, LoadIndex(p)
      PROVE me' \in [Procs -> Locals]
  BY <1>8, Typed, Effect_LoadIndex DEF Others
<1>9. ASSUME NEW p \in Procs, Scan(p)
      PROVE me' \in [Procs -> Locals]
  BY <1>9, Typed, Effect_Scan DEF Others
<1>10. ASSUME NEW p \in Procs, Rebuild(p)
       PROVE me' \in [Procs -> Locals]
  BY <1>10, Typed, Effect_Rebuild DEF Others
<1>11. ASSUME NEW p \in Procs, Fetch(p)
       PROVE me' \in [Procs -> Locals]
  BY <1>11, Typed, Effect_End DEF Others
<1>12. ASSUME NEW p \in Procs, Crash(p)
       PROVE me' \in [Procs -> Locals]
  BY <1>12, Typed, Effect_End DEF Others
<1>13. CASE UNCHANGED vars
  BY <1>13 DEF vars, IInv, TypeOK
<1> QED
  BY <1>1, <1>2, <1>3, <1>4, <1>5, <1>6, <1>7, <1>8, <1>9, <1>10, <1>11, <1>12, <1>13 DEF Next

\* So do the rest.
LEMMA RestTypeStep ==
  ASSUME IInv, [Next]_vars
  PROVE  /\ saves' \in 0..MaxSaves /\ got' \in [Procs -> Answers]
<1>1. ASSUME NEW p \in Procs, NEW r \in Records, BeginSave(p, r)
      PROVE /\ saves' \in 0..MaxSaves /\ got' \in [Procs -> Answers]
  <2>1. got' \in [Procs -> Answers]
    BY <1>1, Effect_BeginSave DEF IInv, TypeOK, Answers, Nothing
  <2>2. saves' \in 0..MaxSaves
    BY <1>1, Effect_BeginSave, ConstantsAssumption DEF IInv, TypeOK
  <2> QED
    BY <1>1, <2>1, <2>2, Effect_BeginSave DEF IInv, TypeOK
<1>2. ASSUME NEW p \in Procs, NEW s \in Scopes, BeginFind(p, s)
      PROVE /\ saves' \in 0..MaxSaves /\ got' \in [Procs -> Answers]
  <2>1. got' \in [Procs -> Answers]
    BY <1>2, Effect_BeginFind DEF IInv, TypeOK, Answers, Nothing
  <2>2. saves' \in 0..MaxSaves
    BY <1>2, Effect_BeginFind, ConstantsAssumption DEF IInv, TypeOK
  <2> QED
    BY <1>2, <2>1, <2>2, Effect_BeginFind DEF IInv, TypeOK
<1>3. ASSUME NEW p \in Procs, Open(p)
      PROVE /\ saves' \in 0..MaxSaves /\ got' \in [Procs -> Answers]
  BY <1>3, Effect_Open DEF IInv, TypeOK
<1>4. ASSUME NEW p \in Procs, Write(p)
      PROVE /\ saves' \in 0..MaxSaves /\ got' \in [Procs -> Answers]
  BY <1>4, Effect_Write DEF IInv, TypeOK
<1>5. ASSUME NEW p \in Procs, Rename(p)
      PROVE /\ saves' \in 0..MaxSaves /\ got' \in [Procs -> Answers]
  BY <1>5, Effect_Rename DEF IInv, TypeOK
<1>6. ASSUME NEW p \in Procs, RenameFails(p)
      PROVE /\ saves' \in 0..MaxSaves /\ got' \in [Procs -> Answers]
  BY <1>6, Effect_RenameFails DEF IInv, TypeOK
<1>7. ASSUME NEW p \in Procs, WriteFails(p)
      PROVE /\ saves' \in 0..MaxSaves /\ got' \in [Procs -> Answers]
  BY <1>7, Effect_WriteFails DEF IInv, TypeOK
<1>8. ASSUME NEW p \in Procs, LoadIndex(p)
      PROVE /\ saves' \in 0..MaxSaves /\ got' \in [Procs -> Answers]
  BY <1>8, Effect_LoadIndex DEF IInv, TypeOK
<1>9. ASSUME NEW p \in Procs, Scan(p)
      PROVE /\ saves' \in 0..MaxSaves /\ got' \in [Procs -> Answers]
  BY <1>9, Effect_Scan DEF IInv, TypeOK
<1>10. ASSUME NEW p \in Procs, Rebuild(p)
       PROVE /\ saves' \in 0..MaxSaves /\ got' \in [Procs -> Answers]
  BY <1>10, Effect_Rebuild DEF IInv, TypeOK
<1>11. ASSUME NEW p \in Procs, Fetch(p)
       PROVE /\ saves' \in 0..MaxSaves /\ got' \in [Procs -> Answers]
  <2>1. saves' = saves
    BY <1>11, Effect_End
  <2>2. me[p].rec # None =>
          [rec |-> me[p].rec, scope |-> me[p].scope, file |-> disk[me[p].rec]] \in Answers
    BY <1>11, Typed DEF IInv, TypeOK, Answers, Locals, Files
  <2>3. got' \in [Procs -> Answers]
    BY <1>11, <2>2 DEF Fetch, IInv, TypeOK
  <2> QED
    BY <2>1, <2>3 DEF IInv, TypeOK
<1>12. ASSUME NEW p \in Procs, Crash(p)
       PROVE /\ saves' \in 0..MaxSaves /\ got' \in [Procs -> Answers]
  BY <1>12 DEF Crash, IInv, TypeOK
<1>13. CASE UNCHANGED vars
  BY <1>13 DEF vars, IInv, TypeOK
<1> QED
  BY <1>1, <1>2, <1>3, <1>4, <1>5, <1>6, <1>7, <1>8, <1>9, <1>10, <1>11, <1>12, <1>13 DEF Next

\* And the flag.
LEMMA FlagTypeStep ==
  ASSUME IInv, [Next]_vars
  PROVE  overlapped' \in BOOLEAN
<1>1. ASSUME NEW p \in Procs, NEW r \in Records, BeginSave(p, r)
      PROVE overlapped' \in BOOLEAN
  BY <1>1 DEF BeginSave, BeginFind, Start
<1>2. ASSUME NEW p \in Procs, NEW s \in Scopes, BeginFind(p, s)
      PROVE overlapped' \in BOOLEAN
  BY <1>2 DEF BeginSave, BeginFind, Start
<1>3. ASSUME NEW p \in Procs, Open(p)
      PROVE overlapped' \in BOOLEAN
  BY <1>3, Effect_Open DEF IInv, TypeOK
<1>4. ASSUME NEW p \in Procs, Write(p)
      PROVE overlapped' \in BOOLEAN
  BY <1>4, Effect_Write DEF IInv, TypeOK
<1>5. ASSUME NEW p \in Procs, Rename(p)
      PROVE overlapped' \in BOOLEAN
  BY <1>5, Effect_Rename DEF IInv, TypeOK
<1>6. ASSUME NEW p \in Procs, RenameFails(p)
      PROVE overlapped' \in BOOLEAN
  BY <1>6, Effect_RenameFails DEF IInv, TypeOK
<1>7. ASSUME NEW p \in Procs, WriteFails(p)
      PROVE overlapped' \in BOOLEAN
  BY <1>7, Effect_WriteFails DEF IInv, TypeOK
<1>8. ASSUME NEW p \in Procs, LoadIndex(p)
      PROVE overlapped' \in BOOLEAN
  BY <1>8, Effect_LoadIndex DEF IInv, TypeOK
<1>9. ASSUME NEW p \in Procs, Scan(p)
      PROVE overlapped' \in BOOLEAN
  BY <1>9, Effect_Scan DEF IInv, TypeOK
<1>10. ASSUME NEW p \in Procs, Rebuild(p)
       PROVE overlapped' \in BOOLEAN
  BY <1>10, Effect_Rebuild DEF IInv, TypeOK
<1>11. ASSUME NEW p \in Procs, Fetch(p)
       PROVE overlapped' \in BOOLEAN
  BY <1>11, Effect_End DEF IInv, TypeOK
<1>12. ASSUME NEW p \in Procs, Crash(p)
       PROVE overlapped' \in BOOLEAN
  BY <1>12, Effect_End DEF IInv, TypeOK
<1>13. CASE UNCHANGED vars
  BY <1>13 DEF vars, IInv, TypeOK
<1> QED
  BY <1>1, <1>2, <1>3, <1>4, <1>5, <1>6, <1>7, <1>8, <1>9, <1>10, <1>11, <1>12, <1>13 DEF Next

\* What is being written can be read once it is.
LEMMA OutIsWhole ==
  ASSUME IInv, NEW p \in Procs, me[p].pc \in Writing
  PROVE  /\ me[p].out # Absent /\ me[p].out \notin Unreadable
         /\ IF me[p].goal = "record"
            THEN me[p].rec \in Records /\ Target(p) = me[p].rec /\ Target(p) # Index
                   /\ me[p].out \in RecordFiles
            ELSE Target(p) = Index /\ me[p].out \in IndexFiles
         /\ Target(p) \in Files
<1>1. Task(p) /\ me[p].pc # "idle"
  BY DEF IInv, Tasks, Writing
<1>2. CASE me[p].goal = "record"
  <2>1. me[p].rec \in Records /\ me[p].version \in Nat \ {0}
    BY <1>1, <1>2, Typed DEF Task
  <2>2. me[p].out \in RecordFiles
    BY <1>1, <1>2, <2>1 DEF Task, RecordFile, RecordFiles
  <2> QED
    BY <1>2, <2>1, <2>2, FilesAssumption, ConstantsAssumption DEF Target, Files
<1>3. CASE me[p].goal # "record"
  <2>1. me[p].out \in IndexFiles
    BY <1>1, <1>3 DEF Task
  <2> QED
    BY <1>3, <2>1, FilesAssumption DEF Target, Files
<1> QED
  BY <1>2, <1>3

\* No file is ever removed.
LEMMA Present ==
  ASSUME IInv, [Next]_vars, NEW f \in Files, disk[f] # Absent
  PROVE  disk'[f] # Absent
<1>1. ASSUME NEW p \in Procs, NEW r \in Records, BeginSave(p, r)
      PROVE disk'[f] # Absent
  BY <1>1, Effect_BeginSave
<1>2. ASSUME NEW p \in Procs, NEW s \in Scopes, BeginFind(p, s)
      PROVE disk'[f] # Absent
  BY <1>2, Effect_BeginFind
<1>3. ASSUME NEW p \in Procs, Open(p)
      PROVE disk'[f] # Absent
  BY <1>3, Effect_Open
<1>4. ASSUME NEW p \in Procs, Write(p)
      PROVE disk'[f] # Absent
  <2>1. \A c \in Written(disk[Target(p)], me[p].out) : c # Absent
    BY <1>4, Effect_Write, OutIsWhole, FilesAssumption DEF Written, Unreadable, Writing
  <2> QED
    BY <1>4, <2>1, Effect_Write DEF IInv, TypeOK
<1>5. ASSUME NEW p \in Procs, Rename(p)
      PROVE disk'[f] # Absent
  BY <1>5, Effect_Rename DEF IInv, TypeOK
<1>6. ASSUME NEW p \in Procs, RenameFails(p)
      PROVE disk'[f] # Absent
  BY <1>6, Effect_RenameFails
<1>7. ASSUME NEW p \in Procs, WriteFails(p)
      PROVE disk'[f] # Absent
  BY <1>7, Effect_WriteFails
<1>8. ASSUME NEW p \in Procs, LoadIndex(p)
      PROVE disk'[f] # Absent
  BY <1>8, Effect_LoadIndex
<1>9. ASSUME NEW p \in Procs, Scan(p)
      PROVE disk'[f] # Absent
  BY <1>9, Effect_Scan
<1>10. ASSUME NEW p \in Procs, Rebuild(p)
       PROVE disk'[f] # Absent
  BY <1>10, Effect_Rebuild
<1>11. ASSUME NEW p \in Procs, Fetch(p)
       PROVE disk'[f] # Absent
  BY <1>11, Effect_End
<1>12. ASSUME NEW p \in Procs, Crash(p)
       PROVE disk'[f] # Absent
  BY <1>12, Effect_End
<1>13. CASE UNCHANGED vars
  BY <1>13 DEF vars, IInv
<1> QED
  BY <1>1, <1>2, <1>3, <1>4, <1>5, <1>6, <1>7, <1>8, <1>9, <1>10, <1>11, <1>12, <1>13 DEF Next

\* Honest entries stay honest.
LEMMA HonestStays ==
  ASSUME IInv, [Next]_vars, NEW idx \in Entries, Honest(disk, idx)
  PROVE  Honest(disk', idx)
BY Present DEF Honest, Entries, Files

\* With an honest index in hand, p goes on with what is there.
LEMMA ResumeStands ==
  ASSUME IInv, [Next]_vars, NEW p \in Procs, me[p].pc # "idle", NEW idx \in Entries,
         Honest(disk, idx), Resumes(p, idx), me[p].task = "save" => disk[me[p].rec] # Absent
  PROVE  Stand(p)'
<1>1. Task(p)
  BY DEF IInv, Tasks
<1>2. CASE me[p].task = "save"
  <2>1. me[p].rec \in Records /\ me[p].scope = ScopeOf[me[p].rec] /\ me[p].scope \in Scopes
    BY <1>1, <1>2 DEF Task
  <2>2. disk'[me[p].rec] # Absent
    BY <1>2, <2>1, Present DEF Files
  <2> DEFINE e == [idx EXCEPT ![me[p].scope] = me[p].rec]
  <2>3. e \in Entries
    BY <2>1 DEF Entries
  <2>4. \A s \in Scopes : e[s] = IF s = me[p].scope THEN me[p].rec ELSE idx[s]
    BY <2>1 DEF Entries
  <2>5. Honest(disk', idx)
    BY HonestStays
  <2>6. me'[p].out.entries = e
    BY <1>2, EntriesOf DEF Resumes
  <2>7. /\ me'[p].pc = "open" /\ me'[p].goal = "index" /\ me'[p].rec = me[p].rec
        /\ me'[p].task = "save"
    BY <1>2 DEF Resumes
  <2> HIDE DEF e
  <2>8. Honest(disk', e)
    BY <2>1, <2>2, <2>4, <2>5 DEF Honest
  <2> QED
    BY <2>2, <2>6, <2>7, <2>8, NothingIsHonest DEF Stand, Writing, Resumes
<1>3. CASE me[p].task # "save"
  <2>1. me'[p].pc = "fetch" /\ me'[p].rec = idx[me[p].scope] /\ me'[p].scope = me[p].scope
    BY <1>3 DEF Resumes
  <2>2. me[p].scope \in Scopes
    BY <1>1 DEF Task
  <2>3. Honest(disk', idx)
    BY HonestStays
  <2> QED
    BY <2>1, <2>2, <2>3, NothingIsHonest DEF Stand, Writing, Honest, Resumes
<1> QED
  BY <1>2, <1>3

\* The index stays honest.
LEMMA IndexStep ==
  ASSUME IInv, [Next]_vars
  PROVE  IndexStands'
<1>0. Index \in Files
  BY DEF Files
<1>1. ASSUME NEW p \in Procs, NEW r \in Records, BeginSave(p, r)
      PROVE IndexStands'
  BY <1>1, <1>0, Effect_BeginSave DEF IInv, Honesty, IndexStands
<1>2. ASSUME NEW p \in Procs, NEW s \in Scopes, BeginFind(p, s)
      PROVE IndexStands'
  BY <1>2, <1>0, Effect_BeginFind DEF IInv, Honesty, IndexStands
<1>3. ASSUME NEW p \in Procs, Open(p)
      PROVE IndexStands'
  <2>1. disk' = disk /\ temp'[Index] \in {temp[Index], Empty} /\ Empty \notin IndexFiles
    BY <1>3, <1>0, Effect_Open, FilesAssumption DEF IInv, TypeOK, Unreadable
  <2> QED
    BY <2>1 DEF IInv, Honesty, IndexStands
<1>4. ASSUME NEW p \in Procs, Write(p)
      PROVE IndexStands'
  <2>1. Target(p) = Index => me[p].out \in IndexFiles /\ Honest(disk, me[p].out.entries)
    BY <1>4, Effect_Write, OutIsWhole DEF IInv, Honesty, Stand, Writing
  <2>2. \A c \in Written(temp[Target(p)], me[p].out) \cup Written(disk[Target(p)], me[p].out) :
          c \in {me[p].out, Garbled}
    BY DEF Written
  <2>3. Garbled \notin IndexFiles
    BY FilesAssumption DEF Unreadable
  <2>4. /\ disk'[Index] \in {disk[Index], Garbled} \/ (Target(p) = Index /\ disk'[Index] = me[p].out)
        /\ temp'[Index] \in {temp[Index], Garbled} \/ (Target(p) = Index /\ temp'[Index] = me[p].out)
    BY <1>4, <1>0, <2>2, Effect_Write DEF IInv, TypeOK
  <2>5. /\ disk[Index] \in IndexFiles => Honest(disk', disk[Index].entries)
        /\ temp[Index] \in IndexFiles => Honest(disk', temp[Index].entries)
        /\ Target(p) = Index => Honest(disk', me[p].out.entries)
    BY <2>1, HonestStays DEF IInv, Honesty, IndexStands, IndexFiles
  <2> QED
    BY <2>3, <2>4, <2>5 DEF IndexStands
<1>5. ASSUME NEW p \in Procs, Rename(p)
      PROVE IndexStands'
  <2>1. /\ disk'[Index] \in {disk[Index], temp[Index]}
        /\ temp'[Index] \in {temp[Index], Absent} /\ Absent \notin IndexFiles
    BY <1>5, <1>0, Effect_Rename, FilesAssumption DEF IInv, TypeOK
  <2>2. /\ disk[Index] \in IndexFiles => Honest(disk', disk[Index].entries)
        /\ temp[Index] \in IndexFiles => Honest(disk', temp[Index].entries)
    BY HonestStays DEF IInv, Honesty, IndexStands, IndexFiles
  <2> QED
    BY <2>1, <2>2 DEF IndexStands
<1>6. ASSUME NEW p \in Procs, RenameFails(p)
      PROVE IndexStands'
  BY <1>6, <1>0, Effect_RenameFails DEF IInv, Honesty, IndexStands
<1>7. ASSUME NEW p \in Procs, WriteFails(p)
      PROVE IndexStands'
  BY <1>7, <1>0, Effect_WriteFails DEF IInv, Honesty, IndexStands
<1>8. ASSUME NEW p \in Procs, LoadIndex(p)
      PROVE IndexStands'
  BY <1>8, <1>0, Effect_LoadIndex DEF IInv, Honesty, IndexStands
<1>9. ASSUME NEW p \in Procs, Scan(p)
      PROVE IndexStands'
  BY <1>9, <1>0, Effect_Scan DEF IInv, Honesty, IndexStands
<1>10. ASSUME NEW p \in Procs, Rebuild(p)
       PROVE IndexStands'
  BY <1>10, <1>0, Effect_Rebuild DEF IInv, Honesty, IndexStands
<1>11. ASSUME NEW p \in Procs, Fetch(p)
       PROVE IndexStands'
  BY <1>11, <1>0, Effect_End DEF IInv, Honesty, IndexStands
<1>12. ASSUME NEW p \in Procs, Crash(p)
       PROVE IndexStands'
  BY <1>12, <1>0, Effect_End DEF IInv, Honesty, IndexStands
<1>13. CASE UNCHANGED vars
  BY <1>13 DEF vars, IInv, Honesty, IndexStands
<1> QED
  BY <1>1, <1>2, <1>3, <1>4, <1>5, <1>6, <1>7, <1>8, <1>9, <1>10, <1>11, <1>12, <1>13 DEF Next

\* What p has in hand stays there while it does nothing.
LEMMA StandKept ==
  ASSUME IInv, [Next]_vars, NEW q \in Procs,
         Keeps(q), me'[q].names = me[q].names,
         me'[q].pc = me[q].pc \/ (me[q].pc \in Writing /\ me'[q].pc \in Writing)
  PROVE  Stand(q)'
<1>1. Stand(q) /\ Task(q)
  BY DEF IInv, Honesty, Tasks
<1>2. \A f \in Files : disk[f] # Absent => disk'[f] # Absent
  BY Present
<1>3. me[q].idx \in Entries /\ (Honest(disk, me[q].idx) => Honest(disk', me[q].idx))
  BY Typed, HonestStays
<1>4. me[q].pc \in Writing /\ me[q].goal # "record" /\ Honest(disk, me[q].out.entries)
        => Honest(disk', me[q].out.entries)
  BY OutIsWhole, HonestStays DEF IndexFiles
<1>5. me[q].pc # "idle" /\ me[q].task = "save" => me[q].rec \in Files
  BY <1>1 DEF Task, Files
<1>6. me[q].rec # None => me[q].rec \in Files
  BY Typed DEF Files
<1>7. me[q].names \subseteq Files
  BY Typed DEF Locals, Files
<1>8. CASE me[q].pc \in Writing
  BY <1>1, <1>2, <1>3, <1>4, <1>5, <1>8 DEF Stand, Keeps, Writing
<1>9. CASE me[q].pc \notin Writing
  BY <1>1, <1>2, <1>3, <1>5, <1>6, <1>7, <1>9 DEF Stand, Keeps, Writing
<1> QED
  BY <1>8, <1>9

\* What a process has in hand for the index is there.
LEMMA StandStep ==
  ASSUME IInv, [Next]_vars, NEW q \in Procs
  PROVE  Stand(q)'
<1>1. ASSUME NEW p \in Procs, NEW r \in Records, BeginSave(p, r)
      PROVE Stand(q)'
  <2>1. CASE q = p
    BY <1>1, <2>1, NothingIsHonest, Effect_BeginSave DEF Stand, Writing
  <2>2. CASE q # p
    <3>1. UNCHANGED me[q]
      BY <1>1, <2>2, Effect_BeginSave DEF Others
    <3> QED
      BY <3>1, StandKept DEF Keeps
  <2> QED
    BY <2>1, <2>2
<1>2. ASSUME NEW p \in Procs, NEW s \in Scopes, BeginFind(p, s)
      PROVE Stand(q)'
  <2>1. CASE q = p
    BY <1>2, <2>1, NothingIsHonest, Effect_BeginFind DEF Stand, Writing
  <2>2. CASE q # p
    <3>1. UNCHANGED me[q]
      BY <1>2, <2>2, Effect_BeginFind DEF Others
    <3> QED
      BY <3>1, StandKept DEF Keeps
  <2> QED
    BY <2>1, <2>2
<1>3. ASSUME NEW p \in Procs, Open(p)
      PROVE Stand(q)'
  <2>1. CASE q = p
    <3>1. me'[p].names = me[p].names
      BY <1>3, Typed DEF Open, Locals
    <3> QED
      BY <1>3, <2>1, <3>1, Effect_Open, StandKept DEF Writing
  <2>2. CASE q # p
    <3>1. UNCHANGED me[q]
      BY <1>3, <2>2, Effect_Open DEF Others
    <3> QED
      BY <3>1, StandKept DEF Keeps
  <2> QED
    BY <2>1, <2>2
<1>4. ASSUME NEW p \in Procs, Write(p)
      PROVE Stand(q)'
  <2>1. CASE q = p
    <3>1. me'[p].names = me[p].names
      BY <1>4, Typed DEF Write, Locals
    <3> QED
      BY <1>4, <2>1, <3>1, Effect_Write, StandKept DEF Writing
  <2>2. CASE q # p
    <3>1. UNCHANGED me[q]
      BY <1>4, <2>2, Effect_Write DEF Others
    <3> QED
      BY <3>1, StandKept DEF Keeps
  <2> QED
    BY <2>1, <2>2
<1>5. ASSUME NEW p \in Procs, Rename(p)
      PROVE Stand(q)'
  <2>1. CASE q = p
    <3>1. CASE me[p].goal = "rebuild"
      <4>1. /\ Resumes(p, me[p].idx) /\ Honest(disk, me[p].idx) /\ me[p].pc # "idle"
            /\ me[p].task = "save" => disk[me[p].rec] # Absent
        BY <1>5, <3>1, Effect_Rename DEF IInv, Honesty, Stand, Writing
      <4> QED
        BY <2>1, <4>1, Typed, ResumeStands
    <3>2. CASE me[p].goal = "index"
      BY <1>5, <2>1, <3>2, NothingIsHonest, Effect_Rename DEF Stand, Writing, Ends, Idle
    <3>3. CASE me[p].goal = "record"
      <4>1. /\ me'[p].pc = "load" /\ me'[p].rec = me[p].rec /\ me'[p].idx = me[p].idx
            /\ Honest(disk, me[p].idx)
        BY <1>5, <3>3, Effect_Rename DEF IInv, Honesty, Stand
      <4>2. disk'[me[p].rec] # Absent
        BY <1>5, <3>3, Effect_Rename, OutIsWhole DEF Writing, IInv, TypeOK
      <4>3. Honest(disk', me[p].idx)
        BY <4>1, Typed, HonestStays
      <4> QED
        BY <2>1, <4>1, <4>2, <4>3 DEF Stand, Writing
    <3> QED
      BY <3>1, <3>2, <3>3, Typed DEF Locals
  <2>2. CASE q # p
    BY <1>5, <2>2, Effect_Rename, StandKept
  <2> QED
    BY <2>1, <2>2
<1>6. ASSUME NEW p \in Procs, RenameFails(p)
      PROVE Stand(q)'
  <2>1. CASE q = p
    <3>1. CASE me[p].goal = "rebuild"
      <4>1. /\ Resumes(p, me[p].idx) /\ Honest(disk, me[p].idx) /\ me[p].pc # "idle"
            /\ me[p].task = "save" => disk[me[p].rec] # Absent
        BY <1>6, <3>1, Effect_RenameFails DEF GivesUp, IInv, Honesty, Stand, Writing
      <4> QED
        BY <2>1, <4>1, Typed, ResumeStands
    <3>2. CASE me[p].goal # "rebuild"
      BY <1>6, <2>1, <3>2, NothingIsHonest, Effect_RenameFails
         DEF GivesUp, Stand, Writing, Ends, Idle
    <3> QED
      BY <3>1, <3>2
  <2>2. CASE q # p
    <3>1. UNCHANGED me[q]
      BY <1>6, <2>2, Effect_RenameFails DEF Others
    <3> QED
      BY <3>1, StandKept DEF Keeps
  <2> QED
    BY <2>1, <2>2
<1>7. ASSUME NEW p \in Procs, WriteFails(p)
      PROVE Stand(q)'
  <2>1. CASE q = p
    <3>1. CASE me[p].goal = "rebuild"
      <4>1. /\ Resumes(p, me[p].idx) /\ Honest(disk, me[p].idx) /\ me[p].pc # "idle"
            /\ me[p].task = "save" => disk[me[p].rec] # Absent
        BY <1>7, <3>1, Effect_WriteFails DEF GivesUp, IInv, Honesty, Stand, Writing
      <4> QED
        BY <2>1, <4>1, Typed, ResumeStands
    <3>2. CASE me[p].goal # "rebuild"
      BY <1>7, <2>1, <3>2, NothingIsHonest, Effect_WriteFails
         DEF GivesUp, Stand, Writing, Ends, Idle
    <3> QED
      BY <3>1, <3>2
  <2>2. CASE q # p
    <3>1. UNCHANGED me[q]
      BY <1>7, <2>2, Effect_WriteFails DEF Others
    <3> QED
      BY <3>1, StandKept DEF Keeps
  <2> QED
    BY <2>1, <2>2
<1>8. ASSUME NEW p \in Procs, LoadIndex(p)
      PROVE Stand(q)'
  <2>1. CASE q = p
    <3>1. me[p].pc = "load" /\ (me[p].task = "save" => disk[me[p].rec] # Absent)
      BY <1>8, Effect_LoadIndex DEF IInv, Honesty, Stand
    <3>2. CASE disk[Index] = Absent /\ Resumes(p, NoEntries)
      <4>1. NoEntries \in Entries /\ Honest(disk, NoEntries)
        BY DEF NoEntries, Entries, Honest
      <4> QED
        BY <2>1, <3>1, <3>2, <4>1, ResumeStands
    <3>3. CASE disk[Index] \in IndexFiles /\ Resumes(p, disk[Index].entries)
      <4>1. disk[Index].entries \in Entries /\ Honest(disk, disk[Index].entries)
        BY <3>3 DEF IInv, Honesty, IndexStands, IndexFiles
      <4> QED
        BY <2>1, <3>1, <3>3, <4>1, ResumeStands
    <3>4. CASE /\ me'[p].pc = "scan" /\ Keeps(p)
               /\ me'[p].names = {r \in Records : disk[r] # Absent}
      <4>1. disk' = disk
        BY <1>8, Effect_LoadIndex
      <4>2. Honest(disk, me[p].idx)
        BY DEF IInv, Honesty, Stand
      <4> QED
        BY <2>1, <3>1, <3>4, <4>1, <4>2 DEF Stand, Writing, Keeps
    <3> QED
      BY <1>8, <3>2, <3>3, <3>4, Effect_LoadIndex
  <2>2. CASE q # p
    <3>1. UNCHANGED me[q]
      BY <1>8, <2>2, Effect_LoadIndex DEF Others
    <3> QED
      BY <3>1, StandKept DEF Keeps
  <2> QED
    BY <2>1, <2>2
<1>9. ASSUME NEW p \in Procs, Scan(p)
      PROVE Stand(q)'
  <2>1. CASE q = p
    <3>1. PICK r \in me[p].names :
            /\ r \in Records
            /\ me'[p].idx \in {me[p].idx, [me[p].idx EXCEPT ![ScopeOf[r]] = r]}
      BY <1>9, Effect_Scan
    <3>2. disk[r] # Absent /\ Honest(disk, me[p].idx) /\ me[p].pc = "scan" /\ Stand(p)
      BY <1>9, Effect_Scan DEF IInv, Honesty, Stand
    <3>3. Honest(disk, me'[p].idx)
      BY <3>1, <3>2, Typed DEF Honest, Entries
    <3> QED
      BY <1>9, <2>1, <3>2, <3>3, Effect_Scan DEF Stand, Writing
  <2>2. CASE q # p
    <3>1. UNCHANGED me[q]
      BY <1>9, <2>2, Effect_Scan DEF Others
    <3> QED
      BY <3>1, StandKept DEF Keeps
  <2> QED
    BY <2>1, <2>2
<1>10. ASSUME NEW p \in Procs, Rebuild(p)
       PROVE Stand(q)'
  <2>1. CASE q = p
    <3>1. Stand(p) /\ me'[p].out.entries = me[p].idx
      BY <1>10, EntriesOf, Effect_Rebuild DEF IInv, Honesty
    <3> QED
      BY <1>10, <2>1, <3>1, Effect_Rebuild DEF Stand, Writing
  <2>2. CASE q # p
    <3>1. UNCHANGED me[q]
      BY <1>10, <2>2, Effect_Rebuild DEF Others
    <3> QED
      BY <3>1, StandKept DEF Keeps
  <2> QED
    BY <2>1, <2>2
<1>11. ASSUME NEW p \in Procs, Fetch(p)
       PROVE Stand(q)'
  <2>1. CASE q = p
    BY <1>11, <2>1, NothingIsHonest, Effect_End DEF Stand, Writing, Ends, Idle
  <2>2. CASE q # p
    <3>1. UNCHANGED me[q]
      BY <1>11, <2>2, Effect_End DEF Others
    <3> QED
      BY <3>1, StandKept DEF Keeps
  <2> QED
    BY <2>1, <2>2
<1>12. ASSUME NEW p \in Procs, Crash(p)
       PROVE Stand(q)'
  <2>1. CASE q = p
    BY <1>12, <2>1, NothingIsHonest, Effect_End DEF Stand, Writing, Ends, Idle
  <2>2. CASE q # p
    <3>1. UNCHANGED me[q]
      BY <1>12, <2>2, Effect_End DEF Others
    <3> QED
      BY <3>1, StandKept DEF Keeps
  <2> QED
    BY <2>1, <2>2
<1>13. CASE UNCHANGED vars
  BY <1>13 DEF vars, IInv, Honesty, Stand
<1> QED
  BY <1>1, <1>2, <1>3, <1>4, <1>5, <1>6, <1>7, <1>8, <1>9, <1>10, <1>11, <1>12, <1>13 DEF Next

\* What was found is sound.
LEMMA FindStep ==
  ASSUME IInv, [Next]_vars
  PROVE  FindIsSound'
<1>1. ASSUME NEW p \in Procs, NEW r \in Records, BeginSave(p, r)
      PROVE FindIsSound'
  BY <1>1, Effect_BeginSave DEF IInv, TypeOK, FindIsSound, Nothing
<1>2. ASSUME NEW p \in Procs, NEW s \in Scopes, BeginFind(p, s)
      PROVE FindIsSound'
  BY <1>2, Effect_BeginFind DEF IInv, TypeOK, FindIsSound, Nothing
<1>3. ASSUME NEW p \in Procs, Open(p)
      PROVE FindIsSound'
  BY <1>3, Effect_Open DEF IInv, FindIsSound
<1>4. ASSUME NEW p \in Procs, Write(p)
      PROVE FindIsSound'
  BY <1>4, Effect_Write DEF IInv, FindIsSound
<1>5. ASSUME NEW p \in Procs, Rename(p)
      PROVE FindIsSound'
  BY <1>5, Effect_Rename DEF IInv, FindIsSound
<1>6. ASSUME NEW p \in Procs, RenameFails(p)
      PROVE FindIsSound'
  BY <1>6, Effect_RenameFails DEF IInv, FindIsSound
<1>7. ASSUME NEW p \in Procs, WriteFails(p)
      PROVE FindIsSound'
  BY <1>7, Effect_WriteFails DEF IInv, FindIsSound
<1>8. ASSUME NEW p \in Procs, LoadIndex(p)
      PROVE FindIsSound'
  BY <1>8, Effect_LoadIndex DEF IInv, FindIsSound
<1>9. ASSUME NEW p \in Procs, Scan(p)
      PROVE FindIsSound'
  BY <1>9, Effect_Scan DEF IInv, FindIsSound
<1>10. ASSUME NEW p \in Procs, Rebuild(p)
       PROVE FindIsSound'
  BY <1>10, Effect_Rebuild DEF IInv, FindIsSound
<1>11. ASSUME NEW p \in Procs, Fetch(p)
       PROVE FindIsSound'
  <2>1. CASE me[p].rec = None
    BY <1>11, <2>1 DEF Fetch, IInv, FindIsSound
  <2>2. CASE me[p].rec # None
    <3> DEFINE g == [rec |-> me[p].rec, scope |-> me[p].scope, file |-> disk[me[p].rec]]
    <3>1. got' = [got EXCEPT ![p] = g] /\ me[p].pc = "fetch"
      BY <1>11, <2>2 DEF Fetch
    <3>2. /\ ScopeOf[me[p].rec] = me[p].scope /\ disk[me[p].rec] # Absent
          /\ me[p].rec \in Records
      BY <2>2, <3>1, Typed DEF IInv, Honesty, Stand
    <3>3. Sole(me[p].rec) => disk[me[p].rec] \in RecordFiles
      BY <3>2, ConstantsAssumption DEF IInv, Calmness, CalmFile, Own, Files
    <3>4. /\ g.file # Absent /\ ScopeOf[g.rec] = g.scope
          /\ Sole(g.rec) => g.file \in RecordFiles
      BY <3>2, <3>3
    <3> HIDE DEF g
    <3> QED
      BY <3>1, <3>4 DEF IInv, TypeOK, FindIsSound
  <2> QED
    BY <2>1, <2>2
<1>12. ASSUME NEW p \in Procs, Crash(p)
       PROVE FindIsSound'
  BY <1>12 DEF Crash, IInv, FindIsSound
<1>13. CASE UNCHANGED vars
  BY <1>13 DEF vars, IInv, FindIsSound
<1> QED
  BY <1>1, <1>2, <1>3, <1>4, <1>5, <1>6, <1>7, <1>8, <1>9, <1>10, <1>11, <1>12, <1>13 DEF Next

\* While somebody is at work an overlap is not forgotten.
LEMMA OverlapStays ==
  ASSUME IInv, [Next]_vars, NEW q \in Procs, me[q].pc # "idle"
  PROVE  overlapped => overlapped'
<1>1. ASSUME NEW p \in Procs, NEW r \in Records, BeginSave(p, r)
      PROVE overlapped => overlapped'
  BY <1>1, Effect_BeginSave
<1>2. ASSUME NEW p \in Procs, NEW s \in Scopes, BeginFind(p, s)
      PROVE overlapped => overlapped'
  BY <1>2, Effect_BeginFind
<1>3. ASSUME NEW p \in Procs, Open(p)
      PROVE overlapped => overlapped'
  BY <1>3, Effect_Open
<1>4. ASSUME NEW p \in Procs, Write(p)
      PROVE overlapped => overlapped'
  BY <1>4, Effect_Write
<1>5. ASSUME NEW p \in Procs, Rename(p)
      PROVE overlapped => overlapped'
  BY <1>5, Effect_Rename
<1>6. ASSUME NEW p \in Procs, RenameFails(p)
      PROVE overlapped => overlapped'
  BY <1>6, Effect_RenameFails
<1>7. ASSUME NEW p \in Procs, WriteFails(p)
      PROVE overlapped => overlapped'
  BY <1>7, Effect_WriteFails
<1>8. ASSUME NEW p \in Procs, LoadIndex(p)
      PROVE overlapped => overlapped'
  BY <1>8, Effect_LoadIndex
<1>9. ASSUME NEW p \in Procs, Scan(p)
      PROVE overlapped => overlapped'
  BY <1>9, Effect_Scan
<1>10. ASSUME NEW p \in Procs, Rebuild(p)
       PROVE overlapped => overlapped'
  BY <1>10, Effect_Rebuild
<1>11. ASSUME NEW p \in Procs, Fetch(p)
       PROVE overlapped => overlapped'
  BY <1>11, Effect_End
<1>12. ASSUME NEW p \in Procs, Crash(p)
       PROVE overlapped => overlapped'
  BY <1>12, Effect_End
<1>13. CASE UNCHANGED vars
  BY <1>13 DEF vars, IInv
<1> QED
  BY <1>1, <1>2, <1>3, <1>4, <1>5, <1>6, <1>7, <1>8, <1>9, <1>10, <1>11, <1>12, <1>13 DEF Next

\* So a file is calm for its writer only if it has been calm before.
LEMMA CalmBefore ==
  ASSUME IInv, [Next]_vars, NEW f, NEW q \in Procs, me[q].pc # "idle", Calm(f)'
  PROVE  Calm(f)
<1>1. overlapped => overlapped'
  BY OverlapStays
<1> QED
  BY <1>1 DEF Calm, Own, Sole

\* Only the one writer of a calm file writes it, and into a file of its own.
LEMMA CalmWrites ==
  ASSUME IInv, NEW p \in Procs, NEW f \in Files, Writes(p, f), Calm(f)
  PROVE  /\ \A q \in Procs : Writes(q, f) => p = q
         /\ me[p].pc = "write" => me[p].fd = "temp" /\ temp[f] = Empty
         /\ me[p].pc = "rename" => temp[f] = me[p].out
         /\ Own(f) /\ disk[f] # Absent => disk[f].version <= me[p].version
BY DEF IInv, Calmness, CalmWriter

\* What happens to a calm file: its writer renames the new version over it.
LEMMA CalmChanges ==
  ASSUME IInv, [Next]_vars, NEW f \in Files, Calm(f)
  PROVE  \/ disk'[f] = disk[f]
         \/ \E p \in Procs : /\ Writes(p, f) /\ Rename(p)
                              /\ disk'[f] = me[p].out
<1> DEFINE Goal == \/ disk'[f] = disk[f]
                   \/ \E p \in Procs : /\ Writes(p, f) /\ Rename(p)
                                        /\ disk'[f] = me[p].out
<1>1. ASSUME NEW p \in Procs, NEW r \in Records, BeginSave(p, r)
      PROVE Goal
  BY <1>1, Effect_BeginSave
<1>2. ASSUME NEW p \in Procs, NEW s \in Scopes, BeginFind(p, s)
      PROVE Goal
  BY <1>2, Effect_BeginFind
<1>3. ASSUME NEW p \in Procs, Open(p)
      PROVE Goal
  BY <1>3, Effect_Open
<1>4. ASSUME NEW p \in Procs, Write(p)
      PROVE Goal
  <2>1. CASE Target(p) = f
    <3>1. me[p].fd = "temp"
      BY <1>4, <2>1, Effect_Write, CalmWrites DEF Writes, Writing
    <3> QED
      BY <1>4, <3>1, Effect_Write
  <2>2. CASE Target(p) # f
    BY <1>4, <2>2, Effect_Write DEF IInv, TypeOK
  <2> QED
    BY <2>1, <2>2
<1>5. ASSUME NEW p \in Procs, Rename(p)
      PROVE Goal
  <2>1. CASE Target(p) = f
    <3>1. Writes(p, f) /\ temp[f] = me[p].out
      BY <1>5, <2>1, Effect_Rename, CalmWrites DEF Writes, Writing
    <3>2. disk'[f] = me[p].out
      BY <1>5, <2>1, <3>1, Effect_Rename DEF IInv, TypeOK
    <3> QED
      BY <1>5, <3>1, <3>2
  <2>2. CASE Target(p) # f
    BY <1>5, <2>2, Effect_Rename DEF IInv, TypeOK
  <2> QED
    BY <2>1, <2>2
<1>6. ASSUME NEW p \in Procs, RenameFails(p)
      PROVE Goal
  BY <1>6, Effect_RenameFails
<1>7. ASSUME NEW p \in Procs, WriteFails(p)
      PROVE Goal
  BY <1>7, Effect_WriteFails
<1>8. ASSUME NEW p \in Procs, LoadIndex(p)
      PROVE Goal
  BY <1>8, Effect_LoadIndex
<1>9. ASSUME NEW p \in Procs, Scan(p)
      PROVE Goal
  BY <1>9, Effect_Scan
<1>10. ASSUME NEW p \in Procs, Rebuild(p)
       PROVE Goal
  BY <1>10, Effect_Rebuild
<1>11. ASSUME NEW p \in Procs, Fetch(p)
       PROVE Goal
  BY <1>11, Effect_End
<1>12. ASSUME NEW p \in Procs, Crash(p)
       PROVE Goal
  BY <1>12, Effect_End
<1>13. CASE UNCHANGED vars
  BY <1>13 DEF vars, IInv
<1> QED
  BY <1>1, <1>2, <1>3, <1>4, <1>5, <1>6, <1>7, <1>8, <1>9, <1>10, <1>11, <1>12, <1>13 DEF Next

\* Saves are counted up.
LEMMA SavesGrow ==
  ASSUME IInv, [Next]_vars
  PROVE  saves <= saves'
<1>1. ASSUME NEW p \in Procs, NEW r \in Records, BeginSave(p, r)
      PROVE saves <= saves'
  BY <1>1, Typed, Effect_BeginSave
<1>2. ASSUME NEW p \in Procs, NEW s \in Scopes, BeginFind(p, s)
      PROVE saves <= saves'
  BY <1>2, Typed, Effect_BeginFind
<1>3. ASSUME NEW p \in Procs, Open(p)
      PROVE saves <= saves'
  BY <1>3, Typed, Effect_Open
<1>4. ASSUME NEW p \in Procs, Write(p)
      PROVE saves <= saves'
  BY <1>4, Typed, Effect_Write
<1>5. ASSUME NEW p \in Procs, Rename(p)
      PROVE saves <= saves'
  BY <1>5, Typed, Effect_Rename
<1>6. ASSUME NEW p \in Procs, RenameFails(p)
      PROVE saves <= saves'
  BY <1>6, Typed, Effect_RenameFails
<1>7. ASSUME NEW p \in Procs, WriteFails(p)
      PROVE saves <= saves'
  BY <1>7, Typed, Effect_WriteFails
<1>8. ASSUME NEW p \in Procs, LoadIndex(p)
      PROVE saves <= saves'
  BY <1>8, Typed, Effect_LoadIndex
<1>9. ASSUME NEW p \in Procs, Scan(p)
      PROVE saves <= saves'
  BY <1>9, Typed, Effect_Scan
<1>10. ASSUME NEW p \in Procs, Rebuild(p)
       PROVE saves <= saves'
  BY <1>10, Typed, Effect_Rebuild
<1>11. ASSUME NEW p \in Procs, Fetch(p)
       PROVE saves <= saves'
  BY <1>11, Typed, Effect_End
<1>12. ASSUME NEW p \in Procs, Crash(p)
       PROVE saves <= saves'
  BY <1>12, Typed, Effect_End
<1>13. CASE UNCHANGED vars
  BY <1>13 DEF vars, IInv, TypeOK
<1> QED
  BY <1>1, <1>2, <1>3, <1>4, <1>5, <1>6, <1>7, <1>8, <1>9, <1>10, <1>11, <1>12, <1>13 DEF Next

\* A record of one process stays whole, and its stamp does not outrun the saves.
LEMMA CalmFileStep == ASSUME IInv, [Next]_vars, NEW f \in Files PROVE CalmFile(f)'
<1> SUFFICES ASSUME Own(f), disk'[f] # Absent
             PROVE  disk'[f] \in RecordFiles /\ disk'[f].version <= saves'
  BY DEF CalmFile, Own, Sole
<1>1. CalmFile(f) /\ Calm(f) /\ f # Index
  BY ConstantsAssumption DEF IInv, Calmness, Calm, Own
<1>2. saves <= saves' /\ saves \in Nat /\ saves' \in Nat
  BY ConstantsAssumption, RestTypeStep, SavesGrow DEF IInv, TypeOK
<1>3. CASE disk'[f] = disk[f]
  <2>1. disk[f] \in RecordFiles /\ disk[f].version \in Nat
    BY <1>1, <1>3 DEF CalmFile, RecordFiles
  <2> QED
    BY <1>1, <1>2, <1>3, <2>1 DEF CalmFile
<1>4. ASSUME NEW p \in Procs, Writes(p, f), disk'[f] = me[p].out
      PROVE  disk'[f] \in RecordFiles /\ disk'[f].version <= saves'
  <2>1. me[p].goal = "record" /\ me[p].out \in RecordFiles
    BY <1>1, <1>4, OutIsWhole DEF Writes
  <2>2. me[p].out = RecordFile(me[p].rec, me[p].version) /\ me[p].version <= saves
    BY <1>4, <2>1, Typed DEF Writes, IInv, Tasks, Task, Writing
  <2>3. me[p].out.version = me[p].version
    BY <2>2 DEF RecordFile
  <2> QED
    BY <1>2, <1>4, <2>1, <2>2, <2>3, Typed
<1> QED
  BY <1>1, <1>3, <1>4, CalmChanges

\* Turns are taken.
LEMMA SingleStep ==
  ASSUME IInv, [Next]_vars
  PROVE  Single'
<1>1. ASSUME NEW p \in Procs, NEW r \in Records, BeginSave(p, r)
      PROVE Single'
  <2> SUFFICES ASSUME ~overlapped', NEW q \in Procs, q # p, me'[q].pc # "idle"
               PROVE  FALSE
    BY DEF Single
  <2>1. me'[q].pc = me[q].pc
    BY <1>1, Effect_BeginSave DEF Others
  <2> QED
    BY <1>1, <2>1, Effect_BeginSave
<1>2. ASSUME NEW p \in Procs, NEW s \in Scopes, BeginFind(p, s)
      PROVE Single'
  <2> SUFFICES ASSUME ~overlapped', NEW q \in Procs, q # p, me'[q].pc # "idle"
               PROVE  FALSE
    BY DEF Single
  <2>1. me'[q].pc = me[q].pc
    BY <1>2, Effect_BeginFind DEF Others
  <2> QED
    BY <1>2, <2>1, Effect_BeginFind
<1>3. ASSUME NEW p \in Procs, Open(p)
      PROVE Single'
  <2> SUFFICES ASSUME ~overlapped', NEW q \in Procs, q # p, me'[q].pc # "idle"
               PROVE  FALSE
    BY DEF Single
  <2>1. me'[q].pc = me[q].pc
    BY <1>3, Effect_Open DEF Others
  <2>2. me[p].pc # "idle" /\ ~overlapped
    BY <1>3, Effect_Open
  <2> QED
    BY <2>1, <2>2 DEF IInv, Turns, Single
<1>4. ASSUME NEW p \in Procs, Write(p)
      PROVE Single'
  <2> SUFFICES ASSUME ~overlapped', NEW q \in Procs, q # p, me'[q].pc # "idle"
               PROVE  FALSE
    BY DEF Single
  <2>1. me'[q].pc = me[q].pc
    BY <1>4, Effect_Write DEF Others
  <2>2. me[p].pc # "idle" /\ ~overlapped
    BY <1>4, Effect_Write
  <2> QED
    BY <2>1, <2>2 DEF IInv, Turns, Single
<1>5. ASSUME NEW p \in Procs, Rename(p)
      PROVE Single'
  <2> SUFFICES ASSUME ~overlapped', NEW q \in Procs, q # p, me'[q].pc # "idle"
               PROVE  FALSE
    BY DEF Single
  <2>1. me'[q].pc = me[q].pc
    BY <1>5, Effect_Rename DEF Others
  <2>2. me[p].pc # "idle" /\ ~overlapped
    BY <1>5, Effect_Rename
  <2> QED
    BY <2>1, <2>2 DEF IInv, Turns, Single
<1>6. ASSUME NEW p \in Procs, RenameFails(p)
      PROVE Single'
  <2> SUFFICES ASSUME ~overlapped', NEW q \in Procs, q # p, me'[q].pc # "idle"
               PROVE  FALSE
    BY DEF Single
  <2>1. me'[q].pc = me[q].pc
    BY <1>6, Effect_RenameFails DEF Others
  <2>2. me[p].pc # "idle" /\ ~overlapped
    BY <1>6, Effect_RenameFails
  <2> QED
    BY <2>1, <2>2 DEF IInv, Turns, Single
<1>7. ASSUME NEW p \in Procs, WriteFails(p)
      PROVE Single'
  <2> SUFFICES ASSUME ~overlapped', NEW q \in Procs, q # p, me'[q].pc # "idle"
               PROVE  FALSE
    BY DEF Single
  <2>1. me'[q].pc = me[q].pc
    BY <1>7, Effect_WriteFails DEF Others
  <2>2. me[p].pc # "idle" /\ ~overlapped
    BY <1>7, Effect_WriteFails
  <2> QED
    BY <2>1, <2>2 DEF IInv, Turns, Single
<1>8. ASSUME NEW p \in Procs, LoadIndex(p)
      PROVE Single'
  <2> SUFFICES ASSUME ~overlapped', NEW q \in Procs, q # p, me'[q].pc # "idle"
               PROVE  FALSE
    BY DEF Single
  <2>1. me'[q].pc = me[q].pc
    BY <1>8, Effect_LoadIndex DEF Others
  <2>2. me[p].pc # "idle" /\ ~overlapped
    BY <1>8, Effect_LoadIndex
  <2> QED
    BY <2>1, <2>2 DEF IInv, Turns, Single
<1>9. ASSUME NEW p \in Procs, Scan(p)
      PROVE Single'
  <2> SUFFICES ASSUME ~overlapped', NEW q \in Procs, q # p, me'[q].pc # "idle"
               PROVE  FALSE
    BY DEF Single
  <2>1. me'[q].pc = me[q].pc
    BY <1>9, Effect_Scan DEF Others
  <2>2. me[p].pc # "idle" /\ ~overlapped
    BY <1>9, Effect_Scan
  <2> QED
    BY <2>1, <2>2 DEF IInv, Turns, Single
<1>10. ASSUME NEW p \in Procs, Rebuild(p)
       PROVE Single'
  <2> SUFFICES ASSUME ~overlapped', NEW q \in Procs, q # p, me'[q].pc # "idle"
               PROVE  FALSE
    BY DEF Single
  <2>1. me'[q].pc = me[q].pc
    BY <1>10, Effect_Rebuild DEF Others
  <2>2. me[p].pc # "idle" /\ ~overlapped
    BY <1>10, Effect_Rebuild
  <2> QED
    BY <2>1, <2>2 DEF IInv, Turns, Single
<1>11. ASSUME NEW p \in Procs, Fetch(p)
       PROVE Single'
  <2> SUFFICES ASSUME ~overlapped', NEW q \in Procs, q # p, me'[q].pc # "idle"
               PROVE  FALSE
    BY DEF Single
  <2>1. me'[q].pc = me[q].pc
    BY <1>11, Effect_End DEF Others
  <2>2. me[p].pc # "idle" /\ ~overlapped
    BY <1>11, Effect_End
  <2> QED
    BY <2>1, <2>2 DEF IInv, Turns, Single
<1>12. ASSUME NEW p \in Procs, Crash(p)
       PROVE Single'
  <2> SUFFICES ASSUME ~overlapped', NEW q \in Procs, q # p, me'[q].pc # "idle"
               PROVE  FALSE
    BY DEF Single
  <2>1. me'[q].pc = me[q].pc
    BY <1>12, Effect_End DEF Others
  <2>2. me[p].pc # "idle" /\ ~overlapped
    BY <1>12, Effect_End
  <2> QED
    BY <2>1, <2>2 DEF IInv, Turns, Single
<1>13. CASE UNCHANGED vars
  BY <1>13 DEF vars, IInv, Turns, Single
<1> QED
  BY <1>1, <1>2, <1>3, <1>4, <1>5, <1>6, <1>7, <1>8, <1>9, <1>10, <1>11, <1>12, <1>13 DEF Next

\* Where a process is that has the index in hand.
LEMMA ResumePlaces ==
  ASSUME NEW p \in Procs, NEW idx, Resumes(p, idx)
  PROVE  me'[p].pc \in {"open", "fetch"} /\ (me'[p].pc = "open" => me'[p].goal = "index")
BY DEF Resumes

\* Of a calm file there is one writer.
LEMMA UniqueWriter ==
  ASSUME IInv, [Next]_vars, NEW f \in Files, NEW p \in Procs, NEW q \in Procs,
         Calm(f)', Writes(p, f)', Writes(q, f)'
  PROVE  p = q
<1>1. CASE ~overlapped'
  <2>1. me'[p].pc # "idle" /\ me'[q].pc # "idle"
    BY DEF Writes, Writing
  <2> QED
    BY <1>1, <2>1, SingleStep DEF Single
<1>2. CASE Own(f)
  <2>1. Task(p)' /\ Task(q)'
    BY TaskStep
  <2>2. me'[p].rec = f /\ me'[q].rec = f
    BY <1>2, ConstantsAssumption DEF Writes, Target, Own
  <2>3. me'[p].goal = "record" /\ me'[q].goal = "record"
    BY <1>2, ConstantsAssumption DEF Writes, Target, Own
  <2>4. p \in Savers[f] /\ q \in Savers[f]
    BY <2>1, <2>2, <2>3 DEF Task, Writes, Writing
  <2> QED
    BY <1>2, <2>4 DEF Sole, Own
<1>3. overlapped' => Own(f)
  BY DEF Calm, Own, Sole
<1> QED
  BY <1>1, <1>2, <1>3

\* What CalmWriter asks of the step to come.
Kept(f, q) ==
  /\ me'[q].pc = "write" => me'[q].fd = "temp" /\ temp'[f] = Empty
  /\ me'[q].pc = "rename" => temp'[f] = me'[q].out
  /\ Own(f) /\ disk'[f] # Absent => disk'[f].version <= me'[q].version

\* A writer whose file nobody touches goes on as it was.
LEMMA WriterKept ==
  ASSUME IInv, NEW f \in Files, NEW q \in Procs, Calm(f), Writes(q, f),
         me'[q].pc = me[q].pc, me'[q].fd = me[q].fd, me'[q].out = me[q].out,
         me'[q].version = me[q].version, temp'[f] = temp[f], disk'[f] = disk[f]
  PROVE  Kept(f, q)
BY DEF IInv, Calmness, CalmWriter, Kept

\* Its writer stays the only one, with its own temporary file.
LEMMA CalmWriterStep ==
  ASSUME IInv, [Next]_vars, NEW f \in Files, NEW q \in Procs
  PROVE  CalmWriter(f, q)'
<1>1. ASSUME NEW p \in Procs, NEW r \in Records, BeginSave(p, r)
      PROVE CalmWriter(f, q)'
  <2> SUFFICES ASSUME Calm(f)', Writes(q, f)'
               PROVE  Kept(f, q)
    BY UniqueWriter DEF CalmWriter, Kept, Own, Sole
  <2>1. CASE q = p
    <3>1. f = r
      BY <1>1, <2>1, Effect_BeginSave DEF Writes, Target
    <3>2. CalmFile(f)
      BY DEF IInv, Calmness
    <3>3. Own(f) /\ disk[f] # Absent => disk[f].version \in Nat /\ disk[f].version <= saves
      BY <3>2 DEF CalmFile, RecordFiles
    <3> QED
      BY <1>1, <2>1, <3>3, Typed, Effect_BeginSave DEF Kept
  <2>2. CASE q # p
    <3>1. me'[q] = me[q] /\ Writes(q, f) /\ temp'[f] = temp[f] /\ disk'[f] = disk[f]
      BY <1>1, <2>2, Effect_BeginSave DEF Others, Writes, Target
    <3>2. Calm(f)
      BY <3>1, CalmBefore DEF Writes, Writing
    <3> QED
      BY <3>1, <3>2, WriterKept
  <2> QED
    BY <2>1, <2>2
<1>2. ASSUME NEW p \in Procs, NEW s \in Scopes, BeginFind(p, s)
      PROVE CalmWriter(f, q)'
  <2> SUFFICES ASSUME Calm(f)', Writes(q, f)'
               PROVE  Kept(f, q)
    BY UniqueWriter DEF CalmWriter, Kept, Own, Sole
  <2>1. CASE q = p
    BY <1>2, <2>1, Effect_BeginFind DEF Writes, Writing, Ends, Idle
  <2>2. CASE q # p
    <3>1. me'[q] = me[q] /\ Writes(q, f) /\ temp'[f] = temp[f] /\ disk'[f] = disk[f]
      BY <1>2, <2>2, Effect_BeginFind DEF Others, Writes, Target
    <3>2. Calm(f)
      BY <3>1, CalmBefore DEF Writes, Writing
    <3> QED
      BY <3>1, <3>2, WriterKept
  <2> QED
    BY <2>1, <2>2
<1>3. ASSUME NEW p \in Procs, Open(p)
      PROVE CalmWriter(f, q)'
  <2> SUFFICES ASSUME Calm(f)', Writes(q, f)'
               PROVE  Kept(f, q)
    BY UniqueWriter DEF CalmWriter, Kept, Own, Sole
  <2>1. CASE q = p
    <3>1. Writes(p, f) /\ Target(p) = f
      BY <1>3, <2>1, Effect_Open DEF Keeps, Writes, Target, Writing
    <3>2. Calm(f)
      BY <3>1, CalmBefore DEF Writes, Writing
    <3>3. temp'[f] = Empty /\ disk'[f] = disk[f]
      BY <1>3, <3>1, Effect_Open DEF IInv, TypeOK
    <3> QED
      BY <1>3, <2>1, <3>1, <3>2, <3>3, Effect_Open, CalmWrites DEF Keeps, Kept
  <2>2. CASE q # p
    <3>1. me'[q] = me[q] /\ Writes(q, f)
      BY <1>3, <2>2, Effect_Open DEF Others, Writes, Target
    <3>2. Calm(f)
      BY <3>1, CalmBefore DEF Writes, Writing
    <3>3. Target(p) # f
      BY <1>3, <2>2, <3>1, <3>2, Effect_Open, CalmWrites DEF Writes, Writing
    <3>4. temp'[f] = temp[f] /\ disk'[f] = disk[f]
      BY <1>3, <3>3, Effect_Open DEF IInv, TypeOK
    <3> QED
      BY <3>1, <3>2, <3>4, WriterKept
  <2> QED
    BY <2>1, <2>2
<1>4. ASSUME NEW p \in Procs, Write(p)
      PROVE CalmWriter(f, q)'
  <2> SUFFICES ASSUME Calm(f)', Writes(q, f)'
               PROVE  Kept(f, q)
    BY UniqueWriter DEF CalmWriter, Kept, Own, Sole
  <2>1. CASE q = p
    <3>1. Writes(p, f) /\ Target(p) = f
      BY <1>4, <2>1, Effect_Write DEF Keeps, Writes, Target, Writing
    <3>2. Calm(f)
      BY <3>1, CalmBefore DEF Writes, Writing
    <3>3. me[p].fd = "temp" /\ temp[f] = Empty
      BY <1>4, <3>1, <3>2, Effect_Write, CalmWrites
    <3>4. temp'[f] = me[p].out /\ disk' = disk
      BY <1>4, <3>1, <3>3, Effect_Write DEF Written, IInv, TypeOK
    <3> QED
      BY <1>4, <2>1, <3>1, <3>2, <3>4, Effect_Write, CalmWrites DEF Keeps, Kept
  <2>2. CASE q # p
    <3>1. me'[q] = me[q] /\ Writes(q, f)
      BY <1>4, <2>2, Effect_Write DEF Others, Writes, Target
    <3>2. Calm(f)
      BY <3>1, CalmBefore DEF Writes, Writing
    <3>3. Target(p) # f
      BY <1>4, <2>2, <3>1, <3>2, Effect_Write, CalmWrites DEF Writes, Writing
    <3>4. temp'[f] = temp[f] /\ disk'[f] = disk[f]
      BY <1>4, <3>3, Effect_Write DEF IInv, TypeOK
    <3> QED
      BY <3>1, <3>2, <3>4, WriterKept
  <2> QED
    BY <2>1, <2>2
<1>5. ASSUME NEW p \in Procs, Rename(p)
      PROVE CalmWriter(f, q)'
  <2> SUFFICES ASSUME Calm(f)', Writes(q, f)'
               PROVE  Kept(f, q)
    BY UniqueWriter DEF CalmWriter, Kept, Own, Sole
  <2>1. CASE q = p
    <3>1. me'[p].pc \in {"open", "fetch", "idle", "load"} /\ (me'[p].pc = "open" => me'[p].goal = "index")
      <4>1. me[p].goal \in {"record", "rebuild", "index"}
        BY Typed DEF Locals
      <4> QED
        BY <1>5, <4>1, Effect_Rename, ResumePlaces, Typed, Idling DEF Ends
    <3>2. f = Index
      BY <2>1, <3>1 DEF Writes, Writing, Target
    <3> QED
      BY <2>1, <3>1, <3>2, ConstantsAssumption DEF Kept, Own
  <2>2. CASE q # p
    <3>1. Writes(q, f) /\ me'[q].pc = me[q].pc /\ Keeps(q)
      BY <1>5, <2>2, Effect_Rename DEF Keeps, Writes, Target
    <3>2. Calm(f)
      BY <3>1, CalmBefore DEF Writes, Writing
    <3>3. Target(p) # f
      BY <1>5, <2>2, <3>1, <3>2, Effect_Rename, CalmWrites DEF Writes, Writing
    <3>4. temp'[f] = temp[f] /\ disk'[f] = disk[f]
      BY <1>5, <3>3, Effect_Rename DEF IInv, TypeOK
    <3>5. me'[q].fd = me[q].fd
      BY <1>5, <2>2, <3>1, <3>3, Effect_Rename DEF Writes
    <3> QED
      BY <3>1, <3>2, <3>4, <3>5, WriterKept DEF Keeps
  <2> QED
    BY <2>1, <2>2
<1>6. ASSUME NEW p \in Procs, RenameFails(p)
      PROVE CalmWriter(f, q)'
  <2> SUFFICES ASSUME Calm(f)', Writes(q, f)'
               PROVE  Kept(f, q)
    BY UniqueWriter DEF CalmWriter, Kept, Own, Sole
  <2>1. CASE q = p
    <3>1. me'[p].pc \in {"open", "fetch", "idle"} /\ (me'[p].pc = "open" => me'[p].goal = "index")
      BY <1>6, Effect_RenameFails, ResumePlaces, Typed, Idling DEF GivesUp, Ends
    <3>2. f = Index
      BY <2>1, <3>1 DEF Writes, Writing, Target
    <3> QED
      BY <2>1, <3>1, <3>2, ConstantsAssumption DEF Kept, Own
  <2>2. CASE q # p
    <3>1. me'[q] = me[q] /\ Writes(q, f) /\ temp'[f] = temp[f] /\ disk'[f] = disk[f]
      BY <1>6, <2>2, Effect_RenameFails DEF Others, Writes, Target
    <3>2. Calm(f)
      BY <3>1, CalmBefore DEF Writes, Writing
    <3> QED
      BY <3>1, <3>2, WriterKept
  <2> QED
    BY <2>1, <2>2
<1>7. ASSUME NEW p \in Procs, WriteFails(p)
      PROVE CalmWriter(f, q)'
  <2> SUFFICES ASSUME Calm(f)', Writes(q, f)'
               PROVE  Kept(f, q)
    BY UniqueWriter DEF CalmWriter, Kept, Own, Sole
  <2>1. CASE q = p
    <3>1. me'[p].pc \in {"open", "fetch", "idle"} /\ (me'[p].pc = "open" => me'[p].goal = "index")
      BY <1>7, Effect_WriteFails, ResumePlaces, Typed, Idling DEF GivesUp, Ends
    <3>2. f = Index
      BY <2>1, <3>1 DEF Writes, Writing, Target
    <3> QED
      BY <2>1, <3>1, <3>2, ConstantsAssumption DEF Kept, Own
  <2>2. CASE q # p
    <3>1. me'[q] = me[q] /\ Writes(q, f) /\ temp'[f] = temp[f] /\ disk'[f] = disk[f]
      BY <1>7, <2>2, Effect_WriteFails DEF Others, Writes, Target
    <3>2. Calm(f)
      BY <3>1, CalmBefore DEF Writes, Writing
    <3> QED
      BY <3>1, <3>2, WriterKept
  <2> QED
    BY <2>1, <2>2
<1>8. ASSUME NEW p \in Procs, LoadIndex(p)
      PROVE CalmWriter(f, q)'
  <2> SUFFICES ASSUME Calm(f)', Writes(q, f)'
               PROVE  Kept(f, q)
    BY UniqueWriter DEF CalmWriter, Kept, Own, Sole
  <2>1. CASE q = p
    <3>1. me'[p].pc \in {"open", "fetch", "scan"} /\ (me'[p].pc = "open" => me'[p].goal = "index")
      BY <1>8, Effect_LoadIndex DEF Resumes
    <3>2. f = Index
      BY <2>1, <3>1 DEF Writes, Writing, Target
    <3> QED
      BY <2>1, <3>1, <3>2, ConstantsAssumption DEF Kept, Own
  <2>2. CASE q # p
    <3>1. me'[q] = me[q] /\ Writes(q, f) /\ temp'[f] = temp[f] /\ disk'[f] = disk[f]
      BY <1>8, <2>2, Effect_LoadIndex DEF Others, Writes, Target
    <3>2. Calm(f)
      BY <3>1, CalmBefore DEF Writes, Writing
    <3> QED
      BY <3>1, <3>2, WriterKept
  <2> QED
    BY <2>1, <2>2
<1>9. ASSUME NEW p \in Procs, Scan(p)
      PROVE CalmWriter(f, q)'
  <2> SUFFICES ASSUME Calm(f)', Writes(q, f)'
               PROVE  Kept(f, q)
    BY UniqueWriter DEF CalmWriter, Kept, Own, Sole
  <2>1. CASE q = p
    BY <1>9, <2>1, Effect_Scan DEF Writes, Writing, Ends, Idle
  <2>2. CASE q # p
    <3>1. me'[q] = me[q] /\ Writes(q, f) /\ temp'[f] = temp[f] /\ disk'[f] = disk[f]
      BY <1>9, <2>2, Effect_Scan DEF Others, Writes, Target
    <3>2. Calm(f)
      BY <3>1, CalmBefore DEF Writes, Writing
    <3> QED
      BY <3>1, <3>2, WriterKept
  <2> QED
    BY <2>1, <2>2
<1>10. ASSUME NEW p \in Procs, Rebuild(p)
       PROVE CalmWriter(f, q)'
  <2> SUFFICES ASSUME Calm(f)', Writes(q, f)'
               PROVE  Kept(f, q)
    BY UniqueWriter DEF CalmWriter, Kept, Own, Sole
  <2>1. CASE q = p
    <3>1. me'[p].pc = "open" /\ me'[p].goal = "rebuild"
      BY <1>10, Effect_Rebuild
    <3>2. f = Index
      BY <2>1, <3>1 DEF Writes, Target
    <3> QED
      BY <2>1, <3>1, <3>2, ConstantsAssumption DEF Kept, Own
  <2>2. CASE q # p
    <3>1. me'[q] = me[q] /\ Writes(q, f) /\ temp'[f] = temp[f] /\ disk'[f] = disk[f]
      BY <1>10, <2>2, Effect_Rebuild DEF Others, Writes, Target
    <3>2. Calm(f)
      BY <3>1, CalmBefore DEF Writes, Writing
    <3> QED
      BY <3>1, <3>2, WriterKept
  <2> QED
    BY <2>1, <2>2
<1>11. ASSUME NEW p \in Procs, Fetch(p)
       PROVE CalmWriter(f, q)'
  <2> SUFFICES ASSUME Calm(f)', Writes(q, f)'
               PROVE  Kept(f, q)
    BY UniqueWriter DEF CalmWriter, Kept, Own, Sole
  <2>1. CASE q = p
    BY <1>11, <2>1, Effect_End DEF Writes, Writing, Ends, Idle
  <2>2. CASE q # p
    <3>1. me'[q] = me[q] /\ Writes(q, f) /\ temp'[f] = temp[f] /\ disk'[f] = disk[f]
      BY <1>11, <2>2, Effect_End DEF Others, Writes, Target
    <3>2. Calm(f)
      BY <3>1, CalmBefore DEF Writes, Writing
    <3> QED
      BY <3>1, <3>2, WriterKept
  <2> QED
    BY <2>1, <2>2
<1>12. ASSUME NEW p \in Procs, Crash(p)
       PROVE CalmWriter(f, q)'
  <2> SUFFICES ASSUME Calm(f)', Writes(q, f)'
               PROVE  Kept(f, q)
    BY UniqueWriter DEF CalmWriter, Kept, Own, Sole
  <2>1. CASE q = p
    BY <1>12, <2>1, Effect_End DEF Writes, Writing, Ends, Idle
  <2>2. CASE q # p
    <3>1. me'[q] = me[q] /\ Writes(q, f) /\ temp'[f] = temp[f] /\ disk'[f] = disk[f]
      BY <1>12, <2>2, Effect_End DEF Others, Writes, Target
    <3>2. Calm(f)
      BY <3>1, CalmBefore DEF Writes, Writing
    <3> QED
      BY <3>1, <3>2, WriterKept
  <2> QED
    BY <2>1, <2>2
<1>13. CASE UNCHANGED vars
  BY <1>13 DEF vars, IInv, Calmness, CalmWriter, Calm, Own, Writes, Target
<1> QED
  BY <1>1, <1>2, <1>3, <1>4, <1>5, <1>6, <1>7, <1>8, <1>9, <1>10, <1>11, <1>12, <1>13 DEF Next

\* Who has the index in hand has no index of its own any more.
LEMMA FreshOnce ==
  ASSUME IInv, NEW p \in Procs, me[p].pc # "idle", NEW idx, Resumes(p, idx), got'[p] = Nothing
  PROVE  Fresh(p)'
BY DEF Resumes, Fresh, Writing, IInv, Tasks, Task

\* Before it loads an index a process has none, nor an answer before it is done.
LEMMA FreshStep ==
  ASSUME IInv, [Next]_vars, NEW q \in Procs
  PROVE  Fresh(q)'
<1>0. Fresh(q) /\ got \in [Procs -> Answers]
  BY DEF IInv, TypeOK
<1>1. ASSUME NEW p \in Procs, NEW r \in Records, BeginSave(p, r)
      PROVE Fresh(q)'
  <2>1. CASE q # p
    BY <1>0, <1>1, <2>1, Effect_BeginSave DEF Others, Keeps, Fresh
  <2>2. CASE q = p
    BY <1>0, <1>1, <2>2, Effect_BeginSave DEF Fresh, Writing
  <2> QED
    BY <2>1, <2>2
<1>2. ASSUME NEW p \in Procs, NEW s \in Scopes, BeginFind(p, s)
      PROVE Fresh(q)'
  <2>1. CASE q # p
    BY <1>0, <1>2, <2>1, Effect_BeginFind DEF Others, Keeps, Fresh
  <2>2. CASE q = p
    BY <1>0, <1>2, <2>2, Effect_BeginFind DEF Fresh, Writing
  <2> QED
    BY <2>1, <2>2
<1>3. ASSUME NEW p \in Procs, Open(p)
      PROVE Fresh(q)'
  <2>1. CASE q # p
    BY <1>0, <1>3, <2>1, Effect_Open DEF Others, Keeps, Fresh
  <2>2. CASE q = p
    BY <1>0, <1>3, <2>2, Effect_Open DEF Fresh, Writing, Keeps
  <2> QED
    BY <2>1, <2>2
<1>4. ASSUME NEW p \in Procs, Write(p)
      PROVE Fresh(q)'
  <2>1. CASE q # p
    BY <1>0, <1>4, <2>1, Effect_Write DEF Others, Keeps, Fresh
  <2>2. CASE q = p
    BY <1>0, <1>4, <2>2, Effect_Write DEF Fresh, Writing, Keeps
  <2> QED
    BY <2>1, <2>2
<1>5. ASSUME NEW p \in Procs, Rename(p)
      PROVE Fresh(q)'
  <2>1. CASE q # p
    BY <1>0, <1>5, <2>1, Effect_Rename DEF Others, Keeps, Fresh
  <2>2. CASE q = p
    <3>1. got'[p] = Nothing
      BY <1>0, <1>5, <2>2, Effect_Rename DEF Fresh
    <3>2. CASE me[p].goal = "record"
      BY <1>0, <1>5, <2>2, <3>1, <3>2, Effect_Rename DEF Fresh, Writing
    <3>3. CASE me[p].goal = "rebuild"
      BY <1>5, <2>2, <3>1, <3>3, Effect_Rename, FreshOnce
    <3>4. CASE me[p].goal = "index"
      BY <1>5, <2>2, <3>4, Effect_Rename, Idling DEF Fresh, Writing, Ends
    <3> QED
      BY <3>2, <3>3, <3>4, Typed DEF Locals
  <2> QED
    BY <2>1, <2>2
<1>6. ASSUME NEW p \in Procs, RenameFails(p)
      PROVE Fresh(q)'
  <2>1. CASE q # p
    BY <1>0, <1>6, <2>1, Effect_RenameFails DEF Others, Keeps, Fresh
  <2>2. CASE q = p
    <3>1. got'[p] = Nothing
      BY <1>0, <1>6, <2>2, Effect_RenameFails DEF Fresh
    <3> QED
      BY <1>6, <2>2, <3>1, Effect_RenameFails, FreshOnce, Idling DEF Fresh, Writing, GivesUp, Ends
  <2> QED
    BY <2>1, <2>2
<1>7. ASSUME NEW p \in Procs, WriteFails(p)
      PROVE Fresh(q)'
  <2>1. CASE q # p
    BY <1>0, <1>7, <2>1, Effect_WriteFails DEF Others, Keeps, Fresh
  <2>2. CASE q = p
    <3>1. got'[p] = Nothing
      BY <1>0, <1>7, <2>2, Effect_WriteFails DEF Fresh
    <3> QED
      BY <1>7, <2>2, <3>1, Effect_WriteFails, FreshOnce, Idling DEF Fresh, Writing, GivesUp, Ends
  <2> QED
    BY <2>1, <2>2
<1>8. ASSUME NEW p \in Procs, LoadIndex(p)
      PROVE Fresh(q)'
  <2>1. CASE q # p
    BY <1>0, <1>8, <2>1, Effect_LoadIndex DEF Others, Keeps, Fresh
  <2>2. CASE q = p
    <3>1. got'[p] = Nothing
      BY <1>0, <1>8, <2>2, Effect_LoadIndex DEF Fresh
    <3> QED
      BY <1>8, <2>2, <3>1, Effect_LoadIndex, FreshOnce DEF Fresh, Writing
  <2> QED
    BY <2>1, <2>2
<1>9. ASSUME NEW p \in Procs, Scan(p)
      PROVE Fresh(q)'
  <2>1. CASE q # p
    BY <1>0, <1>9, <2>1, Effect_Scan DEF Others, Keeps, Fresh
  <2>2. CASE q = p
    BY <1>0, <1>9, <2>2, Effect_Scan DEF Fresh, Writing
  <2> QED
    BY <2>1, <2>2
<1>10. ASSUME NEW p \in Procs, Rebuild(p)
       PROVE Fresh(q)'
  <2>1. CASE q # p
    BY <1>0, <1>10, <2>1, Effect_Rebuild DEF Others, Keeps, Fresh
  <2>2. CASE q = p
    BY <1>0, <1>10, <2>2, Effect_Rebuild DEF Fresh, Writing
  <2> QED
    BY <2>1, <2>2
<1>11. ASSUME NEW p \in Procs, Fetch(p)
       PROVE Fresh(q)'
  <2>1. CASE q # p
    BY <1>0, <1>11, <2>1, Effect_End DEF Others, Keeps, Fresh
  <2>2. CASE q = p
    BY <1>11, <2>2, Effect_End, Idling DEF Fresh, Writing, Ends
  <2> QED
    BY <2>1, <2>2
<1>12. ASSUME NEW p \in Procs, Crash(p)
       PROVE Fresh(q)'
  <2>1. CASE q # p
    BY <1>0, <1>12, <2>1, Effect_End DEF Others, Keeps, Fresh
  <2>2. CASE q = p
    BY <1>12, <2>2, Effect_End, Idling DEF Fresh, Writing, Ends
  <2> QED
    BY <2>1, <2>2
<1>13. CASE UNCHANGED vars
  BY <1>0, <1>13 DEF vars, Fresh
<1> QED
  BY <1>1, <1>2, <1>3, <1>4, <1>5, <1>6, <1>7, <1>8, <1>9, <1>10, <1>11, <1>12, <1>13 DEF Next

-----------------------------------------------------------------------------
(* The entries that stand *)

\* What stands is told from the files alone.
LEMMA EntryKept ==
  disk' = disk => /\ \A s : Entry(s)' = Entry(s) /\ Readable(s)' = Readable(s)
                  /\ Lost' = Lost
BY DEF Entry, Readable, Lost

\* An index that can be read stands as it is, one that is missing is empty.
LEMMA EntryOf ==
  ASSUME NEW s \in Scopes
  PROVE  /\ disk[Index] = Absent => Entry(s) = NoEntries[s]
         /\ disk[Index] \in IndexFiles => Entry(s) = disk[Index].entries[s]
BY FilesAssumption DEF Entry, NoEntries

\* The greatest of a set of records is its Max.
LEMMA MaxIs ==
  ASSUME NEW S \in SUBSET Nat, NEW g \in S, \A r \in S : r <= g
  PROVE  Max(S) = g
<1>1. g \in S /\ \A r \in S : g >= r
  OBVIOUS
<1>2. Max(S) \in S /\ \A r \in S : Max(S) >= r
  BY <1>1, Zenon DEF Max
<1>3. \A m, n \in Nat : m >= n /\ n >= m => m = n
  OBVIOUS
<1> QED
  BY <1>1, <1>2, <1>3

\* A rebuild that is through all files has found what stands.
LEMMA RebuiltStands ==
  ASSUME IInv, NEW p \in Procs, Lost, Rebuilding(me[p]), me[p].names = {},
         NEW s \in Scopes
  PROVE  me[p].idx[s] = Entry(s)
<1>1. Readable(s) \cap Been(me[p]) = Readable(s) /\ Readable(s) \in SUBSET Nat
  BY ConstantsAssumption DEF Been, Readable
<1>2. Entry(s) = IF Readable(s) = {} THEN None ELSE Max(Readable(s))
  BY DEF Lost, Entry
<1> QED
  BY <1>1, <1>2, MaxIs DEF Rebuilding

\* A rebuild begins with nothing.
LEMMA RebuildBegins ==
  ASSUME NEW m, m.idx = NoEntries, m.names = {r \in Records : disk[r] # Absent}
  PROVE  Rebuilding(m)
<1>1. \A s \in Scopes : Readable(s) \cap Been(m) = {}
  BY FilesAssumption DEF Readable, Been
<1> QED
  BY <1>1 DEF Rebuilding, Been, NoEntries

\* One more file is gone through.
LEMMA RebuildGoesOn ==
  ASSUME NEW m \in Locals, NEW n \in Locals, Rebuilding(m), NEW r \in m.names,
         \A q \in m.names : r <= q, n.names = m.names \ {r},
         n.idx = IF disk[r] \in RecordFiles THEN [m.idx EXCEPT ![ScopeOf[r]] = r] ELSE m.idx
  PROVE  Rebuilding(n)
<1>0. /\ m.names \subseteq Records /\ r \in Records /\ ScopeOf[r] \in Scopes
      /\ m.idx \in Entries /\ Records \subseteq Nat
  BY ConstantsAssumption DEF Locals
<1>1. Been(n) = Been(m) \cup {r}
  BY <1>0 DEF Been
<1>2. ASSUME NEW s \in Scopes
      PROVE  LET seen == Readable(s) \cap Been(n) IN
             IF seen = {} THEN n.idx[s] = None
             ELSE n.idx[s] \in seen /\ \A q \in seen : q <= n.idx[s]
  <2> DEFINE old == Readable(s) \cap Been(m)
             seen == Readable(s) \cap Been(n)
  <2>1. IF old = {} THEN m.idx[s] = None
        ELSE m.idx[s] \in old /\ \A q \in old : q <= m.idx[s]
    BY DEF Rebuilding
  <2>2. CASE disk[r] \in RecordFiles /\ ScopeOf[r] = s
    <3>1. seen = old \cup {r}
      BY <1>0, <1>1, <2>2 DEF Readable
    <3>2. n.idx[s] = r
      BY <1>0, <2>2 DEF Entries
    <3>3. \A q \in old : disk[q] # Absent
      BY FilesAssumption DEF Readable
    <3>4. \A q \in old : q < r
      BY <3>3 DEF Rebuilding
    <3>5. \A q \in seen : q <= r
      BY <1>0, <3>1, <3>4 DEF Readable
    <3> QED
      BY <3>1, <3>2, <3>5
  <2>3. CASE ~(disk[r] \in RecordFiles /\ ScopeOf[r] = s)
    <3>1. seen = old
      BY <1>1, <2>3 DEF Readable
    <3>2. n.idx[s] = m.idx[s]
      BY <1>0, <2>3 DEF Entries
    <3> QED
      BY <2>1, <3>1, <3>2
  <2> QED
    BY <2>2, <2>3
<1>3. ASSUME NEW x \in n.names, NEW q \in Been(n), disk[q] # Absent
      PROVE  q < x
  <2>1. x \in m.names /\ x # r /\ r <= x /\ x \in Nat /\ r \in Nat
    BY <1>0
  <2>2. CASE q = r
    <3>1. r < x
      BY <2>1
    <3> QED
      BY <2>2, <3>1
  <2>3. CASE q \in Been(m)
    BY <1>3, <2>1, <2>3 DEF Rebuilding
  <2> QED
    BY <1>1, <2>2, <2>3
<1> QED
  BY <1>2, <1>3 DEF Rebuilding

\* Who gets an index that holds what stands has its turn in order.
LEMMA TurnWithIndex ==
  ASSUME IInv, NEW p \in Procs, me[p].pc # "idle", NEW idx \in Entries, Resumes(p, idx),
         \A s \in Scopes : idx[s] = Entry(s)',
         me[p].task = "save" => disk'[me[p].rec] = RecordFile(me[p].rec, me[p].version)
  PROVE  Turn(p)'
<1>1. Task(p)
  BY DEF IInv, Tasks
<1>2. CASE me[p].task = "save"
  <2>1. /\ me'[p].pc = "open" /\ me'[p].goal = "index" /\ me'[p].rec = me[p].rec
        /\ me'[p].version = me[p].version /\ me'[p].scope = me[p].scope
        /\ me'[p].out.entries = [idx EXCEPT ![me[p].scope] = me[p].rec]
    BY <1>2, EntriesOf DEF Resumes
  <2>2. /\ me'[p].out.entries[me[p].scope] = me[p].rec
        /\ \A s \in Scopes \ {me[p].scope} : me'[p].out.entries[s] = idx[s]
    BY <1>1, <2>1 DEF Task, Entries
  <2> QED
    BY <1>2, <2>1, <2>2 DEF Turn, Writing
<1>3. CASE me[p].task # "save"
  <2>1. /\ me'[p].pc = "fetch" /\ me'[p].rec = idx[me[p].scope]
        /\ me'[p].scope = me[p].scope /\ me'[p].task # "save"
    BY <1>3 DEF Resumes
  <2>2. me'[p].rec = Entry(me[p].scope)'
    BY <1>1, <2>1 DEF Task
  <2> QED
    BY <2>1, <2>2 DEF Turn, Writing
<1> QED
  BY <1>2, <1>3

\* What p has in hand agrees with the files if neither changes.
LEMMA TurnKept ==
  ASSUME NEW p \in Procs, Turn(p), ~overlapped, disk' = disk, Keeps(p),
         me[p].pc \in Writing, me'[p].pc \in Writing
  PROVE  Turn(p)'
BY EntryKept DEF Turn, Keeps, Writing

\* What p has in hand agrees with the files while it takes its turn.
LEMMA TurnStep ==
  ASSUME IInv, [Next]_vars, NEW q \in Procs
  PROVE  Turn(q)'
<1>0. ASSUME NEW p \in Procs, q # p, me[p].pc # "idle", ~overlapped, me'[q].pc = me[q].pc
      PROVE  Turn(q)'
  <2>1. me'[q].pc = "idle"
    BY <1>0 DEF IInv, Turns, Single
  <2> QED
    BY <2>1 DEF Turn, Writing
<1>1. ASSUME NEW p \in Procs, NEW r \in Records, BeginSave(p, r)
      PROVE Turn(q)'
  <2> SUFFICES ASSUME ~overlapped' PROVE Turn(q)'
    BY DEF Turn
  <2>1. CASE q # p
    <3>1. me'[q].pc = "idle"
      BY <1>1, <2>1, Effect_BeginSave DEF Others
    <3> QED
      BY <3>1 DEF Turn, Writing
  <2>2. CASE q = p
    BY <1>1, <2>2, Effect_BeginSave DEF Turn, Writing
  <2> QED
    BY <2>1, <2>2
<1>2. ASSUME NEW p \in Procs, NEW s \in Scopes, BeginFind(p, s)
      PROVE Turn(q)'
  <2> SUFFICES ASSUME ~overlapped' PROVE Turn(q)'
    BY DEF Turn
  <2>1. CASE q # p
    <3>1. me'[q].pc = "idle"
      BY <1>2, <2>1, Effect_BeginFind DEF Others
    <3> QED
      BY <3>1 DEF Turn, Writing
  <2>2. CASE q = p
    BY <1>2, <2>2, Effect_BeginFind DEF Turn, Writing
  <2> QED
    BY <2>1, <2>2
<1>3. ASSUME NEW p \in Procs, Open(p)
      PROVE Turn(q)'
  <2> SUFFICES ASSUME ~overlapped' PROVE Turn(q)'
    BY DEF Turn
  <2>1. CASE q # p
    BY <1>0, <1>3, <2>1, Effect_Open DEF Others
  <2>2. CASE q = p
    <3>0. ~overlapped /\ me[p].pc # "idle" /\ Turn(p) /\ Task(p)
      BY <1>3, Effect_Open DEF IInv, Turns, Tasks
    <3>1. Target(p) \in Files /\ Writes(p, Target(p)) /\ Calm(Target(p))
      BY <1>3, <3>0, Effect_Open, OutIsWhole DEF Writing, Writes, Calm
    <3>2. disk' = disk
      BY <1>3, <3>1, Effect_Open, CalmWrites
    <3>3. Keeps(p) /\ me[p].pc \in Writing /\ me'[p].pc \in Writing
      BY <1>3, Effect_Open DEF Writing
    <3> QED
      BY <2>2, <3>0, <3>2, <3>3, TurnKept
  <2> QED
    BY <2>1, <2>2
<1>4. ASSUME NEW p \in Procs, Write(p)
      PROVE Turn(q)'
  <2> SUFFICES ASSUME ~overlapped' PROVE Turn(q)'
    BY DEF Turn
  <2>1. CASE q # p
    BY <1>0, <1>4, <2>1, Effect_Write DEF Others
  <2>2. CASE q = p
    <3>0. ~overlapped /\ me[p].pc # "idle" /\ Turn(p) /\ Task(p)
      BY <1>4, Effect_Write DEF IInv, Turns, Tasks
    <3>1. Target(p) \in Files /\ Writes(p, Target(p)) /\ Calm(Target(p))
      BY <1>4, <3>0, Effect_Write, OutIsWhole DEF Writing, Writes, Calm
    <3>2. disk' = disk
      BY <1>4, <3>1, Effect_Write, CalmWrites
    <3>3. Keeps(p) /\ me[p].pc \in Writing /\ me'[p].pc \in Writing
      BY <1>4, Effect_Write DEF Writing
    <3> QED
      BY <2>2, <3>0, <3>2, <3>3, TurnKept
  <2> QED
    BY <2>1, <2>2
<1>5. ASSUME NEW p \in Procs, Rename(p)
      PROVE Turn(q)'
  <2> SUFFICES ASSUME ~overlapped' PROVE Turn(q)'
    BY DEF Turn
  <2>1. CASE q # p
    BY <1>0, <1>5, <2>1, Effect_Rename DEF Others
  <2>2. CASE q = p
    <3>0. ~overlapped /\ me[p].pc # "idle" /\ Turn(p) /\ Task(p)
      BY <1>5, Effect_Rename DEF IInv, Turns, Tasks
    <3>1. /\ Target(p) \in Files /\ Writes(p, Target(p)) /\ me[p].pc \in Writing
          /\ disk' = [disk EXCEPT ![Target(p)] = me[p].out]
      BY <1>5, <3>0, Effect_Rename, OutIsWhole, CalmWrites DEF Writing, Writes, Calm
    <3>2. disk'[Target(p)] = me[p].out
      BY <3>1 DEF IInv, TypeOK
    <3>3. CASE me[p].goal = "index"
      <4>1. me'[p] = Idle
        BY <1>5, <3>3, Effect_Rename DEF Ends
      <4> QED
        BY <2>2, <4>1, Idling DEF Turn, Writing
    <3>4. CASE me[p].goal = "record"
      <4>1. /\ me'[p].pc = "load" /\ me'[p].rec = me[p].rec /\ me'[p].version = me[p].version
        BY <1>5, <3>4, Effect_Rename
      <4>2. Target(p) = me[p].rec /\ me[p].out = RecordFile(me[p].rec, me[p].version)
        BY <3>0, <3>1, <3>4 DEF Task, Target
      <4> QED
        BY <2>2, <3>2, <4>1, <4>2 DEF Turn, Writing
    <3>5. CASE me[p].goal = "rebuild"
      <4>1. me[p].out = IndexFile(me[p].idx)
        BY <3>0, <3>1, <3>5 DEF Turn
      <4>2. Resumes(p, me[p].idx)
        BY <1>5, <3>5, Effect_Rename
      <4>3. Target(p) = Index /\ me[p].out \in IndexFiles
        BY <3>1, <3>5, OutIsWhole
      <4>4. me[p].out.entries = me[p].idx
        BY <4>1, EntriesOf
      <4>5. /\ Target(p) = Index /\ me[p].out \in IndexFiles
            /\ me[p].out.entries = me[p].idx /\ Resumes(p, me[p].idx)
        BY <4>2, <4>3, <4>4
      <4>6. \A s \in Scopes : me[p].idx[s] = Entry(s)'
        BY <3>2, <4>5, EntryOf, FilesAssumption DEF Entry
      <4>7. me[p].task = "save" => disk'[me[p].rec] = RecordFile(me[p].rec, me[p].version)
        <5>1. me[p].task = "save" => disk[me[p].rec] = RecordFile(me[p].rec, me[p].version)
          BY <3>0, <3>1, <3>5 DEF Turn
        <5>2. me[p].task = "save" => me[p].rec # Index
          BY <3>0, ConstantsAssumption DEF Task
        <5> QED
          BY <3>1, <4>5, <5>1, <5>2
      <4> QED
        BY <2>2, <3>0, <4>5, <4>6, <4>7, Typed, TurnWithIndex
    <3> QED
      BY <3>3, <3>4, <3>5, Typed DEF Locals
  <2> QED
    BY <2>1, <2>2
<1>6. ASSUME NEW p \in Procs, RenameFails(p)
      PROVE Turn(q)'
  <2> SUFFICES ASSUME ~overlapped' PROVE Turn(q)'
    BY DEF Turn
  <2>1. CASE q # p
    BY <1>0, <1>6, <2>1, Effect_RenameFails DEF Others
  <2>2. CASE q = p
    <3>0. ~overlapped /\ me[p].pc # "idle" /\ Turn(p) /\ Task(p)
      BY <1>6, Effect_RenameFails DEF IInv, Turns, Tasks
    <3>1. Target(p) \in Files /\ Writes(p, Target(p)) /\ Calm(Target(p)) /\ me[p].out # Absent
      BY <1>6, <3>0, Effect_RenameFails, OutIsWhole DEF Writing, Writes, Calm
    <3> QED
      BY <1>6, <3>1, Effect_RenameFails, CalmWrites
  <2> QED
    BY <2>1, <2>2
<1>7. ASSUME NEW p \in Procs, WriteFails(p)
      PROVE Turn(q)'
  <2> SUFFICES ASSUME ~overlapped' PROVE Turn(q)'
    BY DEF Turn
  <2>1. CASE q # p
    BY <1>0, <1>7, <2>1, Effect_WriteFails DEF Others
  <2>2. CASE q = p
    <3>0. ~overlapped /\ me[p].pc # "idle" /\ Turn(p) /\ Task(p)
      BY <1>7, Effect_WriteFails DEF IInv, Turns, Tasks
    <3>1. me[p].pc \in Writing /\ disk' = disk
      BY <1>7, Effect_WriteFails DEF Writing
    <3>2. CASE me[p].goal = "rebuild"
      <4>1. Resumes(p, me[p].idx)
        BY <1>7, <3>2, Effect_WriteFails DEF GivesUp
      <4>2. \A s \in Scopes : me[p].idx[s] = Entry(s)'
        BY <3>0, <3>1, <3>2, EntryKept DEF Turn
      <4>3. me[p].task = "save" => disk'[me[p].rec] = RecordFile(me[p].rec, me[p].version)
        BY <3>0, <3>1, <3>2 DEF Turn
      <4> QED
        BY <2>2, <3>0, <4>1, <4>2, <4>3, Typed, TurnWithIndex
    <3>3. CASE me[p].goal # "rebuild"
      <4>1. me'[p] = Idle
        BY <1>7, <3>3, Effect_WriteFails DEF GivesUp, Ends
      <4> QED
        BY <2>2, <4>1, Idling DEF Turn, Writing
    <3> QED
      BY <3>2, <3>3
  <2> QED
    BY <2>1, <2>2
<1>8. ASSUME NEW p \in Procs, LoadIndex(p)
      PROVE Turn(q)'
  <2> SUFFICES ASSUME ~overlapped' PROVE Turn(q)'
    BY DEF Turn
  <2>1. CASE q # p
    BY <1>0, <1>8, <2>1, Effect_LoadIndex DEF Others
  <2>2. CASE q = p
    <3>0. ~overlapped /\ me[p].pc # "idle" /\ Turn(p) /\ Task(p)
      BY <1>8, Effect_LoadIndex DEF IInv, Turns, Tasks
    <3>1. disk' = disk /\ me[p].pc = "load" /\ (\A s \in Scopes : Entry(s)' = Entry(s)) /\ Lost' = Lost
      BY <1>8, Effect_LoadIndex, EntryKept
    <3>2. me[p].task = "save" => disk'[me[p].rec] = RecordFile(me[p].rec, me[p].version)
      BY <3>0, <3>1 DEF Turn
    <3>3. CASE disk[Index] = Absent /\ Resumes(p, NoEntries)
      <4>1. \A s \in Scopes : NoEntries[s] = Entry(s)'
        BY <3>1, <3>3, EntryOf
      <4> QED
        BY <2>2, <3>0, <3>2, <3>3, <4>1, NothingIsHonest, TurnWithIndex
    <3>4. CASE disk[Index] \in IndexFiles /\ Resumes(p, disk[Index].entries)
      <4>1. disk[Index].entries \in Entries
        BY <3>4 DEF IndexFiles
      <4>2. \A s \in Scopes : disk[Index].entries[s] = Entry(s)'
        BY <3>1, <3>4, EntryOf
      <4> QED
        BY <2>2, <3>0, <3>2, <3>4, <4>1, <4>2, TurnWithIndex
    <3>5. CASE /\ Lost /\ me'[p].pc = "scan" /\ Keeps(p)
               /\ me'[p].names = {r \in Records : disk[r] # Absent}
      <4>1. me'[p].idx = NoEntries
        BY <3>1, <3>5 DEF Keeps, IInv, Fresh
      <4>2. Rebuilding(me'[p])
        BY <3>5, <4>1, RebuildBegins
      <4>3. Rebuilding(me[p])'
        BY <3>1, <4>2, EntryKept DEF Rebuilding, Been
      <4> QED
        BY <2>2, <3>1, <3>2, <3>5, <4>3 DEF Turn, Keeps, Writing
    <3> QED
      BY <1>8, <3>3, <3>4, <3>5, Effect_LoadIndex DEF Lost
  <2> QED
    BY <2>1, <2>2
<1>9. ASSUME NEW p \in Procs, Scan(p)
      PROVE Turn(q)'
  <2> SUFFICES ASSUME ~overlapped' PROVE Turn(q)'
    BY DEF Turn
  <2>1. CASE q # p
    BY <1>0, <1>9, <2>1, Effect_Scan DEF Others
  <2>2. CASE q = p
    <3>0. ~overlapped /\ me[p].pc # "idle" /\ Turn(p) /\ Task(p)
      BY <1>9, Effect_Scan DEF IInv, Turns, Tasks
    <3>1. disk' = disk /\ me[p].pc = "scan" /\ Lost' = Lost /\ Rebuilding(me[p]) /\ Lost
      BY <1>9, <3>0, Effect_Scan, EntryKept DEF Turn
    <3>2. Rebuilding(me'[p])
      BY <1>9, <3>1, Effect_Scan, RebuildGoesOn, Typed
    <3>3. Rebuilding(me[p])'
      BY <3>1, <3>2, EntryKept DEF Rebuilding, Been
    <3> QED
      BY <1>9, <2>2, <3>0, <3>1, <3>3, Effect_Scan DEF Turn, Writing
  <2> QED
    BY <2>1, <2>2
<1>10. ASSUME NEW p \in Procs, Rebuild(p)
       PROVE Turn(q)'
  <2> SUFFICES ASSUME ~overlapped' PROVE Turn(q)'
    BY DEF Turn
  <2>1. CASE q # p
    BY <1>0, <1>10, <2>1, Effect_Rebuild DEF Others
  <2>2. CASE q = p
    <3>0. ~overlapped /\ me[p].pc # "idle" /\ Turn(p) /\ Task(p)
      BY <1>10, Effect_Rebuild DEF IInv, Turns, Tasks
    <3>1. /\ disk' = disk /\ me[p].pc = "scan" /\ me[p].names = {}
          /\ Lost /\ Lost' /\ Rebuilding(me[p])
      BY <1>10, <3>0, Effect_Rebuild, EntryKept DEF Turn, Rebuild
    <3>2. \A s \in Scopes : me[p].idx[s] = Entry(s)'
      BY <3>1, RebuiltStands, EntryKept
    <3> QED
      BY <1>10, <2>2, <3>0, <3>1, <3>2, Effect_Rebuild DEF Turn, Writing
  <2> QED
    BY <2>1, <2>2
<1>11. ASSUME NEW p \in Procs, Fetch(p)
       PROVE Turn(q)'
  <2> SUFFICES ASSUME ~overlapped' PROVE Turn(q)'
    BY DEF Turn
  <2>1. CASE q # p
    BY <1>0, <1>11, <2>1, Effect_End DEF Others
  <2>2. CASE q = p
    BY <1>11, <2>2, Effect_End, Idling DEF Turn, Writing, Ends
  <2> QED
    BY <2>1, <2>2
<1>12. ASSUME NEW p \in Procs, Crash(p)
       PROVE Turn(q)'
  <2> SUFFICES ASSUME ~overlapped' PROVE Turn(q)'
    BY DEF Turn
  <2>1. CASE q # p
    BY <1>0, <1>12, <2>1, Effect_End DEF Others
  <2>2. CASE q = p
    BY <1>12, <2>2, Effect_End, Idling DEF Turn, Writing, Ends
  <2> QED
    BY <2>1, <2>2
<1>13. CASE UNCHANGED vars
  BY <1>13, EntryKept DEF vars, IInv, Turns, Turn, Rebuilding
<1> QED
  BY <1>1, <1>2, <1>3, <1>4, <1>5, <1>6, <1>7, <1>8, <1>9, <1>10, <1>11, <1>12, <1>13 DEF Next

\* Records of one process advance.
LEMMA Advance ==
  ASSUME IInv, [Next]_vars, NEW r \in Records, Own(r), disk[r] # Absent
  PROVE  /\ disk[r] \in RecordFiles /\ disk'[r] \in RecordFiles
         /\ disk[r].version <= disk'[r].version
<1>1. r \in Files /\ r # Index /\ Calm(r)
  BY ConstantsAssumption DEF Files, Calm
<1>2. disk[r] \in RecordFiles
  BY <1>1 DEF IInv, Calmness, CalmFile
<1>3. CASE disk'[r] = disk[r]
  BY <1>2, <1>3 DEF RecordFiles
<1>4. ASSUME NEW p \in Procs, Writes(p, r), disk'[r] = me[p].out
      PROVE  disk'[r] \in RecordFiles /\ disk[r].version <= disk'[r].version
  <2>1. me[p].goal = "record" /\ me[p].out \in RecordFiles
    BY <1>1, <1>4, OutIsWhole DEF Writes
  <2>2. me[p].out = RecordFile(me[p].rec, me[p].version)
    BY <1>4, <2>1 DEF Writes, IInv, Tasks, Task, Writing
  <2>3. me[p].out.version = me[p].version
    BY <2>2 DEF RecordFile
  <2> QED
    BY <1>1, <1>4, <2>1, <2>3, CalmWrites
<1> QED
  BY <1>1, <1>2, <1>3, <1>4, CalmChanges

-----------------------------------------------------------------------------
\* The invariant, for every step.
LEMMA IInvStep == ASSUME IInv, [Next]_vars PROVE IInv'
<1>1. TypeOK'
  BY FileTypeStep, LocalTypeStep, RestTypeStep, FlagTypeStep DEF TypeOK
<1>2. Tasks' /\ Honesty' /\ FindIsSound'
  BY TaskStep, IndexStep, StandStep, FindStep DEF Tasks, Honesty
<1>3. Calmness' /\ Turns' /\ \A p \in Procs : Fresh(p)'
  BY CalmFileStep, CalmWriterStep, SingleStep, TurnStep, FreshStep DEF Calmness, Turns
<1> QED
  BY <1>1, <1>2, <1>3 DEF IInv

THEOREM Invariance == Spec => []IInv
<1>1. IInv /\ [Next]_vars => IInv'
  BY IInvStep
<1> QED
  BY IInvInit, <1>1, PTL DEF Spec

\* Files, locals and answers are of their kind.
THEOREM TypeCorrect == Spec => []TypeOK
<1>1. IInv => TypeOK
  BY DEF IInv
<1> QED
  BY Invariance, <1>1, PTL

\* However many processes save and find at once and wherever they are killed, a
\* readable index names only records that are there (Save 49-66).
THEOREM IndexIsHonest == Spec => []IndexHonest
<1>1. IInv => IndexHonest
  BY DEF IInv, Honesty, IndexStands, Honest, IndexHonest
<1> QED
  BY Invariance, <1>1, PTL

\* The record Find goes for is there, though the index was read earlier.
THEOREM FindsAreSound == Spec => []FindIsSound
<1>1. IInv => FindIsSound
  BY DEF IInv
<1> QED
  BY Invariance, <1>1, PTL

\* A record with one saver is never torn, lost or set back, whatever others do
\* (Save 45-48).
THEOREM SoleRecordsAdvance == Spec => RecordsAdvance
<1> DEFINE Advances == \A r \in Records : Sole(r) /\ disk[r] # Absent =>
                         /\ disk[r] \in RecordFiles /\ disk'[r] \in RecordFiles
                         /\ disk[r].version <= disk'[r].version
<1>1. ASSUME IInv, [Next]_vars PROVE Advances
  BY <1>1, Advance DEF Own
<1>2. IInv /\ [Next]_vars => [Advances]_vars
  BY <1>1
<1> QED
  BY Invariance, <1>2, PTL DEF Spec, RecordsAdvance

-----------------------------------------------------------------------------
(* The files implement the map of StoreContract *)

\* A finite set of naturals that is not empty has a greatest element, and Max
\* is it.
LEMMA MaxOfFinite ==
  ASSUME NEW S \in SUBSET Nat, S # {}, IsFiniteSet(S)
  PROVE  Max(S) \in S /\ \A r \in S : r <= Max(S)
<1> DEFINE n == Cardinality(S)
<1>1. n \in Nat /\ \E f : f \in Bijection(1..n, S)
  BY FS_CardinalityType DEF ExistsBijection
<1>2. PICK f : f \in Bijection(1..n, S)
  BY <1>1
<1>3. f \in [1..n -> S] /\ \A r \in S : \E i \in 1..n : f[i] = r
  BY <1>2 DEF Bijection, Injection, Surjection
<1> HIDE DEF n
<1> DEFINE Tops(m) == \E b \in S : \A i \in 1..n : m < i => f[i] <= b
           D == {m \in Nat : Tops(m)}
           R == {w \in Nat \X Nat : w[1] < w[2]}
<1>4. n \in D
  <2>1. PICK b \in S : TRUE
    OBVIOUS
  <2>2. \A i \in 1..n : ~(n < i)
    BY <1>1
  <2> QED
    BY <1>1, <2>1, <2>2
<1>5. PICK m \in D : \A k \in D : ~(<<k, m>> \in R)
  <2>1. IsWellFoundedOn(R, Nat)
    <3>1. R = OpToRel(<, Nat)
      BY DEF OpToRel
    <3> HIDE DEF R
    <3> QED
      BY <3>1, NatLessThanWellFounded
  <2>2. D \in SUBSET Nat /\ D # {}
    BY <1>4
  <2> HIDE DEF D, R
  <2> QED
    BY <2>1, <2>2, WFMin
<1>6. m \in Nat /\ \A k \in D : ~(k < m)
  BY <1>5
<1>7. PICK b \in S : \A i \in 1..n : m < i => f[i] <= b
  BY <1>5
<1>8. m = 0
  <2>0. SUFFICES ASSUME m # 0 PROVE FALSE
    OBVIOUS
  <2>1. m - 1 \in Nat /\ m - 1 < m
    BY <1>6, <2>0
  <2> DEFINE c == IF m \in 1..n /\ b < f[m] THEN f[m] ELSE b
  <2>2. c \in S /\ c \in Nat /\ b \in Nat /\ b <= c /\ (m \in 1..n => f[m] <= c)
    <3>1. b \in Nat /\ (m \in 1..n => f[m] \in S /\ f[m] \in Nat)
      BY <1>3
    <3>2. CASE m \in 1..n /\ b < f[m]
      <4>1. c = f[m]
        BY <3>2
      <4> HIDE DEF c
      <4> QED
        BY <3>1, <3>2, <4>1
    <3>3. CASE ~(m \in 1..n /\ b < f[m])
      <4>1. c = b
        BY <3>3
      <4> HIDE DEF c
      <4> QED
        BY <3>1, <3>3, <4>1
    <3> QED
      BY <3>2, <3>3
  <2> HIDE DEF c
  <2>3. ASSUME NEW i \in 1..n, m - 1 < i PROVE f[i] <= c
    <3>1. CASE i = m
      BY <2>2, <3>1
    <3>2. CASE i # m
      <4>1. m < i
        BY <1>1, <1>6, <2>3, <3>2
      <4>2. f[i] <= b /\ f[i] \in Nat
        BY <1>3, <1>7, <4>1
      <4> QED
        BY <2>2, <4>2
    <3> QED
      BY <3>1, <3>2
  <2>4. m - 1 \in D
    BY <2>1, <2>2, <2>3
  <2> QED
    BY <1>6, <2>1, <2>4
<1>9. \A r \in S : r <= b
  BY <1>1, <1>3, <1>7, <1>8
<1> QED
  BY <1>9, MaxIs

\* An entry names a record of its scope.
LEMMA EntryNames ==
  ASSUME IInv, NEW s \in Scopes
  PROVE  Entry(s) \in Records \cup {None} /\ (Entry(s) # None => ScopeOf[Entry(s)] = s)
<1>1. CASE disk[Index] = Absent
  <2>1. Entry(s) = None
    BY <1>1, FilesAssumption DEF Entry
  <2> QED
    BY <2>1
<1>2. CASE disk[Index] \in IndexFiles
  <2>1. disk[Index].entries \in Entries /\ Entry(s) = disk[Index].entries[s]
    BY <1>2, EntryOf DEF IndexFiles
  <2> QED
    BY <1>2, <2>1 DEF IInv, Honesty, IndexStands, Honest, Entries
<1>3. CASE disk[Index] \notin IndexFiles \cup {Absent}
  <2>1. Entry(s) = IF Readable(s) = {} THEN None ELSE Max(Readable(s))
    BY <1>3 DEF Entry
  <2>2. Readable(s) \in SUBSET Nat /\ IsFiniteSet(Readable(s)) /\ Readable(s) \subseteq Records
    BY ConstantsAssumption, FS_Subset DEF Readable
  <2>3. Readable(s) # {} => Max(Readable(s)) \in Readable(s)
    BY <2>2, MaxOfFinite
  <2> QED
    BY <2>1, <2>2, <2>3 DEF Readable
<1> QED
  BY <1>1, <1>2, <1>3

\* A record written in its place becomes the entry of its scope or it does not.
LEMMA EntryAfterRecord ==
  ASSUME IInv, NEW r \in Records, NEW c \in RecordFiles, disk' = [disk EXCEPT ![r] = c],
         NEW s \in Scopes
  PROVE  Entry(s)' = Entry(s) \/ (s = ScopeOf[r] /\ Entry(s)' = r)
<1>1. disk'[Index] = disk[Index] /\ disk \in [Files -> Contents] /\ r \in Files
  BY ConstantsAssumption DEF IInv, TypeOK, Files
<1>2. CASE disk[Index] \in IndexFiles \cup {Absent}
  BY <1>1, <1>2, FilesAssumption DEF Entry
<1>3. CASE disk[Index] \notin IndexFiles \cup {Absent}
  <2>1. /\ Entry(s) = (IF Readable(s) = {} THEN None ELSE Max(Readable(s)))
        /\ Entry(s)' = (IF Readable(s)' = {} THEN None ELSE Max(Readable(s)'))
    BY <1>1, <1>3 DEF Entry
  <2>2. CASE s # ScopeOf[r]
    <3>1. Readable(s)' = Readable(s)
      BY <1>1, <2>2 DEF Readable, Files
    <3> QED
      BY <2>1, <3>1
  <2>3. CASE s = ScopeOf[r]
    <3> DEFINE A == Readable(s)
               B == A \cup {r}
    <3>1. Readable(s)' = B
      BY <1>1, <2>3 DEF Readable, Files
    <3>2. /\ A \in SUBSET Nat /\ IsFiniteSet(A)
          /\ B \in SUBSET Nat /\ IsFiniteSet(B) /\ B # {}
      <4>1. A \in SUBSET Nat /\ IsFiniteSet(A) /\ r \in Nat
        BY ConstantsAssumption, FS_Subset DEF Readable
      <4> HIDE DEF A
      <4>2. IsFiniteSet(A \cup {r})
        BY <4>1, FS_AddElement
      <4> QED
        BY <4>1, <4>2
    <3> HIDE DEF A
    <3>3. Max(B) \in B /\ \A q \in B : q <= Max(B)
      <4> HIDE DEF B
      <4> QED
        BY <3>2, MaxOfFinite
    <3>4. Max(B) # r => A # {} /\ Max(A) = Max(B)
      BY <3>2, <3>3, MaxIs
    <3> QED
      BY <2>1, <2>3, <3>1, <3>2, <3>4 DEF A
  <2> QED
    BY <2>2, <2>3
<1> QED
  BY <1>2, <1>3

\* A record written in its place is stored under its scope, or cannot be found.
LEMMA StoredAfterRecord ==
  ASSUME IInv, NEW r \in Records, NEW c \in RecordFiles, disk' = [disk EXCEPT ![r] = c]
  PROVE  Stored' = Stored \/ Stored' = [Stored EXCEPT ![ScopeOf[r]] = c]
<1>1. /\ r \in Files /\ r # None /\ ScopeOf[r] \in Scopes
      /\ disk'[r] = c /\ \A q \in Records \ {r} : disk'[q] = disk[q]
  BY ConstantsAssumption DEF IInv, TypeOK, Files
<1>2. ASSUME NEW s \in Scopes, Entry(s)' = Entry(s), Entry(s) # r
      PROVE  Stored'[s] = Stored[s]
  BY <1>1, <1>2, EntryNames DEF Stored
<1>3. ASSUME NEW s \in Scopes, s # ScopeOf[r] PROVE Stored'[s] = Stored[s]
  BY <1>1, <1>2, <1>3, EntryNames, EntryAfterRecord
<1>4. CASE Entry(ScopeOf[r])' = r
  <2>1. Stored'[ScopeOf[r]] = c
    BY <1>1, <1>4 DEF Stored, Content
  <2> QED
    BY <1>1, <1>3, <2>1 DEF Stored
<1>5. CASE Entry(ScopeOf[r])' # r
  <2>1. Entry(ScopeOf[r])' = Entry(ScopeOf[r])
    BY <1>1, <1>5, EntryAfterRecord
  <2>2. \A s \in Scopes : Stored'[s] = Stored[s]
    BY <1>1, <1>2, <1>3, <1>5, <2>1
  <2> QED
    BY <2>2 DEF Stored
<1> QED
  BY <1>4, <1>5

\* What is stored once an index is in its place.
LEMMA StoredAfterIndex ==
  ASSUME IInv, NEW e \in Entries, disk' = [disk EXCEPT ![Index] = IndexFile(e)],
         NEW s \in Scopes
  PROVE  /\ Entry(s)' = e[s]
         /\ Stored'[s] = IF e[s] = None THEN None ELSE Content(disk[e[s]])
<1>1. /\ disk'[Index] = IndexFile(e) /\ \A q \in Records : disk'[q] = disk[q]
      /\ IndexFile(e) \in IndexFiles /\ e[s] \in Records \cup {None}
  BY ConstantsAssumption DEF IInv, TypeOK, Files, IndexFile, IndexFiles, Entries
<1>2. Entry(s)' = e[s]
  BY <1>1, EntriesOf, FilesAssumption DEF Entry
<1> QED
  BY <1>1, <1>2 DEF Stored

\* Nothing is stored elsewhere if no file changes.
LEMMA StoredKept == disk' = disk => Stored' = Stored
BY EntryKept DEF Stored

LEMMA AreMaps ==
  /\ Stored = [s \in Scopes |-> Stored[s]] /\ Stored' = [s \in Scopes |-> Stored'[s]]
  /\ Doing = [q \in Procs |-> Doing[q]] /\ Doing' = [q \in Procs |-> Doing'[q]]
  /\ Found = [q \in Procs |-> Found[q]] /\ Found' = [q \in Procs |-> Found'[q]]
BY DEF Stored, Doing, Found

\* q goes on with its call.
SameCall(q) ==
  /\ me'[q].task = me[q].task /\ me'[q].scope = me[q].scope
  /\ me[q].task = "save" => me'[q].rec = me[q].rec /\ me'[q].version = me[q].version

LEMMA CallsKept ==
  ASSUME NEW p \in Procs, \A q \in Procs \ {p} : SameCall(q)
  PROVE  /\ SameCall(p) => Doing' = Doing
         /\ me'[p] = Idle => Contract!Ends(p)
<1>1. ASSUME NEW q \in Procs, SameCall(q) PROVE Doing'[q] = Doing[q]
  BY <1>1 DEF SameCall, Doing
<1>2. ASSUME SameCall(p) PROVE Doing' = Doing
  BY <1>1, <1>2 DEF Doing
<1>3. ASSUME me'[p] = Idle PROVE Doing' = [Doing EXCEPT ![p] = Contract!Idle]
  <2>1. Doing'[p] = Contract!Idle
    BY <1>3, Idling DEF Doing, Contract!Idle
  <2>2. \A q \in Procs \ {p} : Doing'[q] = Doing[q]
    BY <1>1
  <2> QED
    BY <2>1, <2>2, AreMaps
<1> QED
  BY <1>2, <1>3 DEF Contract!Ends

\* A process is in a call exactly as long as it is at work.
LEMMA CallsOf ==
  ASSUME IInv, NEW p \in Procs
  PROVE  /\ me[p].pc = "idle" <=> Doing[p] = Contract!Idle
         /\ me[p].pc # "idle" /\ me[p].task = "save" =>
              /\ Doing[p] \in Contract!Saves /\ Doing[p].scope = ScopeOf[me[p].rec]
              /\ Doing[p].value = RecordFile(me[p].rec, me[p].version)
         /\ me[p].pc # "idle" /\ me[p].task = "find" =>
              Doing[p] \in Contract!Finds /\ Doing[p].scope = me[p].scope
<1>1. Task(p) /\ Fresh(p) /\ saves \in Nat
  BY Typed DEF IInv, Tasks
<1>2. CASE me[p].pc = "idle"
  BY <1>1, <1>2 DEF Fresh, Doing, Contract!Idle
<1>3. CASE me[p].pc # "idle"
  <2>1. me[p].scope \in Scopes /\ me[p].scope # None
    BY <1>1, <1>3, FilesAssumption, ConstantsAssumption DEF Task
  <2>2. Doing[p] # Contract!Idle
    BY <2>1 DEF Doing, Contract!Idle
  <2>3. me[p].task = "save" => RecordFile(me[p].rec, me[p].version) \in RecordFiles
    BY <1>1, <1>3 DEF Task, RecordFile, RecordFiles
  <2> QED
    BY <1>1, <1>3, <2>1, <2>2, <2>3 DEF Task, Doing, Contract!Saves, Contract!Finds
<1> QED
  BY <1>2, <1>3

Goes(p) ==
  \/ Open(p) \/ Write(p) \/ Rename(p) \/ RenameFails(p) \/ WriteFails(p)
  \/ LoadIndex(p) \/ Scan(p) \/ Rebuild(p) \/ Fetch(p) \/ Crash(p)

\* A process at work goes on with its call or ends it, and leaves the calls of
\* the others alone.
LEMMA Effect_Goes ==
  ASSUME IInv, NEW p \in Procs, Goes(p)
  PROVE  /\ me[p].pc # "idle" /\ overlapped' = overlapped
         /\ \A q \in Procs \ {p} : SameCall(q) /\ got'[q] = got[q]
         /\ SameCall(p) \/ me'[p] = Idle
<1>1. ASSUME Others(p) PROVE \A q \in Procs \ {p} : SameCall(q)
  BY <1>1 DEF Others, SameCall
<1>2. \A q \in Procs : Keeps(q) => SameCall(q)
  BY DEF Keeps, SameCall
<1>3. ASSUME NEW idx, Resumes(p, idx) PROVE SameCall(p)
  BY <1>3 DEF Resumes, SameCall
<1>4. GivesUp(p) => SameCall(p) \/ me'[p] = Idle
  BY <1>3 DEF GivesUp, Ends
<1>5. CASE Open(p)
  BY <1>1, <1>2, <1>5, Effect_Open
<1>6. CASE Write(p)
  BY <1>1, <1>2, <1>6, Effect_Write
<1>7. CASE Rename(p)
  <2>1. SameCall(p) \/ me'[p] = Idle
    <3>1. CASE me[p].goal = "record"
      BY <1>7, <3>1, Effect_Rename DEF SameCall
    <3>2. CASE me[p].goal = "rebuild"
      BY <1>3, <1>7, <3>2, Effect_Rename
    <3>3. CASE me[p].goal = "index"
      BY <1>7, <3>3, Effect_Rename DEF Ends
    <3> QED
      BY <3>1, <3>2, <3>3, Typed DEF Locals
  <2> QED
    BY <1>2, <1>7, <2>1, Effect_Rename
<1>8. CASE RenameFails(p)
  BY <1>1, <1>4, <1>8, Effect_RenameFails
<1>9. CASE WriteFails(p)
  BY <1>1, <1>4, <1>9, Effect_WriteFails
<1>10. CASE LoadIndex(p)
  BY <1>1, <1>2, <1>3, <1>10, Effect_LoadIndex
<1>11. CASE Scan(p)
  BY <1>1, <1>11, Effect_Scan DEF SameCall
<1>12. CASE Rebuild(p)
  BY <1>1, <1>12, Effect_Rebuild DEF SameCall
<1>13. CASE Fetch(p) \/ Crash(p)
  BY <1>1, <1>13, Effect_End DEF Ends
<1> QED
  BY <1>5, <1>6, <1>7, <1>8, <1>9, <1>10, <1>11, <1>12, <1>13 DEF Goes

-----------------------------------------------------------------------------
(* Each step of a process as one of the contract *)

LEMMA ContractInit == Init => Contract!Init
<1> SUFFICES ASSUME Init PROVE Contract!Init
  OBVIOUS
<1>1. Stored = [s \in Scopes |-> None]
  <2>1. \A s \in Scopes : Entry(s) = None
    BY FilesAssumption DEF Init, Files, Entry
  <2> QED
    BY <2>1 DEF Stored
<1>2. Doing = [p \in Procs |-> Contract!Idle]
  BY Idling DEF Init, Doing, Contract!Idle
<1>3. Found = [p \in Procs |-> None]
  BY DEF Init, Found, Nothing, Content
<1>4. (~overlapped) = TRUE
  BY DEF Init
<1> QED
  BY <1>1, <1>2, <1>3, <1>4 DEF Contract!Init

\* A process that starts begins a call.
LEMMA StartBegins ==
  ASSUME IInv, NEW p \in Procs, NEW m, Start(p, m), Others(p),
         Doing'[p] \in Contract!Finds \cup Contract!Saves
  PROVE  Contract!Begin(p)
<1>1. me[p].pc = "idle" /\ disk' = disk /\ got' = [got EXCEPT ![p] = Nothing]
  BY DEF Start
<1>2. Doing[p] = Contract!Idle
  BY <1>1, CallsOf
<1>3. Doing' = [Doing EXCEPT ![p] = Doing'[p]]
  <2>1. \A q \in Procs \ {p} : Doing'[q] = Doing[q]
    BY DEF Others, Doing
  <2> QED
    BY <2>1, AreMaps
<1>4. Found' = [Found EXCEPT ![p] = None]
  <2>1. got'[p] = Nothing /\ \A q \in Procs \ {p} : got'[q] = got[q]
    BY <1>1 DEF IInv, TypeOK
  <2>2. Found'[p] = None /\ \A q \in Procs \ {p} : Found'[q] = Found[q]
    BY <2>1 DEF Found, Content, Nothing
  <2> QED
    BY <2>2, AreMaps
<1>5. (~overlapped)' = \A q \in Procs : Doing[q] = Contract!Idle
  <2>1. overlapped' = \E q \in Procs : me[q].pc # "idle"
    BY DEF Start
  <2>2. \A q \in Procs : me[q].pc = "idle" <=> Doing[q] = Contract!Idle
    BY CallsOf
  <2> QED
    BY <2>1, <2>2
<1>6. Stored' = Stored
  BY <1>1, StoredKept
<1> QED
  BY <1>2, <1>3, <1>4, <1>5, <1>6 DEF Contract!Begin

LEMMA BeginSaveBegins ==
  ASSUME IInv, NEW p \in Procs, NEW r \in Records, BeginSave(p, r)
  PROVE  Contract!Begin(p)
<1>1. Others(p) /\ \E m : Start(p, m)
  BY Effect_BeginSave DEF BeginSave
<1>2. Doing'[p] = [scope |-> ScopeOf[r], value |-> RecordFile(r, saves + 1)]
  BY Effect_BeginSave DEF Doing
<1>3. RecordFile(r, saves + 1) \in RecordFiles /\ ScopeOf[r] \in Scopes
  BY Typed, ConstantsAssumption DEF RecordFile, RecordFiles
<1> QED
  BY <1>1, <1>2, <1>3, StartBegins DEF Contract!Saves

LEMMA BeginFindBegins ==
  ASSUME IInv, NEW p \in Procs, NEW s \in Scopes, BeginFind(p, s)
  PROVE  Contract!Begin(p)
<1>1. Others(p) /\ \E m : Start(p, m)
  BY Effect_BeginFind DEF BeginFind
<1>2. Doing'[p] = [scope |-> s, value |-> None]
  BY Effect_BeginFind DEF Doing
<1> QED
  BY <1>1, <1>2, StartBegins DEF Contract!Finds

\* A process among others may do anything.
LEMMA OverlapDisturbs ==
  ASSUME IInv, NEW p \in Procs, Goes(p), overlapped
  PROVE  Contract!Disturb(p)
<1>1. Doing[p] # Contract!Idle
  BY Effect_Goes, CallsOf
<1>2. Contract!Ends(p) \/ Doing' = Doing
  BY Effect_Goes, CallsKept
<1>3. Found' = [Found EXCEPT ![p] = Found'[p]]
  <2>1. \A q \in Procs \ {p} : Found'[q] = Found[q]
    BY Effect_Goes DEF Found
  <2> QED
    BY <2>1, AreMaps
<1>4. overlapped' = overlapped
  BY Effect_Goes
<1> QED
  BY <1>1, <1>2, <1>3, <1>4 DEF Contract!Disturb

\* A process that changes no file under its own name and finds nothing goes on
\* with its call unseen, or abandons it.
LEMMA QuietStep ==
  ASSUME IInv, NEW p \in Procs, Goes(p), disk' = disk, got' = got
  PROVE  UNCHANGED Contract!vars \/ Contract!Abandon(p)
<1>1. Stored' = Stored /\ Found' = Found /\ (~overlapped)' = ~overlapped
  BY StoredKept, Effect_Goes DEF Found
<1>2. Doing[p] # Contract!Idle
  BY Effect_Goes, CallsOf
<1>3. Doing' = Doing \/ Contract!Ends(p)
  BY Effect_Goes, CallsKept
<1> QED
  BY <1>1, <1>2, <1>3 DEF Contract!vars, Contract!Abandon

\* A find that takes its turn returns what is stored.
LEMMA FetchFinds ==
  ASSUME IInv, NEW p \in Procs, Fetch(p), ~overlapped
  PROVE  Contract!FindReturns(p)
<1>1. /\ me[p].pc = "fetch" /\ disk' = disk /\ overlapped' = overlapped
      /\ got' = IF me[p].rec = None THEN got
                ELSE [got EXCEPT ![p] = [rec |-> me[p].rec, scope |-> me[p].scope,
                                         file |-> disk[me[p].rec]]]
  BY DEF Fetch
<1>2. /\ me[p].task = "find" /\ got[p] = Nothing /\ me[p].rec = Entry(me[p].scope)
      /\ me[p].scope \in Scopes
  BY <1>1 DEF IInv, Fresh, Turns, Turn, Tasks, Task
<1>3. Doing[p] \in Contract!Finds /\ Doing[p].scope = me[p].scope
  BY <1>1, <1>2, CallsOf
<1>4. Contract!Ends(p)
  BY Effect_End, Effect_Goes, CallsKept DEF Ends, Goes
<1>5. Found'[p] = Stored[me[p].scope]
  <2>1. CASE me[p].rec = None
    <3>1. got'[p].file = None
      BY <1>1, <1>2, <2>1 DEF Nothing
    <3> QED
      BY <1>2, <2>1, <3>1 DEF Found, Content, Stored
  <2>2. CASE me[p].rec # None
    <3>1. got'[p].file = disk[me[p].rec]
      BY <1>1, <2>2 DEF IInv, TypeOK
    <3> QED
      BY <1>2, <2>2, <3>1 DEF Found, Content, Stored
  <2> QED
    BY <2>1, <2>2
<1>6. Found' = [Found EXCEPT ![p] = Stored[Doing[p].scope]]
  <2>1. \A q \in Procs \ {p} : Found'[q] = Found[q]
    BY Effect_End DEF Found
  <2> QED
    BY <1>3, <1>5, <2>1, AreMaps
<1>7. Stored' = Stored
  BY <1>1, StoredKept
<1> QED
  BY <1>1, <1>3, <1>4, <1>6, <1>7 DEF Contract!FindReturns

\* What a process that takes its turn renames is a record, which is stored now
\* or when the index is; a rebuilt index, which stores nothing; or the index
\* with the entry of the record it saved.
LEMMA RenameStores ==
  ASSUME IInv, NEW p \in Procs, Rename(p), ~overlapped
  PROVE  UNCHANGED Contract!vars \/ Contract!Put(p) \/ Contract!PutReturns(p)
<1>1. me[p].pc = "rename" /\ Turn(p) /\ Task(p) /\ got' = got /\ overlapped' = overlapped
  BY Effect_Rename DEF IInv, Turns, Tasks
<1>2. Target(p) \in Files /\ Writes(p, Target(p)) /\ me[p].pc \in Writing
  BY <1>1, OutIsWhole DEF Writing, Writes
<1>3. disk' = [disk EXCEPT ![Target(p)] = me[p].out]
  BY <1>1, <1>2, Effect_Rename, CalmWrites DEF Calm
<1>4. Found' = Found /\ (~overlapped)' = ~overlapped
  BY <1>1 DEF Found
<1>5. Goes(p) /\ \A q \in Procs \ {p} : SameCall(q)
  BY Effect_Goes DEF Goes
<1>6. CASE me[p].goal = "record"
  <2> DEFINE r == me[p].rec
             c == RecordFile(me[p].rec, me[p].version)
  <2>1. /\ me[p].task = "save" /\ me[p].out = c /\ Target(p) = r /\ r \in Records
        /\ c \in RecordFiles
    BY <1>1, <1>2, <1>6, OutIsWhole DEF Task
  <2>2. Stored' = Stored \/ Stored' = [Stored EXCEPT ![ScopeOf[r]] = c]
    BY <1>3, <2>1, StoredAfterRecord
  <2>3. Doing' = Doing
    <3>1. SameCall(p)
      BY <1>6, Effect_Rename DEF SameCall
    <3> QED
      BY <1>5, <3>1, CallsKept
  <2>4. Doing[p] \in Contract!Saves /\ Doing[p].scope = ScopeOf[r] /\ Doing[p].value = c
    BY <1>1, <2>1, CallsOf
  <2> QED
    BY <1>4, <2>2, <2>3, <2>4 DEF Contract!vars, Contract!Put
<1>7. CASE me[p].goal = "rebuild"
  <2>1. me[p].out = IndexFile(me[p].idx) /\ \A s \in Scopes : me[p].idx[s] = Entry(s)
    BY <1>1, <1>2, <1>7 DEF Turn
  <2>2. Target(p) = Index /\ me[p].idx \in Entries
    BY <1>2, <1>7, OutIsWhole, Typed
  <2>3. \A s \in Scopes : Stored'[s] = Stored[s]
    BY <1>3, <2>1, <2>2, StoredAfterIndex DEF Stored
  <2>4. Stored' = Stored
    BY <2>3, AreMaps
  <2>5. Doing' = Doing
    <3>1. SameCall(p)
      BY <1>7, Effect_Rename DEF Resumes, SameCall
    <3> QED
      BY <1>5, <3>1, CallsKept
  <2> QED
    BY <1>4, <2>4, <2>5 DEF Contract!vars
<1>8. CASE me[p].goal = "index"
  <2> DEFINE r == me[p].rec
             c == RecordFile(me[p].rec, me[p].version)
             e == me[p].out.entries
  <2>1. /\ me[p].task = "save" /\ r \in Records /\ r # None /\ me[p].scope = ScopeOf[r]
        /\ ScopeOf[r] \in Scopes
    BY <1>1, <1>2, <1>8, ConstantsAssumption DEF Task, Writing
  <2>2. /\ e[ScopeOf[r]] = r /\ disk[r] = c
        /\ \A s \in Scopes \ {ScopeOf[r]} : e[s] = Entry(s)
    BY <1>1, <1>2, <1>8, <2>1 DEF Turn
  <2>3. Target(p) = Index /\ e \in Entries /\ me[p].out = IndexFile(e)
    BY <1>2, <1>8, OutIsWhole DEF IndexFiles, IndexFile
  <2>4. Doing[p] \in Contract!Saves /\ Doing[p].scope = ScopeOf[r] /\ Doing[p].value = c
    BY <1>1, <2>1, CallsOf
  <2>5. c \in RecordFiles
    BY <2>4 DEF Contract!Saves
  <2> HIDE DEF c, e, r
  <2>6. \A s \in Scopes :
          Stored'[s] = IF e[s] = None THEN None ELSE Content(disk[e[s]])
    <3>1. disk' = [disk EXCEPT ![Index] = IndexFile(e)]
      BY <1>3, <2>3
    <3> QED
      BY <2>3, <3>1, StoredAfterIndex
  <2>7. /\ Stored'[ScopeOf[r]] = c
        /\ \A s \in Scopes \ {ScopeOf[r]} : Stored'[s] = Stored[s]
    BY <2>1, <2>2, <2>5, <2>6 DEF Content, Stored
  <2>8. Stored' = [Stored EXCEPT ![ScopeOf[r]] = c]
    BY <2>7, AreMaps
  <2>9. Contract!Ends(p)
    BY <1>5, <1>8, Effect_Rename, CallsKept DEF Ends
  <2> QED
    BY <1>4, <2>4, <2>8, <2>9 DEF Contract!PutReturns
<1> QED
  BY <1>6, <1>7, <1>8, Typed DEF Locals

\* Every step is one of the contract, or unseen.
LEMMA ContractStep == IInv /\ [Next]_vars => [Contract!Next]_(Contract!vars)
<1> SUFFICES ASSUME IInv, [Next]_vars PROVE Contract!Next \/ UNCHANGED Contract!vars
  OBVIOUS
<1>1. CASE UNCHANGED vars
  BY <1>1, StoredKept DEF vars, Doing, Found, Contract!vars
<1>2. ASSUME NEW p \in Procs, NEW r \in Records, BeginSave(p, r) PROVE Contract!Next
  BY <1>2, BeginSaveBegins DEF Contract!Next
<1>3. ASSUME NEW p \in Procs, NEW s \in Scopes, BeginFind(p, s) PROVE Contract!Next
  BY <1>3, BeginFindBegins DEF Contract!Next
<1>4. ASSUME NEW p \in Procs, Goes(p), overlapped PROVE Contract!Next
  BY <1>4, OverlapDisturbs DEF Contract!Next
<1>5. ASSUME NEW p \in Procs, Goes(p), ~overlapped
      PROVE  Contract!Next \/ UNCHANGED Contract!vars
  <2>1. CASE Rename(p)
    BY <1>5, <2>1, RenameStores DEF Contract!Next
  <2>2. CASE Fetch(p)
    BY <1>5, <2>2, FetchFinds DEF Contract!Next
  <2>3. CASE Write(p)
    <3>1. Target(p) \in Files /\ Writes(p, Target(p)) /\ Calm(Target(p))
      BY <1>5, <2>3, Effect_Write, OutIsWhole DEF Writing, Writes, Calm
    <3>2. disk' = disk /\ got' = got
      BY <2>3, <3>1, Effect_Write, CalmWrites
    <3> QED
      BY <1>5, <3>2, QuietStep DEF Contract!Next
  <2>4. CASE Open(p) \/ RenameFails(p) \/ WriteFails(p) \/ LoadIndex(p) \/ Scan(p)
             \/ Rebuild(p) \/ Crash(p)
    <3>1. disk' = disk /\ got' = got
      BY <2>4 DEF Open, RenameFails, WriteFails, LoadIndex, Scan, Rebuild, Crash
    <3> QED
      BY <1>5, <3>1, QuietStep DEF Contract!Next
  <2> QED
    BY <1>5, <2>1, <2>2, <2>3, <2>4 DEF Goes
<1> QED
  BY <1>1, <1>2, <1>3, <1>4, <1>5 DEF Next, Goes

\* While processes take turns, the files are the map of StoreContract: a find
\* returns what the last save of its scope stored, wherever others failed or
\* were killed in between, and the calm returns once all that overlapped are
\* done (Save 37-66, Find 98-108).
THEOREM FilesImplementContract == Spec => StoreSpec
<1>1. Init => IInv /\ Contract!Init
  BY IInvInit, ContractInit
<1>2. IInv /\ [Next]_vars => IInv'
  BY IInvStep
<1> QED
  BY <1>1, <1>2, ContractStep, PTL DEF Spec, StoreSpec, Contract!Spec
=============================================================================
