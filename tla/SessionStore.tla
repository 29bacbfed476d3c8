---------------------------- MODULE SessionStore ----------------------------
(***************************************************************************)
(* The session store (internal/session/persistence/repo.go) at the grain   *)
(* of file operations.  Save writes a record file and then the index, each *)
(* through a temporary file and a rename; Find reads the index, rebuilds   *)
(* it if it cannot be parsed, and loads the record it names.               *)
(*                                                                         *)
(* A member of Procs is a codeye process, running Saves and Finds one      *)
(* after the other.  Nothing locks the files, and a process may be killed  *)
(* between any two operations.  The index and its temporary file are       *)
(* shared by all, a record by the processes that save it; most properties  *)
(* are about records that only one process saves.                          *)
(***************************************************************************)
EXTENDS Naturals, FiniteSetsExt

CONSTANTS
  Procs,    \* processes
  Records,  \* record identifiers; their order is that of the file names
  Scopes,   \* agent, directory and name, see scopeKey
  Savers,   \* Savers[r]: the processes that save r
  ScopeOf,  \* ScopeOf[r]: the scope of r, which never changes
  MaxSaves, \* bound on the saves begun
  Index,    \* the index file
  Absent,   \* no such file
  Empty,    \* a truncated file
  Garbled,  \* a file holding parts of two writes
  None      \* no record

ASSUME ConstantsAssumption ==
  /\ Records \subseteq Nat /\ IsFiniteSet(Records)
  /\ Savers \in [Records -> SUBSET Procs] /\ ScopeOf \in [Records -> Scopes]
  /\ MaxSaves \in Nat
  /\ Index \notin Records /\ None \notin Records \cup Scopes

VARIABLES
  disk,      \* disk[f]: the file under its own name
  temp,      \* temp[f]: the file under the name with .tmp
  me,        \* me[p]: where process p is, and its locals
  saves,     \* saves begun; the version the next record carries
  got,       \* got[p]: what the last Find of p returned
  overlapped \* since last nobody was at work, were there two at once?

vars == <<disk, temp, me, saves, got, overlapped>>

Files   == Records \cup {Index}
Entries == [Scopes -> Records \cup {None}]

RecordFile(r, v) == [record |-> r, version |-> v]
IndexFile(idx)   == [entries |-> idx]

RecordFiles == [record : Records, version : Nat \ {0}]
IndexFiles  == [entries : Entries]
Unreadable  == {Empty, Garbled}
Contents    == RecordFiles \cup IndexFiles \cup Unreadable \cup {Absent}

\* What can be read is told from what cannot, and from no file at all.
ASSUME FilesAssumption ==
  /\ Absent \notin Unreadable
  /\ \A c \in Unreadable \cup {Absent, None} : c \notin RecordFiles \cup IndexFiles

NoEntries == [s \in Scopes |-> None]

\* fd: where the file opened for writing now is; a rename by another process
\* moves it under its own name, the next one leaves it without a name.
Locals ==
  [pc : {"idle", "open", "write", "rename", "load", "scan", "fetch"},
   task : {"save", "find", "none"}, goal : {"record", "rebuild", "index"},
   rec : Records \cup {None}, version : Nat, scope : Scopes \cup {None},
   fd : {"none", "temp", "disk", "gone"}, out : Contents,
   idx : Entries, names : SUBSET Records]

Idle ==
  [pc |-> "idle", task |-> "none", goal |-> "record", rec |-> None,
   version |-> 0, scope |-> None, fd |-> "none", out |-> Absent, idx |-> NoEntries,
   names |-> {}]

\* What Find found: the record it went for, and what was in its file.
Answers == [rec : Records \cup {None}, scope : Scopes \cup {None},
            file : Contents \cup {None}]
Nothing == [rec |-> None, scope |-> None, file |-> None]

\* Every variable holds values of its kind; in particular every record ever
\* written carries the stamp of a save that was begun (Save 40-44).
TypeOK ==
  /\ disk \in [Files -> Contents] /\ temp \in [Files -> Contents]
  /\ me \in [Procs -> Locals]
  /\ saves \in 0 .. MaxSaves
  /\ got \in [Procs -> Answers]
  /\ overlapped \in BOOLEAN

Init ==
  /\ disk = [f \in Files |-> Absent] /\ temp = [f \in Files |-> Absent]
  /\ me = [p \in Procs |-> Idle]
  /\ saves = 0
  /\ got = [p \in Procs |-> Nothing]
  /\ overlapped = FALSE

-----------------------------------------------------------------------------
Start(p, locals) ==
  /\ me[p].pc = "idle"
  /\ me' = [me EXCEPT ![p] = locals]
  /\ overlapped' = \E q \in Procs : me[q].pc # "idle"
  /\ got' = [got EXCEPT ![p] = Nothing]
  /\ UNCHANGED <<disk, temp>>

\* Mutant of BeginSave: the index is written, and the record forgotten.
BeginWithIndex(p, r) ==
  /\ p \in Savers[r] /\ saves < MaxSaves
  /\ saves' = saves + 1
  /\ Start(p, [Idle EXCEPT !.pc = "load", !.task = "save", !.rec = r,
                           !.version = saves', !.scope = ScopeOf[r]])

BeginSave(p, r) ==
  /\ p \in Savers[r] /\ saves < MaxSaves
  /\ saves' = saves + 1
  /\ Start(p, [Idle EXCEPT !.pc = "open", !.task = "save", !.rec = r,
                           !.version = saves', !.scope = ScopeOf[r],
                           !.out = RecordFile(r, saves')])

BeginFind(p, s) ==
  /\ Start(p, [Idle EXCEPT !.pc = "load", !.task = "find", !.scope = s])
  /\ UNCHANGED saves

-----------------------------------------------------------------------------
(* atomicWriteJSON *)

Target(p) == IF me[p].goal = "record" THEN me[p].rec ELSE Index

\* Mutant of Open: the file is written in place.
OpenInPlace(p) ==
  /\ me[p].pc = "open"
  /\ disk' = [disk EXCEPT ![Target(p)] = Empty]
  /\ temp' = [temp EXCEPT ![Target(p)] = me[p].out]
  /\ me' = [me EXCEPT ![p].pc = "write", ![p].fd = "temp"]
  /\ UNCHANGED <<saves, got, overlapped>>

\* WriteFile creates or truncates the temporary file, whoever made it.
Open(p) ==
  /\ me[p].pc = "open"
  /\ temp' = [temp EXCEPT ![Target(p)] = Empty]
  /\ me' = [me EXCEPT ![p].pc = "write", ![p].fd = "temp"]
  /\ UNCHANGED <<disk, saves, got, overlapped>>

\* Bytes written over those of another process may leave its tail behind.
Written(old, new) ==
  IF old \in {Empty, new} THEN {new} ELSE {new, Garbled}

Write(p) ==
  LET f == Target(p) IN
  /\ me[p].pc = "write"
  /\ \/ /\ me[p].fd = "temp"
        /\ temp' \in {[temp EXCEPT ![f] = c] : c \in Written(temp[f], me[p].out)}
        /\ UNCHANGED disk
     \/ /\ me[p].fd = "disk"
        /\ disk' \in {[disk EXCEPT ![f] = c] : c \in Written(disk[f], me[p].out)}
        /\ UNCHANGED temp
     \/ me[p].fd = "gone" /\ UNCHANGED <<disk, temp>>
  /\ me' = [me EXCEPT ![p].pc = "rename", ![p].fd = "none"]
  /\ UNCHANGED <<saves, got, overlapped>>

\* With the index in hand, Save adds its entry and writes the index back;
\* Find goes for the record named there.
Resume(m, idx) ==
  IF m.task = "save"
  THEN [m EXCEPT !.pc = "open", !.goal = "index", !.idx = NoEntries,
                 !.out = IndexFile([idx EXCEPT ![m.scope] = m.rec])]
  ELSE [m EXCEPT !.pc = "fetch", !.goal = "record", !.idx = NoEntries,
                 !.out = Absent, !.rec = idx[m.scope]]

Renamed(m) ==
  CASE m.goal = "record"  -> [m EXCEPT !.pc = "load", !.out = Absent]
    [] m.goal = "rebuild" -> Resume(m, m.idx)
    [] OTHER              -> Idle

\* rebuildIndex ignores the error of its write; Save returns its own.
Failed(m) == IF m.goal = "rebuild" THEN Resume(m, m.idx) ELSE Idle

\* Whatever file has the temporary name is renamed, with its open writers.
Follow(m, moved) ==
  IF ~moved THEN m
  ELSE [m EXCEPT !.fd = CASE @ = "temp" -> "disk" [] @ = "disk" -> "gone"
                          [] OTHER -> @]

Rename(p) ==
  LET f == Target(p) IN
  /\ me[p].pc = "rename" /\ temp[f] # Absent
  /\ disk' = [disk EXCEPT ![f] = temp[f]]
  /\ temp' = [temp EXCEPT ![f] = Absent]
  /\ me' = [q \in Procs |-> IF q = p THEN Renamed(me[p])
                            ELSE Follow(me[q], Target(q) = f)]
  /\ UNCHANGED <<saves, got, overlapped>>

\* Another process renamed the file first.
RenameFails(p) ==
  /\ me[p].pc = "rename" /\ temp[Target(p)] = Absent
  /\ me' = [me EXCEPT ![p] = Failed(me[p])]
  /\ UNCHANGED <<disk, temp, saves, got, overlapped>>

\* The disk is full, or the file may not be written.
WriteFails(p) ==
  /\ me[p].pc \in {"open", "write"}
  /\ me' = [me EXCEPT ![p] = [Failed(me[p]) EXCEPT !.fd = "none"]]
  /\ UNCHANGED <<disk, temp, saves, got, overlapped>>

-----------------------------------------------------------------------------
(* loadIndex, rebuildIndex and Load *)

\* Mutant of LoadIndex: the index is begun anew by every save.
LoadNothing(p) ==
  /\ me[p].pc = "load"
  /\ me' = [me EXCEPT ![p] = Resume(@, NoEntries)]
  /\ UNCHANGED <<disk, temp, saves, got, overlapped>>

LoadIndex(p) ==
  /\ me[p].pc = "load"
  /\ me' = [me EXCEPT ![p] =
       CASE disk[Index] = Absent        -> Resume(@, NoEntries)
         [] disk[Index] \in IndexFiles  -> Resume(@, disk[Index].entries)
         [] OTHER -> [@ EXCEPT !.pc = "scan",
                               !.names = {r \in Records : disk[r] # Absent}]]
  /\ UNCHANGED <<disk, temp, saves, got, overlapped>>

\* One file of the directory listing, in its order; what cannot be read is
\* skipped.
Scan(p) ==
  /\ me[p].pc = "scan"
  /\ \E r \in me[p].names :
       /\ \A q \in me[p].names : r <= q
       /\ me' = [me EXCEPT
            ![p].names = @ \ {r},
            ![p].idx = IF disk[r] \in RecordFiles
                       THEN [@ EXCEPT ![ScopeOf[r]] = r] ELSE @]
  /\ UNCHANGED <<disk, temp, saves, got, overlapped>>

Rebuild(p) ==
  /\ me[p].pc = "scan" /\ me[p].names = {}
  /\ me' = [me EXCEPT ![p].pc = "open", ![p].goal = "rebuild",
                      ![p].out = IndexFile(me[p].idx)]
  /\ UNCHANGED <<disk, temp, saves, got, overlapped>>

Fetch(p) ==
  /\ me[p].pc = "fetch"
  /\ got' = IF me[p].rec = None THEN got
            ELSE [got EXCEPT ![p] = [rec |-> me[p].rec, scope |-> me[p].scope,
                                     file |-> disk[me[p].rec]]]
  /\ me' = [me EXCEPT ![p] = Idle]
  /\ UNCHANGED <<disk, temp, saves, overlapped>>

Crash(p) ==
  /\ me[p].pc # "idle"
  /\ me' = [me EXCEPT ![p] = Idle]
  /\ UNCHANGED <<disk, temp, saves, got, overlapped>>

-----------------------------------------------------------------------------
Next ==
  \E p \in Procs :
    \/ \E r \in Records : BeginSave(p, r)
    \/ \E s \in Scopes : BeginFind(p, s)
    \/ Open(p) \/ Write(p) \/ Rename(p) \/ RenameFails(p) \/ WriteFails(p)
    \/ LoadIndex(p) \/ Scan(p) \/ Rebuild(p) \/ Fetch(p)
    \/ Crash(p)

Spec == Init /\ [][Next]_vars

-----------------------------------------------------------------------------
(* Properties *)

Sole(r) == \E p \in Procs : Savers[r] = {p}

\* A record that one process saves is never torn, lost or set back, whatever
\* other processes do to the shared index and wherever its own process is
\* killed (Save 45-48).
RecordsAdvance ==
  [][\A r \in Records : Sole(r) /\ disk[r] # Absent =>
       /\ disk[r] \in RecordFiles /\ disk'[r] \in RecordFiles
       /\ disk[r].version <= disk'[r].version]_vars

\* An index that can be read names only records that are there, each under
\* its own scope, even if it was pieced together by processes that overlap.
IndexHonest ==
  disk[Index] \in IndexFiles =>
    \A s \in Scopes :
      LET r == disk[Index].entries[s] IN
      r # None => ScopeOf[r] = s /\ disk[r] # Absent

\* The record Find goes for is there and is of the scope asked for, though the
\* index was read, or rebuilt, earlier; it is whole unless several processes
\* save it (Find 98-108).
FindIsSound ==
  \A p \in Procs :
    LET g == got[p] IN
    g.rec # None =>
      /\ g.file # Absent /\ ScopeOf[g.rec] = g.scope
      /\ Sole(g.rec) => g.file \in RecordFiles

\* The entry a process would find for s if it were alone: the one in the index,
\* or, if that has to be rebuilt, the last readable record of s.
Readable(s) == {r \in Records : ScopeOf[r] = s /\ disk[r] \in RecordFiles}

Entry(s) ==
  CASE disk[Index] = Absent       -> None
    [] disk[Index] \in IndexFiles -> disk[Index].entries[s]
    [] OTHER -> IF Readable(s) = {} THEN None ELSE Max(Readable(s))

Content(c) == IF c \in RecordFiles THEN c ELSE None

\* The store as a map from scopes to records, the calls under way, and what
\* finds have returned.
Stored == [s \in Scopes |-> IF Entry(s) = None THEN None ELSE Content(disk[Entry(s)])]

Doing ==
  [p \in Procs |->
     [scope |-> me[p].scope,
      value |-> IF me[p].task = "save" THEN RecordFile(me[p].rec, me[p].version)
                ELSE None]]

Found == [p \in Procs |-> Content(got[p].file)]

Contract == INSTANCE StoreContract
  WITH Values <- RecordFiles, store <- Stored, doing <- Doing, found <- Found,
       alone <- ~overlapped

\* While processes take turns, Save and Find are operations on a map: what a
\* Save that reported success stored is what Finds return until a later Save
\* of its scope, though others fail or are killed in between, and whatever
\* processes that overlapped have made of the files before (Save, Find).
StoreSpec == Contract!Spec
=============================================================================
