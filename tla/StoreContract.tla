--------------------------- MODULE StoreContract ---------------------------
(***************************************************************************)
(* What the session store promises the processes that use it, with no file *)
(* in sight: a map from scopes to records, which saves and finds use as    *)
(* one step each, as long as one process at a time is at work.  A save     *)
(* that fails or is killed has taken place or has not.  When several are   *)
(* at work at once the map may become anything; once they are all done it  *)
(* stays what it is, and whoever comes next finds a map again.             *)
(***************************************************************************)

CONSTANTS
  Procs,   \* processes
  Scopes,  \* what a record is saved and found under
  Values,  \* records
  None     \* no record, and no scope

VARIABLES
  store, \* store[s]: the record found under s
  doing, \* doing[p]: the call p is in: a scope, and a value if it saves
  found, \* found[p]: what the last find of p returned
  alone  \* has p, while at work, been the only one?

vars == <<store, doing, found, alone>>

Finds == [scope : Scopes, value : {None}]
Saves == [scope : Scopes, value : Values]
Idle  == [scope |-> None, value |-> None]

Init ==
  /\ store = [s \in Scopes |-> None]
  /\ doing = [p \in Procs |-> Idle]
  /\ found = [p \in Procs |-> None]
  /\ alone = TRUE

Ends(p) == doing' = [doing EXCEPT ![p] = Idle]

\* A process begins a find or a save of whatever value.
Begin(p) ==
  /\ doing[p] = Idle
  /\ doing'[p] \in Finds \cup Saves /\ doing' = [doing EXCEPT ![p] = doing'[p]]
  /\ found' = [found EXCEPT ![p] = None]
  /\ alone' = \A q \in Procs : doing[q] = Idle
  /\ UNCHANGED store

\* A save takes place, at once or when it returns.
Put(p) ==
  /\ alone /\ doing[p] \in Saves
  /\ store' = [store EXCEPT ![doing[p].scope] = doing[p].value]
  /\ UNCHANGED <<doing, found, alone>>

PutReturns(p) ==
  /\ alone /\ doing[p] \in Saves
  /\ store' = [store EXCEPT ![doing[p].scope] = doing[p].value]
  /\ Ends(p)
  /\ UNCHANGED <<found, alone>>

FindReturns(p) ==
  /\ alone /\ doing[p] \in Finds
  /\ found' = [found EXCEPT ![p] = store[doing[p].scope]]
  /\ Ends(p)
  /\ UNCHANGED <<store, alone>>

\* A call fails, or its process is killed.
Abandon(p) ==
  /\ doing[p] # Idle
  /\ Ends(p)
  /\ UNCHANGED <<store, found, alone>>

\* Among others at work, a call may do anything to the map, and a find may
\* return anything.
Disturb(p) ==
  /\ ~alone /\ doing[p] # Idle
  /\ Ends(p) \/ UNCHANGED doing
  /\ found' = [found EXCEPT ![p] = found'[p]]
  /\ UNCHANGED alone

Next ==
  \E p \in Procs :
    \/ Begin(p)
    \/ Put(p) \/ PutReturns(p) \/ FindReturns(p) \/ Abandon(p) \/ Disturb(p)

Spec == Init /\ [][Next]_vars
=============================================================================
