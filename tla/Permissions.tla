----------------------------- MODULE Permissions -----------------------------
(***************************************************************************)
(* How an agent's session/request_permission is answered:                  *)
(* permissionDecision, parsePermissionRequest and isPermissionDenied       *)
(* (internal/client/client.go), IsReadOnly (internal/permissions), and the *)
(* menus of interactivePermissionPrompter (internal/cli/root.go), under    *)
(* the mode Startup arrives at.                                            *)
(*                                                                         *)
(* The mode is looked at for these requests only: the agent's file and     *)
(* terminal requests are carried out whatever it is.  In mode "ask" every  *)
(* request has a goroutine that prints a menu and reads a line; all of     *)
(* them read the one standard input.                                       *)
(***************************************************************************)
EXTENDS Startup, Functions

CONSTANTS
  Requests, \* permission requests of the agent
  Asks,     \* what one may say: its options and whether its method only reads
  Lines,  \* numbers the user may type; 0 is "c", a blank line or no number
  MaxAhead  \* bound on the lines typed while no menu is shown

\* An option: its identifier, its kind, and which of the two is padded by blanks.
Kinds == {"allow_once", "allow_always", "reject_once", "reject_always", "other"}

Options == [id : Texts, kind : Kinds, padded : {"none", "id", "kind"}]

ASSUME AsksAssumption ==
  /\ \A a \in Asks : a.readOnly \in BOOLEAN /\ a.options \in Seq(Options)
  /\ Lines \subseteq Nat /\ None \notin Nat /\ MaxAhead \in Nat

VARIABLES
  place,    \* place[r]: "none", "sleeping", "menu" or "replied"
  ask,      \* ask[r]: what the agent asked
  reply,    \* reply[r]: the result sent
  reported, \* requests for which OnPermissionDenied was called
  tty,      \* lines typed and not yet read
  eof,      \* has standard input ended?
  typed,    \* typed[r]: the line typed for r's menu, None before
  ahead,    \* lines typed while no menu was shown
  crossed   \* requests whose menu was not alone, or had lines before it

permVars ==
  <<place, ask, reply, reported, tty, eof, typed, ahead, crossed>>
vars == <<startVars, permVars>>

NoAsk  == [readOnly |-> FALSE, options |-> <<>>]

\* A result: the identifier selected, padded or not, or Cancelled.
Selected(id, padded) == [outcome |-> "selected", id |-> id, padded |-> padded]
Cancelled == [outcome |-> "cancelled", id |-> Unset, padded |-> FALSE]
Unanswered == [outcome |-> "none", id |-> Unset, padded |-> FALSE]

Results == [outcome : {"selected", "cancelled", "none"}, id : Texts,
            padded : BOOLEAN]

TypeOK ==
  /\ StartTypeOK
  /\ place \in [Requests -> {"none", "sleeping", "menu", "replied"}]
  /\ ask \in [Requests -> Asks \cup {NoAsk}]
  /\ reply \in [Requests -> Results]
  /\ reported \subseteq Requests /\ crossed \subseteq Requests
  /\ tty \in Seq(Lines) /\ eof \in BOOLEAN
  /\ typed \in [Requests -> Lines \cup {None}]
  /\ ahead \in 0..MaxAhead

Init ==
  /\ StartInit
  /\ place = [r \in Requests |-> "none"]
  /\ ask = [r \in Requests |-> NoAsk]
  /\ reply = [r \in Requests |-> Unanswered]
  /\ reported = {} /\ crossed = {}
  /\ tty = <<>> /\ eof = FALSE
  /\ typed = [r \in Requests |-> None]
  /\ ahead = 0

-----------------------------------------------------------------------------
(* permissionDecision *)

\* A padded kind is not recognised.
KindOf(o) == IF o.padded = "kind" THEN "other" ELSE o.kind

\* The first option of some kinds that has an identifier, as it was offered.
Pick(options, kinds) ==
  LET fits == {i \in DOMAIN options :
                 options[i].id # Unset /\ KindOf(options[i]) \in kinds}
      first == options[Min(fits)]
  IN IF fits = {} THEN Cancelled ELSE Selected(first.id, first.padded = "id")

Prefer(one, other) == IF one # Cancelled THEN one ELSE other

Allow(options) ==
  Prefer(Pick(options, {"allow_once"}), Pick(options, {"allow_always"}))

Reject(options) ==
  Prefer(Pick(options, {"reject_once"}), Pick(options, {"reject_always"}))

\* Mutant of Decision: without an option to reject, the first one is taken.
DecisionFirst(a) ==
  IF Mode = "approve-all" \/ (Mode # "deny-all" /\ a.readOnly)
  THEN Prefer(Allow(a.options), Pick(a.options, Kinds))
  ELSE Prefer(Reject(a.options), Pick(a.options, Kinds))

\* Any mode but the two named acts as approve-reads does.
Decision(a) ==
  CASE Mode = "approve-all" ->
         Prefer(Allow(a.options), Pick(a.options, Kinds))
    [] Mode = "deny-all" -> Reject(a.options)
    [] OTHER -> IF a.readOnly THEN Prefer(Allow(a.options), Reject(a.options))
                ELSE Reject(a.options)

-----------------------------------------------------------------------------
(* interactivePermissionPrompter *)

Order == <<"allow_once", "allow_always", "reject_once", "reject_always">>

\* byKind holds the last option of a kind, identifiers and kinds trimmed.
OfKind(options, kind) ==
  {i \in DOMAIN options : options[i].kind = kind /\ options[i].id # Unset}

\* The places in Order of the kinds printed, and the number printed beside one.
Printed(options) == {k \in DOMAIN Order : OfKind(options, Order[k]) # {}}

Beside(options, k) == Cardinality({j \in Printed(options) : j <= k})

\* Mutant of Counted: all kinds are counted, printed or not.
CountedAll(options, k) == k

\* The line is looked up by counting a second time.
Counted(options, k) == Beside(options, k)

Chosen(options, n) ==
  LET lines == {k \in Printed(options) : Counted(options, k) = n}
      last  == options[Max(OfKind(options, Order[Min(lines)]))]
  IN IF lines = {} THEN Cancelled ELSE Selected(last.id, FALSE)

-----------------------------------------------------------------------------
(* isPermissionDenied *)

Rejects(kind) == kind \in {"reject_once", "reject_always"}

\* Mutant of Denied: a selection is never a denial.
DeniedIfCancelled(a, result) == result = Cancelled

\* The option is looked up by its trimmed identifier, the result is not trimmed.
Denied(a, result) ==
  \/ result = Cancelled
  \/ /\ ~result.padded
     /\ LET named == {i \in DOMAIN a.options : a.options[i].id = result.id}
        IN named # {} /\ Rejects(a.options[Min(named)].kind)

Answer(r, a, result) ==
  /\ reply' = [reply EXCEPT ![r] = result]
  /\ reported' = IF Denied(a, result) THEN reported \cup {r} ELSE reported
  /\ place' = [place EXCEPT ![r] = "replied"]

-----------------------------------------------------------------------------
(* Requests, menus and lines *)

\* While the agent works on an operation.
AgentAsks(r, a) ==
  /\ phase = "ready" /\ place[r] = "none"
  /\ ask' = [ask EXCEPT ![r] = a]
  /\ \/ /\ Mode = "ask"
        /\ place' = [place EXCEPT ![r] = "sleeping"]
        /\ UNCHANGED <<reply, reported>>
     \/ Mode # "ask" /\ Answer(r, a, Decision(a))
  /\ UNCHANGED <<tty, eof, typed, ahead, crossed>>

Menus == {r \in Requests : place[r] = "menu"}

\* After 1.2 seconds, whoever else is at the terminal.
ShowMenu(r) ==
  /\ place[r] = "sleeping"
  /\ place' = [place EXCEPT ![r] = "menu"]
  /\ crossed' = crossed \cup (IF Menus # {} THEN Menus \cup {r} ELSE {})
                        \cup (IF tty # <<>> THEN {r} ELSE {})
  /\ UNCHANGED <<ask, reply, reported, tty, eof, typed, ahead>>

\* How many lines one read takes: one from a terminal, whatever is there from a
\* pipe.  A new scanner is made for every menu, and what it has read beyond its
\* line is gone with it.
Taken == 1..Len(tty)

\* The goroutine whose read comes first gets the line.
Scan(r) ==
  /\ place[r] = "menu"
  /\ \/ /\ tty # <<>>
        /\ Answer(r, ask[r], Chosen(ask[r].options, Head(tty)))
        /\ \E n \in Taken : tty' = SubSeq(tty, n + 1, Len(tty))
     \/ /\ tty = <<>> /\ eof
        /\ Answer(r, ask[r], Cancelled)
        /\ UNCHANGED tty
  /\ UNCHANGED <<ask, eof, typed, ahead, crossed>>

\* The user: answers a menu that is shown, types ahead, or ends the input.
Type(r, n) ==
  /\ ~eof /\ place[r] = "menu" /\ typed[r] = None
  /\ typed' = [typed EXCEPT ![r] = n]
  /\ tty' = Append(tty, n)
  /\ UNCHANGED <<place, ask, reply, reported, eof, ahead, crossed>>

TypeAhead(n) ==
  /\ ~eof /\ Menus = {} /\ ahead < MaxAhead /\ Mode = "ask"
  /\ ahead' = ahead + 1
  /\ tty' = Append(tty, n)
  /\ UNCHANGED <<place, ask, reply, reported, eof, typed, crossed>>

EndInput ==
  /\ ~eof /\ Mode = "ask"
  /\ eof' = TRUE
  /\ UNCHANGED <<place, ask, reply, reported, tty, typed, ahead, crossed>>

-----------------------------------------------------------------------------
Prompting ==
  \/ \E r \in Requests, a \in Asks : AgentAsks(r, a)
  \/ \E r \in Requests : ShowMenu(r) \/ Scan(r)
  \/ \E r \in Requests, n \in Lines : Type(r, n)
  \/ \E n \in Lines : TypeAhead(n)
  \/ EndInput

Next ==
  \/ StartNext /\ UNCHANGED permVars
  \/ Prompting /\ UNCHANGED startVars

Spec == Init /\ [][Next]_vars

\* codeye goes on by itself and its timers fire; agent and user need not act.
FairSpec == Spec /\ WF_vars(StartStep /\ UNCHANGED permVars)
                 /\ WF_vars(StartTimesOut /\ UNCHANGED permVars)

-----------------------------------------------------------------------------
(* Properties *)

Replied(r) == place[r] = "replied"

\* The options of r that its reply may mean.
Meant(r) ==
  {o \in Range(ask[r].options) :
     reply[r].outcome = "selected" /\ o.id = reply[r].id}

\* An identifier stands for one kind, as the protocol has it.
Unambiguous(r) ==
  \A o, p \in Range(ask[r].options) :
    o.id = p.id => o.kind = p.kind \/ o.id = Unset

\* An option that allows is selected only in a mode, by the most specific of
\* flag and files, that approves such requests, or because its line of the
\* menu was typed; and what is selected was offered (client.go 813-884).
AllowIsJustified ==
  \A r \in Requests : Replied(r) /\ reply[r].outcome = "selected" =>
    /\ Meant(r) # {}
    /\ Unambiguous(r) => \A o \in Meant(r) : Rejects(o.kind) \/
         CASE EffectiveMode = "approve-all" -> TRUE
           [] EffectiveMode = "deny-all"    -> FALSE
           [] EffectiveMode = "ask"         -> typed[r] # None \/ r \in crossed
           [] OTHER                         -> ask[r].readOnly

\* A menu that was shown alone, with nothing typed before it, gets the answer
\* typed for it: an option of the kind printed beside the number, or a
\* cancellation if there is no such line (root.go 624-685).
AnswerReachesItsMenu ==
  \A r \in Requests : Replied(r) /\ EffectiveMode = "ask" /\ r \notin crossed =>
    LET options == ask[r].options
        lines   == {k \in Printed(options) : Beside(options, k) = typed[r]}
    IN /\ \A k \in lines : \E o \in Meant(r) : o.kind = Order[k]
       /\ lines = {} => reply[r] = Cancelled

\* The user is told of every request that was refused, with the exception of
\* identifiers that carry blanks (client.go 610-641).
DenialIsReported ==
  \A r \in Requests :
    Replied(r) /\ Unambiguous(r)
      /\ (\A o \in Range(ask[r].options) : o.padded # "id") =>
      (r \in reported <=> \A o \in Meant(r) : Rejects(o.kind))
=============================================================================
