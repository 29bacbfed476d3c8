--------------------------- MODULE MCPermissions ---------------------------
(***************************************************************************)
(* Model checking Permissions and Startup: curated files, command lines    *)
(* and option lists.                                                       *)
(***************************************************************************)
EXTENDS Permissions, TLC

CONSTANTS r1, r2, m1, m2

MCTexts == STRING

Silent == [is |-> "read", agent |-> "", mode |-> "", policy |-> "",
           auth |-> <<>>, agents |-> <<>>]

MCGlobals ==
  {[Silent EXCEPT !.is = "missing"],
   [Silent EXCEPT !.is = "malformed"],
   [Silent EXCEPT !.mode = "ask", !.policy = "skip",
                  !.auth = <<"id", m1>> :> TRUE],
   [Silent EXCEPT !.policy = "fail", !.agent = "mine",
                  !.agents = "mine" :> [command |-> "mine", init |-> 5]]}

MCProjects ==
  {[Silent EXCEPT !.is = "missing"],
   [Silent EXCEPT !.mode = "deny-all", !.policy = "FAIL",
                  !.auth = <<"id", m1>> :> FALSE @@ <<"token", m2>> :> TRUE],
   [Silent EXCEPT !.mode = "approve", !.auth = <<"token", m2>> :> TRUE,
                  !.agents = "cursor" :> [command |-> "", init |-> 5]]}

MCFlags ==
  {[mode |-> "", agent |-> "", override |-> ""],
   [mode |-> "ask", agent |-> "mine", override |-> ""],
   [mode |-> "approve-all", agent |-> "", override |-> "other"],
   [mode |-> "", agent |-> "", override |-> " "]}

MCInherited == {{}, {<<"prefixed", m2>>}}
MCOffered == {<<>>, <<m1>>, <<m1, m2>>}

Option(i, k, p) == [id |-> i, kind |-> k, padded |-> p]
Asking(r, os) == [readOnly |-> r, options |-> os]

\* The usual list; two of a kind, with a blank identifier and out of order; no
\* option to allow; none to reject; blanks; one identifier for two kinds.
Usual  == <<Option("a", "allow_once", "none"), Option("r", "reject_once", "none")>>
Double == <<Option("s", "reject_always", "none"), Option("", "allow_once", "none"),
            Option("b", "allow_always", "none"), Option("c", "allow_always", "none")>>
NoAllow == <<Option("x", "other", "none"), Option("r", "reject_once", "none")>>
NoReject == <<Option("a", "allow_once", "none")>>
Padded  == <<Option("r", "reject_once", "id"), Option("a", "allow_once", "kind")>>
Twice == <<Option("a", "reject_once", "none"), Option("a", "allow_once", "none")>>

MCAsks == {Asking(TRUE, Usual), Asking(FALSE, Double), Asking(TRUE, NoAllow),
           Asking(FALSE, Padded), Asking(FALSE, NoReject), Asking(FALSE, Twice)}
=============================================================================
