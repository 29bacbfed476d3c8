------------------------------ MODULE Startup ------------------------------
(***************************************************************************)
(* How a codeye command comes to a running agent: Run and parseGlobals     *)
(* (internal/cli/root.go), Load and mergeFile (internal/config), Resolve   *)
(* and ValidateInstalled (internal/agentregistry), Start and               *)
(* authenticateIfRequired (internal/client/client.go).                     *)
(*                                                                         *)
(* Left out: the settings that only format output or size the queue, which *)
(* merge like the ones here, and arguments that start no agent.            *)
(***************************************************************************)
EXTENDS Naturals, Sequences, FiniteSetsExt

CONSTANTS
  Texts,     \* what settings, commands and identifiers are written with
  Flags,     \* command lines: mode, name of the agent, --agent
  Globals,   \* what ~/.codeye/config.json may hold: see Settings
  Projects,  \* what .codeye.json may hold
  Inherited, \* environments: sets of the credential names set in them
  Offered,   \* sequences of authentication methods an agent may advertise
  Methods,   \* authentication methods
  Installed, \* commands found on the PATH
  None       \* no method

Unset == ""

\* A credential of method m may be named by its identifier, by that in capitals
\* (the token), and by the token after CODEYE_AUTH_.
Forms == {"id", "token", "prefixed"}
Names == Forms \X Methods
NamesOf(m) == {<<f, m>> : f \in Forms}

Adapters == [command : Texts, init : Nat]

\* The settings a file may hold.  auth says of a name whether its value is more
\* than blanks; agents maps a name to its command and initializeTimeout.
Settings(file) ==
  /\ file.agent \in Texts /\ file.mode \in Texts /\ file.policy \in Texts
  /\ DOMAIN file.auth \subseteq Names
  /\ \A k \in DOMAIN file.auth : file.auth[k] \in BOOLEAN
  /\ \A a \in DOMAIN file.agents : file.agents[a] \in Adapters

ASSUME ConstantsAssumption ==
  /\ \A f \in Globals \cup Projects :
       f.is \in {"missing", "malformed", "read"} /\ Settings(f)
  /\ \A f \in Flags : {f.mode, f.override, f.agent} \subseteq Texts
  /\ Inherited \subseteq SUBSET Names
  /\ Offered \subseteq Seq(Methods)
  /\ Installed \subseteq Texts
  /\ {Unset, "agent", "cursor", "approve-reads", "skip"} \subseteq Texts
  /\ None \notin Methods

VARIABLES
  phase,    \* where the command stands
  flags,    \* the command line
  global,   \* the user's file
  project,  \* the file in the working directory
  env,      \* credential names set in codeye's environment
  cfg,      \* Config
  adapter,  \* the command to run and its InitializeTO
  methods,  \* authMethods of the initialize result
  asking,   \* the method authenticate was called for
  accepted, \* has the agent accepted it?
  code      \* exit code of a command that came no further

inputs == <<flags, global, project, env>>
startVars == <<phase, inputs, cfg, adapter, methods, asking, accepted, code>>

Phases == {"global", "project", "resolve", "spawn", "initialize",
           "select", "authenticate", "ready", "failed"}

StartTypeOK ==
  /\ phase \in Phases
  /\ flags \in Flags /\ global \in Globals /\ project \in Projects
  /\ env \in Inherited
  /\ Settings(cfg) /\ adapter \in Adapters
  /\ methods \in Offered \cup {<<>>}
  /\ asking \in Methods \cup {None} /\ accepted \in BOOLEAN
  /\ code \in {0, 1, 2, 10}

\* config.Default
Default == [agent |-> "cursor", mode |-> "approve-reads", policy |-> "skip",
            auth |-> <<>>,
            agents |-> [a \in {"cursor"} |-> [command |-> "agent", init |-> 0]]]

NoAdapter == [command |-> Unset, init |-> 0]

StartInit ==
  /\ phase = "global"
  /\ flags \in Flags /\ global \in Globals /\ project \in Projects
  /\ env \in Inherited
  /\ cfg = Default /\ adapter = NoAdapter
  /\ methods = <<>> /\ asking = None /\ accepted = FALSE
  /\ code = 0

-----------------------------------------------------------------------------
(* Configuration *)

\* A setting, and a map of settings, as a file read later leaves it.
Or(new, old) == IF new # Unset THEN new ELSE old

Over(new, old) ==
  [k \in DOMAIN new \cup DOMAIN old |->
     IF k \in DOMAIN new THEN new[k] ELSE old[k]]

\* Mutant of Merged: the file that was read first wins.
MergedUnder(file) ==
  [agent  |-> Or(cfg.agent, file.agent),
   mode   |-> Or(cfg.mode, file.mode),
   policy |-> Or(cfg.policy, file.policy),
   auth   |-> Over(cfg.auth, file.auth),
   agents |-> Over(cfg.agents, file.agents)]

\* Later files win, setting by setting, name by name and agent by agent: an
\* agent is replaced whole, its command with it.
Merged(file) ==
  [agent  |-> Or(file.agent, cfg.agent),
   mode   |-> Or(file.mode, cfg.mode),
   policy |-> Or(file.policy, cfg.policy),
   auth   |-> Over(file.auth, cfg.auth),
   agents |-> Over(file.agents, cfg.agents)]

Fail(c) == phase' = "failed" /\ code' = c

\* A file that is not there is skipped, one that cannot be decoded is an error.
MergeFile(file, next) ==
  /\ IF file.is = "malformed" THEN Fail(1) ELSE phase' = next /\ UNCHANGED code
  /\ cfg' = IF file.is = "read" THEN Merged(file) ELSE cfg
  /\ UNCHANGED <<inputs, adapter, methods, asking, accepted>>

LoadGlobal == phase = "global" /\ MergeFile(global, "project")

LoadProject == phase = "project" /\ MergeFile(project, "resolve")

\* The flag wins over the files.
Mode == Or(flags.mode, cfg.mode)

Agent == Or(flags.agent, cfg.agent)

Supported == Agent \in DOMAIN cfg.agents /\ cfg.agents[Agent].command # Unset

\* A blank --agent and an agent without a command are usage errors; a timeout
\* that is not positive means the default of the registry.
Resolve ==
  /\ phase = "resolve"
  /\ \/ /\ flags.override \notin {Unset, " "}
        /\ adapter' = [command |-> flags.override, init |-> 0]
        /\ phase' = "spawn" /\ UNCHANGED code
     \/ /\ flags.override = Unset /\ Supported
        /\ LET a == cfg.agents[Agent] IN
             adapter' = [a EXCEPT !.init = IF @ > 0 THEN @ ELSE 20]
        /\ phase' = "spawn" /\ UNCHANGED code
     \/ /\ flags.override = " " \/ (flags.override = Unset /\ ~Supported)
        /\ Fail(2) /\ UNCHANGED adapter
  /\ UNCHANGED <<inputs, cfg, methods, asking, accepted>>

-----------------------------------------------------------------------------
(* Start *)

Advance(next) == phase' = next /\ UNCHANGED code

\* ValidateInstalled, and the start of the process.
Spawn ==
  /\ phase = "spawn"
  /\ IF adapter.command \in Installed THEN Advance("initialize") ELSE Fail(10)
  /\ UNCHANGED <<inputs, cfg, adapter, methods, asking, accepted>>

SpawnFails ==
  /\ phase = "spawn" /\ adapter.command \in Installed
  /\ Fail(1)
  /\ UNCHANGED <<inputs, cfg, adapter, methods, asking, accepted>>

Initialized(ms) ==
  /\ phase = "initialize"
  /\ methods' = ms
  /\ Advance("select")
  /\ UNCHANGED <<inputs, cfg, adapter, asking, accepted>>

\* An error, a dead agent, an undecodable result or another protocol version.
InitializeFails ==
  /\ phase = "initialize"
  /\ Fail(1)
  /\ UNCHANGED <<inputs, cfg, adapter, methods, asking, accepted>>

Configured(m) ==
  \E k \in NamesOf(m) \cap DOMAIN cfg.auth : cfg.auth[k]

\* credentialForMethod
HasCredential(m) == NamesOf(m) \cap env # {} \/ Configured(m)

Usable == {m \in Methods : HasCredential(m)}

\* Where a list has usable methods, and the first of them.
At(ms, usable) == {i \in DOMAIN ms : ms[i] \in usable}

SomeOf(ms, usable) == At(ms, usable) # {}

First(ms, usable) == ms[Min(At(ms, usable))]

\* strings.EqualFold
Strict == cfg.policy \in {"fail", "Fail", "FAIL"}

\* authenticateIfRequired, up to the call.
Select ==
  /\ phase = "select"
  /\ \/ /\ SomeOf(methods, Usable)
        /\ asking' = First(methods, Usable)
        /\ Advance("authenticate")
     \/ /\ methods # <<>> /\ ~SomeOf(methods, Usable) /\ Strict
        /\ Fail(1) /\ UNCHANGED asking
     \/ /\ ~SomeOf(methods, Usable) /\ (methods = <<>> \/ ~Strict)
        /\ Advance("ready") /\ UNCHANGED asking
  /\ UNCHANGED <<inputs, cfg, adapter, methods, accepted>>

Authenticated ==
  /\ phase = "authenticate"
  /\ accepted' = TRUE
  /\ Advance("ready")
  /\ UNCHANGED <<inputs, cfg, adapter, methods, asking>>

AuthenticateFails ==
  /\ phase = "authenticate"
  /\ Fail(1)
  /\ UNCHANGED <<inputs, cfg, adapter, methods, asking, accepted>>

\* Start has a default of its own for --agent, which knows no timeout.
Timeout == IF adapter.init > 0 THEN adapter.init ELSE 15

\* Mutant of Pending: the call of authenticate has no deadline.
PendingInitialize == phase = "initialize"

\* The calls that one deadline covers.
Pending == phase \in {"initialize", "authenticate"}

StartTimesOut ==
  /\ Pending /\ Timeout > 0
  /\ Fail(1)
  /\ UNCHANGED <<inputs, cfg, adapter, methods, asking, accepted>>

\* buildAgentEnv: the environment codeye has, and every credential configured,
\* under its own name and the two made from it; a name that has the prefix
\* already makes no other that a method goes by.
Given(k) ==
  {k} \cup (IF k[1] = "prefixed" THEN {}
            ELSE {<<"token", k[2]>>, <<"prefixed", k[2]>>})

AgentEnv == env \cup UNION {Given(k) : k \in {l \in DOMAIN cfg.auth : cfg.auth[l]}}

-----------------------------------------------------------------------------
\* What codeye does by itself; the agent's answers are left to the agent.
StartStep ==
  LoadGlobal \/ LoadProject \/ Resolve \/ Spawn \/ SpawnFails \/ Select

AgentAnswers ==
  \/ \E ms \in Offered : Initialized(ms)
  \/ InitializeFails \/ Authenticated \/ AuthenticateFails

StartNext == StartStep \/ AgentAnswers \/ StartTimesOut

-----------------------------------------------------------------------------
(* Properties *)

Read(file) == file.is = "read"

\* The most specific of the places that say anything about a setting.
Effective(flag, inProject, inGlobal, default) ==
  IF flag # Unset                          THEN flag
  ELSE IF Read(project) /\ inProject # Unset THEN inProject
  ELSE IF Read(global) /\ inGlobal # Unset   THEN inGlobal
  ELSE default

EffectiveMode ==
  Effective(flags.mode, project.mode, global.mode, Default.mode)
EffectivePolicy ==
  Effective(Unset, project.policy, global.policy, Default.policy)

\* Is there a credential of m, by the environment or the project's or, where
\* that is silent about the name, the user's file?
Available(m) ==
  \/ NamesOf(m) \cap env # {}
  \/ \E k \in NamesOf(m) :
       IF Read(project) /\ k \in DOMAIN project.auth
       THEN project.auth[k]
       ELSE Read(global) /\ k \in DOMAIN global.auth /\ global.auth[k]

\* A command that goes on to its operation with an agent that asks for
\* authentication has had a method accepted whose credential the agent was
\* given as well, or else had no credential of any method and a policy, by the
\* most specific file, that lets it go on (client.go 709-758, config.go 47-107).
ReadyIsAuthorised ==
  phase = "ready" /\ methods # <<>> =>
    \/ /\ accepted /\ Available(asking)
       /\ \/ NamesOf(asking) \cap env # {}
          \/ {<<"token", asking>>, <<"prefixed", asking>>} \cap AgentEnv # {}
    \/ /\ ~SomeOf(methods, {m \in Methods : Available(m)})
       /\ EffectivePolicy \notin {"fail", "Fail", "FAIL"}

\* The command comes to its operation or to an end, whatever the agent leaves
\* unanswered (client.go 123-153).
StartEnds == <>(phase \in {"ready", "failed"})
=============================================================================
