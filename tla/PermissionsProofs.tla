------------------------- MODULE PermissionsProofs -------------------------
(***************************************************************************)
(* Theorems about Startup and Permissions, for any files, command lines,   *)
(* agents, requests and lists of options.                                  *)
(***************************************************************************)
EXTENDS Permissions, FiniteSetTheorems, WellFoundedInduction, TLAPS

(* The operators the models pick with *)

\* A set of naturals that is not empty has a least element, and Min is it.
LEMMA MinIsLeast ==
  ASSUME NEW S \in SUBSET Nat, S # {}
  PROVE  Min(S) \in S /\ \A n \in S : Min(S) <= n
<1> DEFINE R == {p \in Nat \X Nat : p[1] < p[2]}
<1>1. IsWellFoundedOn(R, Nat)
  <2>1. R = OpToRel(<, Nat)
    BY DEF OpToRel
  <2> HIDE DEF R
  <2> QED
    BY <2>1, NatLessThanWellFounded
<1>2. PICK m \in S : \A n \in S : ~(<<n, m>> \in R)
  <2> HIDE DEF R
  <2> QED
    BY <1>1, WFMin
<1>3. ASSUME NEW n \in S PROVE m <= n
  <2>1. <<n, m>> \notin R
    BY <1>2
  <2> QED
    BY <2>1
<1>4. \E l \in S : \A n \in S : l <= n
  BY <1>3
<1> QED
  BY <1>4, Zenon DEF Min

\* A set of positions that is not empty has a greatest element, and Max is it.
LEMMA MaxIsGreatest ==
  ASSUME NEW n \in Nat, NEW S \in SUBSET (1..n), S # {}
  PROVE  Max(S) \in S /\ \A i \in S : i <= Max(S)
<1> DEFINE T == {n - i : i \in S}
<1>1. T \in SUBSET Nat /\ T # {}
  <2>1. PICK i \in S : TRUE
    OBVIOUS
  <2>2. n - i \in T
    OBVIOUS
  <2>3. T \in SUBSET Nat
    OBVIOUS
  <2> QED
    BY <2>2, <2>3
<1>2. Min(T) \in T /\ \A j \in T : Min(T) <= j
  <2> HIDE DEF T
  <2> QED
    BY <1>1, MinIsLeast
<1>3. PICK i \in S : Min(T) = n - i
  BY <1>2
<1>4. \A j \in S : n - i <= n - j
  BY <1>2, <1>3
<1>5. \E g \in S : \A j \in S : g >= j
  BY <1>4
<1>6. Max(S) \in S /\ \A j \in S : Max(S) >= j
  BY <1>5, Zenon DEF Max
<1> QED
  BY <1>6
-----------------------------------------------------------------------------
(* Startup: the inductive invariant *)

\* What the files say of a credential.
Said(k) ==
  IF Read(project) /\ k \in DOMAIN project.auth THEN project.auth[k]
  ELSE Read(global) /\ k \in DOMAIN global.auth /\ global.auth[k]

\* The configuration between the two files, and after them.
GlobalMerged ==
  /\ cfg.mode = IF Read(global) THEN Or(global.mode, Default.mode) ELSE Default.mode
  /\ cfg.policy =
       IF Read(global) THEN Or(global.policy, Default.policy) ELSE Default.policy
  /\ DOMAIN cfg.auth = IF Read(global) THEN DOMAIN global.auth ELSE {}
  /\ \A k \in DOMAIN cfg.auth : cfg.auth[k] = global.auth[k]

AllMerged ==
  /\ Mode = EffectiveMode
  /\ cfg.policy = EffectivePolicy
  /\ \A k \in Names : k \in DOMAIN cfg.auth /\ cfg.auth[k] <=> Said(k)

Merging ==
  /\ phase = "global" => cfg = Default
  /\ phase = "project" => GlobalMerged
  /\ phase \notin {"global", "project", "failed"} => AllMerged

\* Why the command may ask for, or go on without, an authentication.
Authorising ==
  /\ phase = "authenticate" => asking \in Usable
  /\ phase = "ready" =>
       \/ methods = <<>>
       \/ accepted /\ asking \in Usable
       \/ ~SomeOf(methods, Usable) /\ ~Strict

StartInv == StartTypeOK /\ Merging /\ Authorising

\* A command begins with the defaults.
LEMMA StartInvInit == StartInit => StartInv
<1> SUFFICES ASSUME StartInit PROVE StartInv
  OBVIOUS
<1>1. Settings(Default)
  <2>1. DOMAIN <<>> = {}
    OBVIOUS
  <2>2. [command |-> "agent", init |-> 0] \in Adapters
    BY ConstantsAssumption DEF Adapters
  <2>3. /\ Default.agent \in Texts /\ Default.mode \in Texts
        /\ Default.policy \in Texts /\ Default.auth = <<>>
        /\ Default.agents = [a \in {"cursor"} |-> [command |-> "agent", init |-> 0]]
    BY ConstantsAssumption DEF Default
  <2> QED
    BY <2>1, <2>2, <2>3 DEF Settings
<1>2. Settings(cfg) /\ adapter \in Adapters
  BY <1>1, ConstantsAssumption DEF StartInit, NoAdapter, Adapters, Unset
<1>3. StartTypeOK
  BY <1>2 DEF StartInit, StartTypeOK, Phases
<1> QED
  BY <1>3 DEF StartInv, StartInit, Merging, Authorising

\* Reading a file keeps the settings well formed.
LEMMA MergeKeepsSettings ==
  ASSUME NEW file \in Globals \cup Projects, Settings(cfg)
  PROVE  Settings(Merged(file))
<1>1. Settings(file)
  BY ConstantsAssumption
<1> QED
  BY <1>1 DEF Settings, Merged, Or, Unset, Over

\* A file that is read is merged, one that is missing changes nothing.
LEMMA MergeFileTypes ==
  ASSUME StartTypeOK, NEW file \in Globals \cup Projects, NEW next \in Phases,
         MergeFile(file, next)
  PROVE  StartTypeOK'
<1>1. Settings(cfg')
  BY MergeKeepsSettings DEF MergeFile, StartTypeOK, Settings
<1> QED
  BY <1>1 DEF StartTypeOK, MergeFile, Fail, Phases, inputs

LEMMA LoadGlobalKeeps ==
  ASSUME StartInv, LoadGlobal
  PROVE  StartInv'
<1> USE DEF StartInv
<1>1. StartTypeOK'
  BY MergeFileTypes DEF LoadGlobal, StartTypeOK, Phases
<1>2. global.is \in {"missing", "malformed", "read"} /\ Settings(global)
  BY ConstantsAssumption DEF StartTypeOK
<1>3. CASE global.is = "malformed"
  BY <1>1, <1>3 DEF LoadGlobal, MergeFile, Fail, Merging, Authorising
<1>4. CASE global.is # "malformed"
  <2>1. phase' = "project" /\ cfg = Default /\ UNCHANGED inputs
    BY <1>4 DEF LoadGlobal, MergeFile, Merging
  <2>2. cfg' = IF Read(global) THEN Merged(global) ELSE Default
    BY <2>1 DEF LoadGlobal, MergeFile, Read
  <2>3. GlobalMerged'
    BY <2>1, <2>2 DEF GlobalMerged, Merged, Default, Read, inputs, Over
  <2> QED
    BY <1>1, <2>1, <2>3 DEF Merging, Authorising
<1> QED
  BY <1>3, <1>4

LEMMA LoadProjectKeeps ==
  ASSUME StartInv, LoadProject
  PROVE  StartInv'
<1> USE DEF StartInv
<1>1. StartTypeOK'
  BY MergeFileTypes DEF LoadProject, StartTypeOK, Phases
<1>2. /\ project.is \in {"missing", "malformed", "read"} /\ Settings(project)
      /\ Settings(global)
  BY ConstantsAssumption DEF StartTypeOK
<1>3. CASE project.is = "malformed"
  BY <1>1, <1>3 DEF LoadProject, MergeFile, Fail, Merging, Authorising
<1>4. CASE project.is # "malformed"
  <2>1. phase' = "resolve" /\ GlobalMerged /\ UNCHANGED inputs
    BY <1>4 DEF LoadProject, MergeFile, Merging
  <2>2. cfg' = IF Read(project) THEN Merged(project) ELSE cfg
    BY <2>1 DEF LoadProject, MergeFile, Read
  <2>3. Mode' = EffectiveMode' /\ cfg'.policy = EffectivePolicy'
    BY <2>1, <2>2 DEF GlobalMerged, Merged, Mode, EffectiveMode, EffectivePolicy,
       Effective, Or, Unset, Read, inputs
  <2>4. ASSUME NEW k \in Names
        PROVE  (k \in DOMAIN cfg'.auth /\ cfg'.auth[k]) <=> Said(k)'
    BY <1>2, <2>1, <2>2 DEF GlobalMerged, Merged, Said, Read, inputs, Settings, Over
  <2> QED
    BY <1>1, <2>1, <2>3, <2>4 DEF Merging, AllMerged, Authorising
<1> QED
  BY <1>3, <1>4

\* What the files say, and what is usable, depends on nothing a step after the
\* files changes.
LEMMA AfterFiles ==
  ASSUME UNCHANGED <<inputs, cfg>>
  PROVE  AllMerged' = AllMerged /\ Usable' = Usable /\ Strict' = Strict
<1> USE DEF inputs
<1>1. Mode' = Mode /\ EffectiveMode' = EffectiveMode
  BY DEF Mode, EffectiveMode, Effective, Read
<1>2. EffectivePolicy' = EffectivePolicy
  BY DEF EffectivePolicy, Effective, Read
<1>3. \A k \in Names : Said(k)' = Said(k)
  BY DEF Said, Read
<1>4. AllMerged' = AllMerged
  BY <1>1, <1>2, <1>3 DEF AllMerged
<1>5. Usable' = Usable
  BY DEF Usable, HasCredential, Configured
<1> QED
  BY <1>4, <1>5 DEF Strict

\* A failure ends the command before its operation.
LEMMA FailKeeps ==
  ASSUME StartInv, NEW c \in {1, 2, 10}, Fail(c),
         UNCHANGED <<inputs, cfg, adapter, methods, asking, accepted>>
  PROVE  StartInv'
<1>1. StartTypeOK'
  BY DEF StartInv, StartTypeOK, Fail, Phases, Settings, inputs
<1> QED
  BY <1>1 DEF StartInv, Merging, Authorising, Fail

LEMMA ResolveKeeps ==
  ASSUME StartInv, Resolve
  PROVE  StartInv'
<1> USE DEF StartInv
<1>1. CASE phase' = "spawn" /\ UNCHANGED code
  <2>1. adapter' \in Adapters
    <3>1. flags.override \in Texts
      BY ConstantsAssumption DEF StartTypeOK
    <3>2. CASE adapter' = [command |-> flags.override, init |-> 0]
      BY <3>1, <3>2 DEF Adapters
    <3>3. CASE /\ Supported
               /\ adapter' = [cfg.agents[Agent] EXCEPT
                                !.init = IF @ > 0 THEN @ ELSE 20]
      BY <3>3 DEF Supported, StartTypeOK, Settings, Adapters
    <3> QED
      BY <1>1, <3>2, <3>3 DEF Resolve, Fail
  <2>2. StartTypeOK'
    BY <1>1, <2>1 DEF Resolve, StartTypeOK, Phases, Settings, inputs
  <2> QED
    BY <1>1, <2>2, AfterFiles DEF Resolve, Merging, Authorising
<1>2. CASE Fail(2) /\ UNCHANGED adapter
  BY <1>2, FailKeeps DEF Resolve
<1> QED
  BY <1>1, <1>2 DEF Resolve

LEMMA SpawnKeeps ==
  ASSUME StartInv, Spawn \/ SpawnFails
  PROVE  StartInv'
<1> USE DEF StartInv
<1>1. CASE Advance("initialize") /\ phase = "spawn"
           /\ UNCHANGED <<inputs, cfg, adapter, methods, asking, accepted>>
  <2>1. StartTypeOK'
    BY <1>1 DEF Advance, StartTypeOK, Phases, Settings, inputs
  <2> QED
    BY <1>1, <2>1, AfterFiles DEF Advance, Merging, Authorising
<1>2. CASE (Fail(1) \/ Fail(10))
           /\ UNCHANGED <<inputs, cfg, adapter, methods, asking, accepted>>
  BY <1>2, FailKeeps
<1> QED
  BY <1>1, <1>2 DEF Spawn, SpawnFails

LEMMA InitializedKeeps ==
  ASSUME StartInv, NEW ms \in Offered, Initialized(ms)
  PROVE  StartInv'
<1> USE DEF StartInv
<1>1. StartTypeOK'
  BY DEF Initialized, Advance, StartTypeOK, Phases, Settings, inputs
<1> QED
  BY <1>1, AfterFiles DEF Initialized, Advance, Merging, Authorising

\* The method asked for is the first usable one of the list.
LEMMA FirstIsUsable ==
  ASSUME StartTypeOK, SomeOf(methods, Usable)
  PROVE  First(methods, Usable) \in Usable
<1>1. methods \in Seq(Methods)
  <2>1. <<>> \in Seq(Methods)
    OBVIOUS
  <2> QED
    BY <2>1, ConstantsAssumption DEF StartTypeOK
<1>2. At(methods, Usable) \in SUBSET Nat /\ At(methods, Usable) # {}
  BY <1>1 DEF At, SomeOf
<1>3. Min(At(methods, Usable)) \in At(methods, Usable)
  BY <1>2, MinIsLeast
<1> QED
  BY <1>3 DEF First, At

LEMMA SelectKeeps ==
  ASSUME StartInv, Select
  PROVE  StartInv'
<1> USE DEF StartInv
<1>1. /\ phase = "select" /\ UNCHANGED <<inputs, cfg, adapter, methods, accepted>>
      /\ AllMerged' /\ Usable' = Usable /\ Strict' = Strict
  BY AfterFiles DEF Select, Merging
<1>2. SomeOf(methods, Usable)' = SomeOf(methods, Usable)
  BY <1>1 DEF SomeOf, At
<1>3. CASE /\ SomeOf(methods, Usable) /\ asking' = First(methods, Usable)
           /\ Advance("authenticate")
  <2>1. asking' \in Usable
    BY <1>3, FirstIsUsable
  <2>2. StartTypeOK'
    BY <1>1, <1>3, <2>1 DEF Advance, StartTypeOK, Phases, Settings, Usable, inputs
  <2> QED
    BY <1>1, <1>3, <2>1, <2>2 DEF Advance, Merging, Authorising
<1>4. CASE Fail(1) /\ UNCHANGED asking
  BY <1>1, <1>4, FailKeeps
<1>5. CASE /\ ~SomeOf(methods, Usable) /\ (methods = <<>> \/ ~Strict)
           /\ Advance("ready") /\ UNCHANGED asking
  <2>1. StartTypeOK'
    BY <1>1, <1>5 DEF Advance, StartTypeOK, Phases, Settings, inputs
  <2> QED
    BY <1>1, <1>2, <1>5, <2>1 DEF Advance, Merging, Authorising
<1> QED
  BY <1>3, <1>4, <1>5 DEF Select

LEMMA AuthenticatedKeeps ==
  ASSUME StartInv, Authenticated
  PROVE  StartInv'
<1> USE DEF StartInv
<1>1. StartTypeOK'
  BY DEF Authenticated, Advance, StartTypeOK, Phases, Settings, inputs
<1> QED
  BY <1>1, AfterFiles DEF Authenticated, Advance, Merging, Authorising

\* Every step of the start.
LEMMA StartNextKeeps ==
  ASSUME StartInv, StartNext
  PROVE  StartInv'
<1>1. CASE InitializeFails \/ AuthenticateFails \/ StartTimesOut
  BY <1>1, FailKeeps DEF InitializeFails, AuthenticateFails, StartTimesOut
<1> QED
  BY <1>1, LoadGlobalKeeps, LoadProjectKeeps, ResolveKeeps, SpawnKeeps,
     InitializedKeeps, SelectKeeps, AuthenticatedKeeps
  DEF StartNext, StartStep, AgentAnswers

\* A step of the requests leaves all of it as it is.
LEMMA StartInvStutters ==
  ASSUME StartInv, UNCHANGED startVars
  PROVE  StartInv'
<1> USE DEF StartInv, startVars
<1>1. UNCHANGED <<inputs, cfg>>
  OBVIOUS
<1>2. StartTypeOK'
  BY <1>1 DEF StartTypeOK, Settings, inputs
<1>3. Merging'
  BY <1>1, AfterFiles DEF Merging, GlobalMerged, Read, inputs
<1>4. Authorising'
  BY <1>1, AfterFiles DEF Authorising, SomeOf, At
<1> QED
  BY <1>2, <1>3, <1>4

-----------------------------------------------------------------------------
(* Startup: what follows *)

\* A method has a credential just when the places that may name one say so.
LEMMA AvailableIsUsable ==
  ASSUME AllMerged, NEW m \in Methods
  PROVE  Available(m) <=> m \in Usable
<1>1. \A k \in NamesOf(m) : k \in Names
  BY DEF NamesOf, Names
<1>2. Configured(m) <=> \E k \in NamesOf(m) : Said(k)
  BY <1>1 DEF Configured, AllMerged
<1> QED
  BY <1>2 DEF Usable, HasCredential, Available, Said

\* What is configured reaches the agent under a name the method goes by.
LEMMA ConfiguredIsGiven ==
  ASSUME NEW m \in Methods, Configured(m)
  PROVE  {<<"token", m>>, <<"prefixed", m>>} \cap AgentEnv # {}
<1>1. PICK k \in NamesOf(m) \cap DOMAIN cfg.auth : cfg.auth[k]
  BY DEF Configured
<1>2. Given(k) \subseteq AgentEnv
  BY <1>1 DEF AgentEnv
<1>3. PICK f \in Forms : k = <<f, m>>
  BY <1>1 DEF NamesOf
<1>4. CASE f = "prefixed"
  <2>1. <<"prefixed", m>> \in Given(k)
    BY <1>3, <1>4 DEF Given
  <2> QED
    BY <1>2, <2>1
<1>5. CASE f # "prefixed"
  <2>1. <<"token", m>> \in Given(k)
    BY <1>3, <1>5 DEF Given
  <2> QED
    BY <1>2, <2>1
<1> QED
  BY <1>4, <1>5

LEMMA StartInvAuthorised ==
  ASSUME StartInv
  PROVE  ReadyIsAuthorised
<1> SUFFICES ASSUME phase = "ready", methods # <<>>
             PROVE  \/ /\ accepted /\ Available(asking)
                       /\ \/ NamesOf(asking) \cap env # {}
                          \/ {<<"token", asking>>, <<"prefixed", asking>>} \cap AgentEnv # {}
                    \/ /\ ~SomeOf(methods, {m \in Methods : Available(m)})
                       /\ EffectivePolicy \notin {"fail", "Fail", "FAIL"}
  BY DEF ReadyIsAuthorised
<1>1. AllMerged
  BY DEF StartInv, Merging
<1>2. CASE accepted /\ asking \in Usable
  <2>1. asking \in Methods /\ Available(asking)
    BY <1>1, <1>2, AvailableIsUsable DEF Usable
  <2>2. NamesOf(asking) \cap env # {} \/ Configured(asking)
    BY <1>2 DEF Usable, HasCredential
  <2> QED
    BY <1>2, <2>1, <2>2, ConfiguredIsGiven
<1>3. CASE ~SomeOf(methods, Usable) /\ ~Strict
  <2>1. {m \in Methods : Available(m)} = Usable
    BY <1>1, AvailableIsUsable DEF Usable
  <2>2. EffectivePolicy \notin {"fail", "Fail", "FAIL"}
    BY <1>1, <1>3 DEF AllMerged, Strict
  <2> QED
    BY <1>3, <2>1, <2>2
<1> QED
  BY <1>2, <1>3 DEF StartInv, Authorising

-----------------------------------------------------------------------------
(* Permissions: the decisions *)

\* What is picked is an option that fits, or there is none.
LEMMA PickFits ==
  ASSUME NEW options \in Seq(Options), NEW kinds
  PROVE  \/ Pick(options, kinds) = Cancelled
         \/ \E o \in Range(options) :
              /\ o.id # Unset /\ KindOf(o) \in kinds
              /\ Pick(options, kinds) = Selected(o.id, o.padded = "id")
<1> DEFINE fits == {i \in DOMAIN options :
                      options[i].id # Unset /\ KindOf(options[i]) \in kinds}
<1>1. CASE fits = {}
  BY <1>1 DEF Pick
<1>2. CASE fits # {}
  <2>1. fits \in SUBSET Nat
    OBVIOUS
  <2>2. Min(fits) \in fits
    <3> HIDE DEF fits
    <3> QED
      BY <1>2, <2>1, MinIsLeast
  <2>3. Pick(options, kinds) =
          Selected(options[Min(fits)].id, options[Min(fits)].padded = "id")
    BY <1>2 DEF Pick
  <2> QED
    BY <2>2, <2>3 DEF Range
<1> QED
  BY <1>1, <1>2

\* Offers(options, result, kinds): the result is an option of these kinds.
Offers(options, result, kinds) ==
  \E o \in Range(options) :
    o.id # Unset /\ o.kind \in kinds /\ result = Selected(o.id, o.padded = "id")

\* What rejects is of a kind that rejects, what allows of one that allows.
LEMMA AllowAndReject ==
  ASSUME NEW options \in Seq(Options)
  PROVE  /\ Allow(options) = Cancelled
              \/ Offers(options, Allow(options), Kinds)
         /\ Reject(options) = Cancelled
              \/ Offers(options, Reject(options), {"reject_once", "reject_always"})
         /\ Pick(options, Kinds) = Cancelled
              \/ Offers(options, Pick(options, Kinds), Kinds)
<1>1. \A o \in Range(options) : o \in Options
  BY DEF Range
<1>2. ASSUME NEW kinds \in SUBSET (Kinds \ {"other"})
      PROVE  Pick(options, kinds) = Cancelled
               \/ Offers(options, Pick(options, kinds), kinds)
  BY <1>1, PickFits DEF Offers, KindOf
<1>3. \A o \in Range(options) : o.kind \in Kinds
  BY <1>1 DEF Options
<1>4. Pick(options, Kinds) = Cancelled \/ Offers(options, Pick(options, Kinds), Kinds)
  BY <1>3, PickFits DEF Offers
<1>5. ASSUME NEW one \in {"allow_once", "allow_always", "reject_once", "reject_always"}
      PROVE  Pick(options, {one}) = Cancelled
               \/ Offers(options, Pick(options, {one}), {one})
  BY <1>2 DEF Kinds
<1> QED
  BY <1>4, <1>5 DEF Allow, Reject, Prefer, Offers, Kinds

LEMMA DecisionOffers ==
  ASSUME NEW a \in Asks
  PROVE  \/ Decision(a) = Cancelled
         \/ /\ Offers(a.options, Decision(a), Kinds)
            /\ \/ Offers(a.options, Decision(a), {"reject_once", "reject_always"})
               \/ Mode = "approve-all"
               \/ Mode # "deny-all" /\ a.readOnly
<1>1. a.options \in Seq(Options)
  BY AsksAssumption
<1>2. \A result : Offers(a.options, result, {"reject_once", "reject_always"})
                     => Offers(a.options, result, Kinds)
  BY DEF Offers, Kinds
<1> QED
  BY <1>1, <1>2, AllowAndReject DEF Decision, Prefer

-----------------------------------------------------------------------------
(* Permissions: the menu *)

\* No two kinds have the same number beside them.
LEMMA NumbersDiffer ==
  ASSUME NEW options, NEW j \in Printed(options), NEW k \in Printed(options), j < k
  PROVE  Beside(options, j) \in Nat /\ Beside(options, j) < Beside(options, k)
<1> DEFINE upTo(i) == {l \in Printed(options) : l <= i}
<1>1. Printed(options) \subseteq 1..4
  BY DEF Printed, Order
<1>2. IsFiniteSet(upTo(j)) /\ IsFiniteSet(upTo(k))
  <2>1. IsFiniteSet(1..4)
    <3>1. 1 \in Int /\ 4 \in Int
      OBVIOUS
    <3> QED
      BY <3>1, FS_Interval, Zenon
  <2>2. upTo(j) \subseteq 1..4 /\ upTo(k) \subseteq 1..4
    BY <1>1
  <2> QED
    BY <2>1, <2>2, FS_Subset
<1>3. upTo(j) \subseteq upTo(k) /\ upTo(j) # upTo(k)
  <2>1. k \in upTo(k) /\ k \notin upTo(j)
    BY <1>1
  <2> QED
    BY <1>1, <2>1
<1>4. /\ Cardinality(upTo(j)) \in Nat /\ Cardinality(upTo(k)) \in Nat
      /\ Cardinality(upTo(j)) <= Cardinality(upTo(k))
      /\ Cardinality(upTo(j)) # Cardinality(upTo(k))
  <2> HIDE DEF upTo
  <2> QED
    BY <1>2, <1>3, FS_Subset, FS_CardinalityType
<1> QED
  BY <1>4 DEF Beside

\* The numbers are numbers.
LEMMA BesideTypes ==
  ASSUME NEW options, NEW k \in Printed(options)
  PROVE  Beside(options, k) \in Nat
<1> DEFINE upTo == {j \in Printed(options) : j <= k}
<1>1. upTo \subseteq 1..4
  BY DEF Printed, Order
<1>2. 1 \in Int /\ 4 \in Int
  OBVIOUS
<1>3. IsFiniteSet(upTo)
  <2> HIDE DEF upTo
  <2> QED
    BY <1>1, <1>2, FS_Interval, FS_Subset, Zenon
<1>4. Cardinality(upTo) \in Nat
  <2> HIDE DEF upTo
  <2> QED
    BY <1>3, FS_CardinalityType, Zenon
<1> QED
  BY <1>4 DEF Beside

\* A number chooses an option of the kind printed beside it, if there is one.
LEMMA ChosenIsBeside ==
  ASSUME NEW options \in Seq(Options), NEW n
  PROVE  /\ (\A k \in Printed(options) : Beside(options, k) # n)
               => Chosen(options, n) = Cancelled
         /\ \A k \in Printed(options) : Beside(options, k) = n =>
              \E o \in Range(options) :
                /\ o.id # Unset /\ o.kind = Order[k]
                /\ Chosen(options, n) = Selected(o.id, FALSE)
<1> DEFINE lines == {k \in Printed(options) : Counted(options, k) = n}
<1>1. lines = {k \in Printed(options) : Beside(options, k) = n}
  BY DEF Counted
<1>2. ASSUME \A k \in Printed(options) : Beside(options, k) # n
      PROVE  Chosen(options, n) = Cancelled
  <2>1. lines = {}
    BY <1>1, <1>2
  <2> QED
    BY <2>1 DEF Chosen
<1>3. ASSUME NEW k \in Printed(options), Beside(options, k) = n
      PROVE  \E o \in Range(options) :
               /\ o.id # Unset /\ o.kind = Order[k]
               /\ Chosen(options, n) = Selected(o.id, FALSE)
  <2> DEFINE these == OfKind(options, Order[k])
  <2>1. k \in lines /\ lines \subseteq Printed(options)
    BY <1>1, <1>3
  <2>2. Printed(options) \subseteq 1..4
    BY DEF Printed, Order
  <2>3. Min(lines) \in lines
    <3>1. lines \subseteq Nat /\ lines # {}
      <4> HIDE DEF lines
      <4> QED
        BY <2>1, <2>2
    <3> HIDE DEF lines
    <3> QED
      BY <3>1, MinIsLeast
  <2>4. Min(lines) = k
    <3>1. Min(lines) \in Printed(options) /\ Beside(options, Min(lines)) = n
      BY <1>1, <2>3
    <3>2. ~(Min(lines) < k) /\ ~(k < Min(lines))
      BY <1>3, <3>1, NumbersDiffer
    <3> QED
      BY <2>2, <3>1, <3>2
  <2>5. these # {} /\ these \in SUBSET (1..Len(options))
    BY DEF Printed, OfKind
  <2>6. Max(these) \in these
    <3> HIDE DEF these
    <3>1. Len(options) \in Nat
      OBVIOUS
    <3> QED
      BY <2>5, <3>1, MaxIsGreatest
  <2>7. Chosen(options, n) = Selected(options[Max(these)].id, FALSE)
    BY <2>1, <2>4 DEF Chosen
  <2> QED
    BY <2>6, <2>7 DEF OfKind, Range
<1> QED
  BY <1>2, <1>3

\* A denial is a cancellation or the selection of an option that rejects,
\* whichever of the options with its identifier is looked at.
LEMMA DeniedIsRejected ==
  ASSUME NEW a \in Asks, NEW result, result.outcome = "selected", ~result.padded,
         \A o, p \in Range(a.options) :
           o.id = p.id => o.kind = p.kind \/ o.id = Unset,
         NEW o \in Range(a.options), o.id = result.id, o.id # Unset
  PROVE  Denied(a, result) <=> Rejects(o.kind)
<1> DEFINE named == {i \in DOMAIN a.options : a.options[i].id = result.id}
<1>1. a.options \in Seq(Options)
  BY AsksAssumption
<1>2. named \in SUBSET Nat /\ named # {}
  BY <1>1 DEF Range
<1>3. Min(named) \in named
  <2> HIDE DEF named
  <2> QED
    BY <1>2, MinIsLeast
<1>4. a.options[Min(named)].kind = o.kind
  <2>1. a.options[Min(named)] \in Range(a.options)
    BY <1>3 DEF Range
  <2>2. a.options[Min(named)].id = o.id
    BY <1>3
  <2> QED
    BY <2>1, <2>2
<1>5. result # Cancelled
  BY DEF Cancelled
<1> QED
  BY <1>2, <1>4, <1>5 DEF Denied

-----------------------------------------------------------------------------
(* Permissions: the inductive invariant *)

\* A request is made in "ready" only, waits for a menu in mode "ask" only, and
\* nobody types for it before the menu or reports it before the reply.
Waiting ==
  \A r \in Requests :
    /\ place[r] # "none" => phase = "ready" /\ ask[r] \in Asks
    /\ place[r] \in {"sleeping", "menu"} => Mode = "ask"
    /\ place[r] \in {"none", "sleeping"} => typed[r] = None
    /\ ~Replied(r) => r \notin reported

\* While a menu is alone, the only line there may be is the one typed for it.
Alone ==
  \A r \in Menus \ crossed :
    Menus = {r} /\ tty = IF typed[r] = None THEN <<>> ELSE <<typed[r]>>

\* A reply is the decision for the mode, or else follows from a line, which is
\* the one typed for it unless its menu was crossed.
ByTheMenu(r) ==
  \/ reply[r] = Cancelled /\ (r \notin crossed => typed[r] = None)
  \/ \E n \in Lines : /\ reply[r] = Chosen(ask[r].options, n)
                      /\ r \notin crossed => typed[r] = n

Answered ==
  \A r \in Requests : Replied(r) =>
    /\ r \in reported <=> Denied(ask[r], reply[r])
    /\ Mode # "ask" => reply[r] = Decision(ask[r])
    /\ Mode = "ask" => ByTheMenu(r)

Inv == TypeOK /\ StartInv /\ Waiting /\ Alone /\ Answered

LEMMA InvInit == Init => Inv
<1> SUFFICES ASSUME Init PROVE Inv
  OBVIOUS
<1>1. StartInv
  BY StartInvInit DEF Init
<1>2. Unanswered \in Results
  BY ConstantsAssumption DEF Unanswered, Results
<1>3. TypeOK
  <2>1. tty \in Seq(Lines) /\ ahead \in 0..MaxAhead
    BY AsksAssumption DEF Init
  <2> QED
    BY <1>1, <1>2, <2>1 DEF Init, TypeOK, StartInv
<1>4. Waiting /\ Alone /\ Answered
  BY DEF Init, Waiting, Alone, Answered, Replied, Menus
<1> QED
  BY <1>1, <1>3, <1>4 DEF Inv

\* Once there is a request the start is over.
LEMMA StartKeeps ==
  ASSUME Inv, StartNext, UNCHANGED permVars
  PROVE  Inv'
<1>1. StartInv'
  BY StartNextKeeps DEF Inv
<1>2. TypeOK'
  BY <1>1 DEF Inv, TypeOK, StartInv, permVars
<1>3. \A r \in Requests : place[r] = "none"
  BY DEF Inv, Waiting, StartNext, StartStep, AgentAnswers, LoadGlobal, LoadProject,
     Resolve, Spawn, SpawnFails, Select, Initialized, InitializeFails, Authenticated,
     AuthenticateFails, StartTimesOut, Pending
<1>4. Waiting' /\ Alone' /\ Answered'
  BY <1>3 DEF Inv, Waiting, Alone, Answered, Replied, Menus, permVars
<1> QED
  BY <1>1, <1>2, <1>4 DEF Inv

\* An identifier selected, and a cancellation, are results.
LEMMA ResultTypes ==
  /\ Cancelled \in Results
  /\ \A id \in Texts, padded \in BOOLEAN : Selected(id, padded) \in Results
<1>1. Unset \in Texts
  BY ConstantsAssumption
<1>2. Cancelled \in Results
  BY <1>1 DEF Cancelled, Results
<1>3. ASSUME NEW id \in Texts, NEW padded \in BOOLEAN
      PROVE  Selected(id, padded) \in Results
  BY DEF Selected, Results
<1> QED
  BY <1>2, <1>3

LEMMA OptionTypes ==
  ASSUME NEW options \in Seq(Options), NEW o \in Range(options)
  PROVE  o.id \in Texts
<1>1. PICK i \in DOMAIN options : o = options[i]
  BY DEF Range
<1>2. o \in Options
  BY <1>1
<1> QED
  BY <1>2 DEF Options

LEMMA ChosenTypes ==
  ASSUME NEW options \in Seq(Options), NEW n
  PROVE  Chosen(options, n) \in Results
<1>1. \/ Chosen(options, n) = Cancelled
      \/ \E o \in Range(options) : Chosen(options, n) = Selected(o.id, FALSE)
  BY ChosenIsBeside
<1> QED
  BY <1>1, ResultTypes, OptionTypes

LEMMA DecisionTypes ==
  ASSUME NEW a \in Asks
  PROVE  Decision(a) \in Results
<1>1. a.options \in Seq(Options)
  BY AsksAssumption
<1>2. \/ Decision(a) = Cancelled
      \/ \E o \in Range(a.options) : Decision(a) = Selected(o.id, o.padded = "id")
  BY DecisionOffers DEF Offers
<1> QED
  BY <1>1, <1>2, ResultTypes, OptionTypes

\* What an answer changes, and that it keeps what was said of other requests.
LEMMA AnswerKeeps ==
  ASSUME Inv, NEW r \in Requests, NEW a \in Asks, NEW result \in Results,
         ~Replied(r), phase = "ready", UNCHANGED startVars,
         ask' = [ask EXCEPT ![r] = a], Answer(r, a, result),
         UNCHANGED <<eof, typed, ahead, crossed>>, tty' \in Seq(Lines),
         Mode # "ask" => result = Decision(a),
         Mode = "ask" =>
           \/ result = Cancelled /\ (r \notin crossed => typed[r] = None)
           \/ \E n \in Lines : /\ result = Chosen(a.options, n)
                               /\ r \notin crossed => typed[r] = n,
         \A q \in Menus \ crossed : q = r \/ (r \notin Menus /\ tty' = tty)
  PROVE  Inv'
<1> USE DEF Inv
<1>1. StartInv'
  BY StartInvStutters
<1>2. /\ place' = [place EXCEPT ![r] = "replied"] /\ reply' = [reply EXCEPT ![r] = result]
      /\ reported' = IF Denied(a, result) THEN reported \cup {r} ELSE reported
  BY DEF Answer
<1>3. TypeOK'
  BY <1>1, <1>2 DEF TypeOK, StartInv
<1>4. Mode' = Mode /\ phase' = phase
  BY DEF Mode, startVars, inputs
<1>5. Waiting'
  BY <1>2, <1>4 DEF Waiting, TypeOK, Replied
<1>6. Menus' = Menus \ {r}
  BY <1>2 DEF Menus, TypeOK
<1>7. Alone'
  BY <1>6 DEF Alone
<1>8. Answered'
  <2> SUFFICES ASSUME NEW q \in Requests, Replied(q)'
               PROVE  /\ q \in reported' <=> Denied(ask[q], reply[q])'
                      /\ Mode # "ask" => reply'[q] = Decision(ask[q])'
                      /\ Mode = "ask" => ByTheMenu(q)'
    BY <1>4 DEF Answered
  <2>1. \A b \in Asks : Decision(b)' = Decision(b)
    BY <1>4 DEF Decision
  <2>2. CASE q = r
    <3>1. r \notin reported
      BY DEF Waiting
    <3>2. ask'[q] = a /\ reply'[q] = result
      BY <1>2, <2>2 DEF TypeOK
    <3>3. q \in reported' <=> Denied(ask'[q], reply'[q])
      BY <1>2, <2>2, <3>1, <3>2
    <3>4. Mode # "ask" => reply'[q] = Decision(ask[q])'
      BY <2>1, <3>2
    <3>5. Mode = "ask" => ByTheMenu(q)'
      BY <2>2, <3>2 DEF ByTheMenu
    <3> QED
      BY <3>3, <3>4, <3>5
  <2>3. CASE q # r
    <3>1. /\ Replied(q) /\ ask'[q] = ask[q] /\ reply'[q] = reply[q]
          /\ q \in reported' <=> q \in reported
      BY <1>2, <2>3 DEF TypeOK, Replied
    <3>2. PICK b \in Asks : ask[q] = b
      BY <3>1 DEF Waiting, Replied
    <3>3. Decision(ask[q])' = Decision(ask[q])
      BY <2>1, <3>1, <3>2
    <3> QED
      BY <3>1, <3>3 DEF Answered, ByTheMenu
  <2> QED
    BY <2>2, <2>3
<1> QED
  BY <1>1, <1>3, <1>5, <1>7, <1>8

LEMMA AgentAsksKeeps ==
  ASSUME Inv, NEW r \in Requests, NEW a \in Asks, AgentAsks(r, a),
         UNCHANGED startVars
  PROVE  Inv'
<1> USE DEF Inv
<1>1. /\ phase = "ready" /\ place[r] = "none" /\ ask' = [ask EXCEPT ![r] = a]
      /\ UNCHANGED <<tty, eof, typed, ahead, crossed>>
  BY DEF AgentAsks
<1>2. CASE Mode # "ask" /\ Answer(r, a, Decision(a))
  <2>1. ~Replied(r) /\ r \notin Menus /\ tty' \in Seq(Lines)
    BY <1>1 DEF Replied, Menus, TypeOK
  <2> QED
    BY <1>1, <1>2, <2>1, DecisionTypes, AnswerKeeps
<1>3. CASE /\ Mode = "ask" /\ place' = [place EXCEPT ![r] = "sleeping"]
           /\ UNCHANGED <<reply, reported>>
  <2>1. StartInv' /\ Mode' = Mode /\ phase' = phase
    BY StartInvStutters DEF Mode, startVars, inputs
  <2>2. TypeOK'
    BY <1>1, <1>3, <2>1 DEF TypeOK, StartInv
  <2>3. Waiting'
    BY <1>1, <1>3, <2>1 DEF Waiting, TypeOK, Replied
  <2>4. Alone'
    BY <1>1, <1>3 DEF Alone, Menus, TypeOK
  <2>5. \A q \in Requests : Replied(q)' => Replied(q) /\ ask'[q] = ask[q]
    BY <1>1, <1>3 DEF Replied, TypeOK
  <2>6. Answered'
    BY <1>1, <1>3, <2>1, <2>5 DEF Answered, ByTheMenu
  <2> QED
    BY <2>1, <2>2, <2>3, <2>4, <2>6
<1> QED
  BY <1>2, <1>3 DEF AgentAsks

\* A step that leaves requests and replies as they are keeps what was said of
\* the replies, though more menus may have been crossed or lines typed.
LEMMA AnsweredStays ==
  ASSUME Inv, UNCHANGED startVars, UNCHANGED <<ask, reply, reported>>,
         \A r \in Requests : Replied(r)' => Replied(r) /\ typed'[r] = typed[r],
         crossed \subseteq crossed'
  PROVE  Answered'
<1> SUFFICES ASSUME NEW r \in Requests, Replied(r)'
             PROVE  /\ r \in reported <=> Denied(ask[r], reply[r])
                    /\ Mode' # "ask" => reply[r] = Decision(ask[r])'
                    /\ Mode' = "ask" => ByTheMenu(r)'
  BY DEF Answered
<1>1. Mode' = Mode
  BY DEF Mode, startVars, inputs
<1>2. Decision(ask[r])' = Decision(ask[r])
  BY <1>1 DEF Decision
<1>3. ByTheMenu(r) => ByTheMenu(r)'
  BY DEF ByTheMenu
<1> QED
  BY <1>1, <1>2, <1>3 DEF Inv, Answered

LEMMA ShowMenuKeeps ==
  ASSUME Inv, NEW r \in Requests, ShowMenu(r), UNCHANGED startVars
  PROVE  Inv'
<1> USE DEF Inv
<1>1. /\ place[r] = "sleeping" /\ place' = [place EXCEPT ![r] = "menu"]
      /\ UNCHANGED <<ask, reply, reported, tty, eof, typed, ahead>>
      /\ crossed \subseteq crossed' /\ crossed' \subseteq crossed \cup Menus \cup {r}
      /\ Menus # {} => Menus \cup {r} \subseteq crossed'
      /\ tty # <<>> => r \in crossed'
  BY DEF ShowMenu
<1>2. StartInv' /\ Mode' = Mode /\ phase' = phase
  BY StartInvStutters DEF Mode, startVars, inputs
<1>3. TypeOK'
  BY <1>1, <1>2 DEF TypeOK, StartInv, Menus
<1>4. Waiting'
  BY <1>1, <1>2 DEF Waiting, TypeOK, Replied
<1>5. Menus' = Menus \cup {r}
  BY <1>1 DEF Menus, TypeOK
<1>6. Alone'
  <2> SUFFICES ASSUME NEW q \in Menus' \ crossed'
               PROVE  /\ Menus' = {q}
                      /\ tty' = IF typed'[q] = None THEN <<>> ELSE <<typed'[q]>>
    BY DEF Alone
  <2>1. Menus = {} /\ q = r /\ tty = <<>>
    BY <1>1, <1>5
  <2>2. typed[r] = None
    BY <1>1 DEF Waiting
  <2> QED
    BY <1>1, <1>5, <2>1, <2>2
<1>7. Answered'
  BY <1>1, AnsweredStays DEF Replied, TypeOK
<1> QED
  BY <1>2, <1>3, <1>4, <1>6, <1>7

\* What is left of the lines is lines.
LEMMA Rest ==
  ASSUME tty \in Seq(Lines), NEW n \in Taken
  PROVE  SubSeq(tty, n + 1, Len(tty)) \in Seq(Lines)
<1>1. n \in Nat /\ Len(tty) \in Nat /\ n >= 1
  BY DEF Taken
<1> QED
  BY <1>1

LEMMA ScanKeeps ==
  ASSUME Inv, NEW r \in Requests, Scan(r), UNCHANGED startVars
  PROVE  Inv'
<1> USE DEF Inv
<1>1. /\ place[r] = "menu" /\ UNCHANGED <<ask, eof, typed, ahead, crossed>>
      /\ ~Replied(r) /\ r \in Menus
  BY DEF Scan, Replied, Menus
<1>2. phase = "ready" /\ ask[r] \in Asks /\ Mode = "ask"
  BY <1>1 DEF Waiting
<1>3. PICK a \in Asks : a = ask[r]
  BY <1>2
<1>4. ask' = [ask EXCEPT ![r] = a]
  BY <1>1, <1>3 DEF TypeOK
<1>5. \A q \in Menus \ crossed : q = r
  BY <1>1 DEF Alone
<1>6. r \notin crossed => tty = IF typed[r] = None THEN <<>> ELSE <<typed[r]>>
  BY <1>1 DEF Alone
<1>7. CASE tty # <<>> /\ Answer(r, a, Chosen(a.options, Head(tty)))
           /\ \E n \in Taken : tty' = SubSeq(tty, n + 1, Len(tty))
  <2>1. Head(tty) \in Lines
    BY <1>7 DEF TypeOK
  <2>2. tty' \in Seq(Lines)
    BY <1>7, Rest DEF TypeOK
  <2>3. r \notin crossed => typed[r] = Head(tty)
    BY <1>6, <1>7
  <2>4. Chosen(a.options, Head(tty)) \in Results
    BY <2>1, ChosenTypes, AsksAssumption
  <2> QED
    BY <1>1, <1>2, <1>4, <1>5, <1>7, <2>1, <2>2, <2>3, <2>4, AnswerKeeps
<1>8. CASE tty = <<>> /\ Answer(r, a, Cancelled) /\ UNCHANGED tty
  <2>1. r \notin crossed => typed[r] = None
    BY <1>6, <1>8
  <2>2. tty' \in Seq(Lines) /\ Cancelled \in Results
    BY <1>8, ResultTypes DEF TypeOK
  <2> QED
    BY <1>1, <1>2, <1>4, <1>5, <1>8, <2>1, <2>2, AnswerKeeps
<1> QED
  BY <1>3, <1>7, <1>8 DEF Scan

LEMMA TypeKeeps ==
  ASSUME Inv, NEW r \in Requests, NEW n \in Lines, Type(r, n), UNCHANGED startVars
  PROVE  Inv'
<1> USE DEF Inv
<1>1. /\ place[r] = "menu" /\ typed[r] = None
      /\ typed' = [typed EXCEPT ![r] = n] /\ tty' = Append(tty, n)
      /\ UNCHANGED <<place, ask, reply, reported, eof, ahead, crossed>>
  BY DEF Type
<1>2. StartInv' /\ Mode' = Mode /\ phase' = phase
  BY StartInvStutters DEF Mode, startVars, inputs
<1>3. TypeOK'
  BY <1>1, <1>2 DEF TypeOK, StartInv
<1>4. Waiting'
  BY <1>1, <1>2 DEF Waiting, TypeOK, Replied
<1>5. Alone'
  <2> SUFFICES ASSUME NEW q \in Menus \ crossed
               PROVE  /\ Menus = {q}
                      /\ tty' = IF typed'[q] = None THEN <<>> ELSE <<typed'[q]>>
    BY <1>1 DEF Alone, Menus
  <2>1. Menus = {q} /\ q = r /\ tty = <<>>
    BY <1>1 DEF Alone, Menus
  <2>2. typed'[q] = n /\ n # None
    BY <1>1, <2>1, AsksAssumption DEF TypeOK
  <2> QED
    BY <1>1, <2>1, <2>2
<1>6. Answered'
  BY <1>1, AnsweredStays DEF Replied, TypeOK
<1> QED
  BY <1>2, <1>3, <1>4, <1>5, <1>6

LEMMA TerminalKeeps ==
  ASSUME Inv, EndInput \/ \E n \in Lines : TypeAhead(n), UNCHANGED startVars
  PROVE  Inv'
<1> USE DEF Inv
<1>1. /\ UNCHANGED <<place, ask, reply, reported, typed, crossed>>
      /\ tty' = tty \/ Menus = {}
  BY DEF EndInput, TypeAhead
<1>2. StartInv' /\ Mode' = Mode /\ phase' = phase
  BY StartInvStutters DEF Mode, startVars, inputs
<1>3. TypeOK'
  <2>1. CASE EndInput
    BY <1>1, <1>2, <2>1 DEF EndInput, TypeOK, StartInv
  <2>2. CASE \E n \in Lines : TypeAhead(n)
    <3>1. PICK n \in Lines : TypeAhead(n)
      BY <2>2
    <3>2. tty' \in Seq(Lines) /\ eof' = eof
      BY <3>1 DEF TypeAhead, TypeOK
    <3>3. ahead' \in 0..MaxAhead
      BY <3>1, AsksAssumption DEF TypeAhead, TypeOK
    <3> QED
      BY <1>1, <1>2, <3>1, <3>2, <3>3 DEF TypeAhead, TypeOK, StartInv
  <2> QED
    BY <2>1, <2>2
<1>4. Waiting' /\ Alone'
  BY <1>1, <1>2 DEF Waiting, Alone, Replied, Menus
<1>5. Answered'
  BY <1>1, AnsweredStays DEF Replied
<1> QED
  BY <1>2, <1>3, <1>4, <1>5

LEMMA InvNext == Inv /\ [Next]_vars => Inv'
<1> SUFFICES ASSUME Inv, [Next]_vars PROVE Inv'
  OBVIOUS
<1>1. CASE StartNext /\ UNCHANGED permVars
  BY <1>1, StartKeeps
<1>2. CASE Prompting /\ UNCHANGED startVars
  BY <1>2, AgentAsksKeeps, ShowMenuKeeps, ScanKeeps, TypeKeeps, TerminalKeeps
  DEF Prompting
<1>3. CASE UNCHANGED vars
  <2>1. UNCHANGED startVars /\ UNCHANGED permVars
    BY <1>3 DEF vars
  <2>2. StartInv' /\ Mode' = Mode /\ phase' = phase
    BY <2>1, StartInvStutters DEF Inv, Mode, startVars, inputs
  <2>3. Waiting' /\ Alone'
    BY <2>1, <2>2 DEF Inv, Waiting, Alone, Replied, Menus, permVars
  <2>4. Answered'
    BY <2>1, AnsweredStays DEF Replied, permVars
  <2> QED
    BY <2>1, <2>2, <2>3, <2>4 DEF Inv, TypeOK, StartInv, permVars
<1> QED
  BY <1>1, <1>2, <1>3 DEF Next

LEMMA Invariant == Spec => []Inv
BY InvInit, InvNext, PTL DEF Spec

-----------------------------------------------------------------------------
(* The theorems *)

\* The variables of Startup and Permissions are of their types.
THEOREM TypeCorrect == Spec => []TypeOK
<1>1. Inv => TypeOK
  BY DEF Inv
<1> QED
  BY <1>1, Invariant, PTL

\* A command goes on with an agent that asks for authentication when a method
\* was accepted whose credential the agent was given, or when there is none and
\* the policy lets it (client.go 709-758, config.go 47-107).
THEOREM Authorised == Spec => []ReadyIsAuthorised
<1>1. Inv => ReadyIsAuthorised
  BY StartInvAuthorised DEF Inv
<1> QED
  BY <1>1, Invariant, PTL

\* Nothing is allowed but by the mode or a typed line (client.go 813-884).
THEOREM AllowJustified == Spec => []AllowIsJustified
<1>1. ASSUME Inv PROVE AllowIsJustified
  <2> SUFFICES ASSUME NEW r \in Requests, Replied(r), reply[r].outcome = "selected"
               PROVE  /\ Meant(r) # {}
                      /\ Unambiguous(r) => \A o \in Meant(r) : Rejects(o.kind) \/
                           CASE EffectiveMode = "approve-all" -> TRUE
                             [] EffectiveMode = "deny-all"    -> FALSE
                             [] EffectiveMode = "ask"  -> typed[r] # None \/ r \in crossed
                             [] OTHER                         -> ask[r].readOnly
    BY DEF AllowIsJustified
  <2>1. ask[r] \in Asks /\ Mode = EffectiveMode
    BY <1>1 DEF Inv, Waiting, Replied, StartInv, Merging, AllMerged
  <2>2. reply[r] # Cancelled
    BY DEF Cancelled
  <2>3. PICK a \in Asks : a = ask[r]
    BY <2>1
  <2>4. a.options \in Seq(Options)
    BY AsksAssumption
  <2>5. CASE Mode = "ask"
    <3>1. PICK n \in Lines : /\ reply[r] = Chosen(a.options, n)
                             /\ r \notin crossed => typed[r] = n
      BY <1>1, <2>2, <2>3, <2>5 DEF Inv, Answered, ByTheMenu
    <3>2. PICK o \in Range(a.options) : reply[r] = Selected(o.id, FALSE)
      <4>1. Chosen(a.options, n) # Cancelled /\ reply[r] = Chosen(a.options, n)
        BY <2>2, <3>1, Zenon
      <4>2. \E o \in Range(a.options) : Chosen(a.options, n) = Selected(o.id, FALSE)
        BY <2>4, <4>1, ChosenIsBeside
      <4> QED
        BY <4>1, <4>2, Zenon
    <3>3. o \in Meant(r)
      BY <2>3, <3>2 DEF Meant, Selected
    <3>4. typed[r] # None \/ r \in crossed
      <4>1. n # None
        BY AsksAssumption
      <4> QED
        BY <3>1, <4>1
    <3> QED
      BY <2>1, <2>5, <3>3, <3>4
  <2>6. CASE Mode # "ask"
    <3>1. reply[r] = Decision(a)
      BY <1>1, <2>3, <2>6 DEF Inv, Answered
    <3>2. PICK o \in Range(a.options) : o.id # Unset /\ reply[r].id = o.id
      BY <2>2, <3>1, DecisionOffers DEF Offers, Selected
    <3>3. o \in Meant(r)
      BY <2>3, <3>2 DEF Meant
    <3>4. ASSUME Unambiguous(r), Mode # "approve-all", Mode = "deny-all" \/ ~a.readOnly,
                 NEW p \in Meant(r)
          PROVE  Rejects(p.kind)
      <4>1. PICK q \in Range(a.options) :
              /\ q.id # Unset /\ reply[r].id = q.id
              /\ q.kind \in {"reject_once", "reject_always"}
        BY <2>2, <3>1, <3>4, DecisionOffers DEF Offers, Selected
      <4>2. p \in Range(a.options) /\ p.id = q.id
        BY <2>3, <4>1 DEF Meant
      <4>3. p.kind = q.kind
        BY <2>3, <3>4, <4>1, <4>2 DEF Unambiguous
      <4> QED
        BY <4>1, <4>3 DEF Rejects
    <3>5. a.readOnly \in BOOLEAN
      BY AsksAssumption
    <3> QED
      BY <2>1, <2>3, <2>6, <3>3, <3>4, <3>5
  <2> QED
    BY <2>5, <2>6
<1> QED
  BY <1>1, Invariant, PTL

\* A menu shown alone gets the answer typed for it (root.go 624-685).
THEOREM AnswerReaches == Spec => []AnswerReachesItsMenu
<1>1. ASSUME Inv PROVE AnswerReachesItsMenu
  <2> SUFFICES ASSUME NEW r \in Requests, Replied(r), EffectiveMode = "ask",
                      r \notin crossed,
                      NEW lines,
                      lines = {k \in Printed(ask[r].options) :
                                 Beside(ask[r].options, k) = typed[r]}
               PROVE  /\ \A k \in lines : \E o \in Meant(r) : o.kind = Order[k]
                      /\ lines = {} => reply[r] = Cancelled
    BY DEF AnswerReachesItsMenu
  <2>1. ask[r] \in Asks /\ Mode = "ask" /\ ByTheMenu(r)
    BY <1>1 DEF Inv, Waiting, Answered, Replied, StartInv, Merging, AllMerged
  <2>2. ask[r].options \in Seq(Options)
    BY <2>1, AsksAssumption
  <2>3. CASE typed[r] = None /\ reply[r] = Cancelled
    <3>1. \A k \in Printed(ask[r].options) : Beside(ask[r].options, k) \in Nat
      BY BesideTypes
    <3>2. lines = {}
      BY <2>3, <3>1, AsksAssumption
    <3> QED
      BY <2>3, <3>2
  <2>4. CASE reply[r] = Chosen(ask[r].options, typed[r])
    <3>1. ASSUME NEW k \in lines PROVE \E o \in Meant(r) : o.kind = Order[k]
      <4>1. PICK o \in Range(ask[r].options) :
              /\ o.kind = Order[k] /\ reply[r] = Selected(o.id, FALSE)
        <5>1. k \in Printed(ask[r].options) /\ Beside(ask[r].options, k) = typed[r]
          BY <3>1
        <5>2. \E o \in Range(ask[r].options) :
                /\ o.kind = Order[k]
                /\ Chosen(ask[r].options, typed[r]) = Selected(o.id, FALSE)
          BY <2>2, <5>1, ChosenIsBeside
        <5> QED
          BY <2>4, <5>2, Zenon
      <4>2. o \in Meant(r)
        BY <4>1 DEF Meant, Selected
      <4> QED
        BY <4>1, <4>2
    <3>2. lines = {} => reply[r] = Cancelled
      BY <2>2, <2>4, ChosenIsBeside
    <3> QED
      BY <3>1, <3>2
  <2> QED
    BY <2>1, <2>3, <2>4 DEF ByTheMenu
<1> QED
  BY <1>1, Invariant, PTL

\* The user is told of what was refused, and of nothing else (client.go 610-641).
THEOREM DenialReported == Spec => []DenialIsReported
<1>1. ASSUME Inv PROVE DenialIsReported
  <2> SUFFICES ASSUME NEW r \in Requests, Replied(r), Unambiguous(r),
                      \A o \in Range(ask[r].options) : o.padded # "id"
               PROVE  r \in reported <=> \A o \in Meant(r) : Rejects(o.kind)
    BY DEF DenialIsReported
  <2>1. ask[r] \in Asks /\ (r \in reported <=> Denied(ask[r], reply[r]))
    BY <1>1 DEF Inv, Waiting, Answered, Replied
  <2>2. PICK a \in Asks : a = ask[r]
    BY <2>1
  <2>3. a.options \in Seq(Options)
    BY AsksAssumption
  <2>4. CASE reply[r] = Cancelled
    <3>1. Meant(r) = {}
      BY <2>4 DEF Meant, Cancelled
    <3> QED
      BY <2>1, <2>4, <3>1 DEF Denied
  <2>5. CASE \E o \in Range(a.options) :
               o.id # Unset /\ reply[r] = Selected(o.id, FALSE)
    <3>1. PICK o \in Range(a.options) :
            o.id # Unset /\ reply[r] = Selected(o.id, FALSE)
      BY <2>5
    <3>2. reply[r].outcome = "selected" /\ ~reply[r].padded /\ reply[r].id = o.id
      BY <3>1 DEF Selected
    <3>3. Denied(a, reply[r]) <=> Rejects(o.kind)
      BY <2>2, <3>1, <3>2, DeniedIsRejected DEF Unambiguous
    <3>4. o \in Meant(r) /\ \A p \in Meant(r) : p.kind = o.kind
      BY <2>2, <3>1, <3>2 DEF Meant, Unambiguous
    <3> QED
      BY <2>1, <2>2, <3>3, <3>4
  <2>6. CASE Mode = "ask"
    <3>1. reply[r] = Cancelled \/ \E n \in Lines : reply[r] = Chosen(a.options, n)
      BY <1>1, <2>2, <2>6 DEF Inv, Answered, ByTheMenu
    <3> QED
      BY <2>3, <2>4, <2>5, <3>1, ChosenIsBeside
  <2>7. CASE Mode # "ask"
    <3>1. reply[r] = Decision(a)
      BY <1>1, <2>2, <2>7 DEF Inv, Answered
    <3> QED
      BY <2>2, <2>4, <2>5, <3>1, DecisionOffers DEF Offers
  <2> QED
    BY <2>6, <2>7
<1> QED
  BY <1>1, Invariant, PTL
=============================================================================
