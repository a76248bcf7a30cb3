------------------------- MODULE ConfigHandle_proofs ------------------------
(***************************************************************************)
(* Proofs about the configuration handle: of ConfigHandle itself, for any  *)
(* set of versions, whatever of them fails to load or to build, and any    *)
(* number of reloads; of LoadedConfig, where the versions are files; and   *)
(* of Proxy, where any number of requests run under the reloads.           *)
(***************************************************************************)
EXTENDS LoadedConfig, Proxy, SequenceLemmas, FiniteSetTheorems

-----------------------------------------------------------------------------
(* ConfigHandle.                                                           *)

\* The first load succeeded, or the program is not running.
LEMMA InitHandleIInv == HandleInit => HandleIInv
<1> SUFFICES ASSUME HandleInit PROVE HandleIInv  OBVIOUS
<1>1. fresh \in Versions /\ 0 \in 0..MaxReloads  BY ReloadAssumption DEF HandleInit, Usable
<1>2. /\ config \in Cells /\ config.version = fresh /\ config.gen = 0
      /\ pipeline = config /\ redactor = config /\ phase = "idle" /\ hup = FALSE /\ sighups = 0
  <2>1. [version |-> fresh, gen |-> 0] \in Cells  BY <1>1 DEF Cells
  <2>2. config = [version |-> fresh, gen |-> 0]  BY DEF HandleInit
  <2> QED  BY <2>1, <2>2 DEF HandleInit
<1>3. HandleTypeOK  BY <1>1, <1>2 DEF HandleInit, HandleTypeOK, Phases
<1>4. OnlyUsableInUse  BY <1>2 DEF HandleInit, OnlyUsableInUse, InUse
<1>5. CellsInStep  BY <1>2 DEF CellsInStep
<1>6. ReloadProtocol  BY <1>2 DEF ReloadProtocol
<1> QED  BY <1>3, <1>4, <1>5, <1>6 DEF HandleIInv

(* Steps that leave the three cells alone: OnlyUsableInUse holds on, and    *)
(* CellsInStep as well unless the step is one of the stores.                *)
LEMMA CellsKept ==
  ASSUME HandleIInv, UNCHANGED cells, HandleTypeOK', ReloadProtocol',
         phase' \notin {"storePipeline", "storeRedactor"} =>
           phase \notin {"storePipeline", "storeRedactor"}
  PROVE  HandleIInv'
<1>1. UNCHANGED <<config, pipeline, redactor>>  BY DEF cells
<1>2. OnlyUsableInUse'  BY <1>1 DEF HandleIInv, OnlyUsableInUse, InUse, Usable
<1>3. CellsInStep'  BY <1>1 DEF HandleIInv, CellsInStep
<1> QED  BY <1>2, <1>3 DEF HandleIInv

(* A cell that a reload stores is one of the types' cells, since every      *)
(* generation has its SIGHUP.                                               *)
LEMMA NewCellFacts ==
  ASSUME HandleIInv, phase \in {"storeConfig", "storePipeline", "storeRedactor"}
  PROVE  /\ NewCell \in Cells /\ NewCell.version = fresh /\ NewCell.gen = redactor.gen + 1
         /\ fresh \in Usable
<1>1. redactor.gen \in 0..MaxReloads /\ sighups \in 0..MaxReloads /\ MaxReloads \in Nat
      /\ fresh \in Versions
  BY ReloadAssumption DEF HandleIInv, HandleTypeOK, Cells
<1>2. redactor.gen + 1 <= sighups  BY <1>1 DEF HandleIInv, ReloadProtocol
<1>3. redactor.gen + 1 \in 0..MaxReloads  BY <1>1, <1>2
<1> QED  BY <1>1, <1>3 DEF NewCell, Cells, HandleIInv, ReloadProtocol

\* Every step of the SIGHUP task and the operator keeps the invariant.
LEMMA NextHandleIInv == HandleIInv /\ [HandleNext]_handleVars => HandleIInv'
<1> SUFFICES ASSUME HandleIInv, [HandleNext]_handleVars PROVE HandleIInv'  OBVIOUS
<1> USE DEF HandleIInv
<1>0. /\ config \in Cells /\ pipeline \in Cells /\ redactor \in Cells
      /\ config.gen \in Nat /\ pipeline.gen \in Nat /\ redactor.gen \in Nat
      /\ sighups \in 0..MaxReloads /\ MaxReloads \in Nat
  BY ReloadAssumption DEF HandleTypeOK, Cells
<1>1. ASSUME NEW v \in Versions, Edit(v) PROVE HandleIInv'
  <2>1. UNCHANGED <<config, pipeline, redactor, hup, phase, fresh, sighups>>
        /\ disk' \in Versions /\ due' = FALSE
    BY <1>1 DEF Edit, cells
  <2>2. HandleTypeOK'  BY <2>1 DEF HandleTypeOK
  <2>3. ReloadProtocol'  BY <2>1 DEF ReloadProtocol, NewCell, Usable
  <2> QED  BY <2>1, <2>2, <2>3, CellsKept DEF cells
<1>2. CASE Sighup
  <2>1. UNCHANGED <<config, pipeline, redactor, phase, fresh, disk>>
        /\ hup' = TRUE /\ due' = TRUE /\ sighups' = sighups + 1 /\ sighups' \in 0..MaxReloads
    BY <1>0, <1>2 DEF Sighup, cells
  <2>2. HandleTypeOK'  BY <2>1 DEF HandleTypeOK
  <2>3. ReloadProtocol'  BY <1>0, <2>1 DEF ReloadProtocol, NewCell, Usable
  <2> QED  BY <2>1, <2>2, <2>3, CellsKept DEF cells
<1>3. CASE ServeSighup
  <2>1. UNCHANGED <<config, pipeline, redactor, fresh, disk, sighups, due>>
        /\ hup /\ hup' = FALSE /\ phase = "idle" /\ phase' = "load"
    BY <1>3 DEF ServeSighup, cells
  <2>2. HandleTypeOK'  BY <2>1 DEF HandleTypeOK, Phases
  <2>3. ReloadProtocol'  BY <1>0, <2>1 DEF ReloadProtocol
  <2> QED  BY <2>1, <2>2, <2>3, CellsKept DEF cells
<1>4. ASSUME LoadConfig \/ BuildPipeline \/ BuildRedactor PROVE HandleIInv'
  <2>1. UNCHANGED <<config, pipeline, redactor, disk, sighups, hup, due>>
        /\ phase \in {"load", "buildPipeline", "buildRedactor"}
        /\ phase' \in {"idle", "buildPipeline", "buildRedactor", "storeConfig"}
        /\ fresh' \in Versions
    BY <1>4 DEF LoadConfig, BuildPipeline, BuildRedactor, cells, AdvanceTo, HandleTypeOK
  <2>2. HandleTypeOK'  BY <2>1 DEF HandleTypeOK, Phases
  <2>3. /\ phase' = "buildPipeline" => fresh' \notin Unloadable
        /\ phase' = "buildRedactor" => fresh' \notin Unloadable \cup Unbuildable
        /\ phase' = "storeConfig" => fresh' \in Usable
    BY <1>4, <2>1 DEF LoadConfig, BuildPipeline, BuildRedactor, AdvanceTo, ReloadProtocol, Usable
  <2>4. ReloadProtocol'  BY <1>0, <2>1, <2>3 DEF ReloadProtocol, Usable
  <2> QED  BY <2>1, <2>2, <2>4, CellsKept DEF cells
<1>5. CASE StoreConfig
  <2>1. UNCHANGED <<pipeline, redactor, fresh, disk, sighups, hup, due>>
        /\ config' = NewCell /\ phase = "storeConfig" /\ phase' = "storePipeline"
    BY <1>5 DEF StoreConfig
  <2>2. NewCell \in Cells /\ config'.version = fresh /\ config'.gen = redactor.gen + 1 /\ fresh \in Usable
    BY <2>1, NewCellFacts
  <2>3. config = pipeline /\ pipeline = redactor
    BY <1>0, <2>1 DEF CellsInStep
  <2>4. HandleTypeOK'  BY <2>1, <2>2 DEF HandleTypeOK, Phases
  <2>5. OnlyUsableInUse'  BY <2>1, <2>2 DEF OnlyUsableInUse, InUse, Usable
  <2>6. CellsInStep'  BY <1>0, <2>1, <2>2, <2>3 DEF CellsInStep
  <2>7. ReloadProtocol'  BY <1>0, <2>1, <2>2, <2>3 DEF ReloadProtocol, NewCell, Usable
  <2> QED  BY <2>4, <2>5, <2>6, <2>7
<1>6. CASE StorePipeline
  <2>1. UNCHANGED <<config, redactor, fresh, disk, sighups, hup, due>>
        /\ pipeline' = NewCell /\ phase = "storePipeline" /\ phase' = "storeRedactor"
    BY <1>6 DEF StorePipeline
  <2>2. NewCell \in Cells /\ pipeline'.version = fresh /\ pipeline'.gen = redactor.gen + 1 /\ fresh \in Usable
    BY <2>1, NewCellFacts
  <2>3. config = NewCell  BY <2>1 DEF ReloadProtocol
  <2>4. HandleTypeOK'  BY <2>1, <2>2 DEF HandleTypeOK, Phases
  <2>5. OnlyUsableInUse'  BY <2>1, <2>2 DEF OnlyUsableInUse, InUse, Usable
  <2>6. CellsInStep'  BY <1>0, <2>1, <2>2, <2>3 DEF CellsInStep
  <2>7. ReloadProtocol'  BY <1>0, <2>1, <2>2, <2>3 DEF ReloadProtocol, NewCell, Usable
  <2> QED  BY <2>4, <2>5, <2>6, <2>7
<1>7. CASE StoreRedactor
  <2>1. UNCHANGED <<config, pipeline, fresh, disk, sighups, hup, due>>
        /\ redactor' = NewCell /\ phase = "storeRedactor" /\ phase' = "idle"
    BY <1>7 DEF StoreRedactor
  <2>2. NewCell \in Cells /\ redactor'.version = fresh /\ redactor'.gen = redactor.gen + 1 /\ fresh \in Usable
    BY <2>1, NewCellFacts
  <2>3. config = NewCell /\ pipeline = NewCell  BY <2>1 DEF ReloadProtocol
  <2>4. HandleTypeOK'  BY <2>1, <2>2 DEF HandleTypeOK, Phases
  <2>5. OnlyUsableInUse'  BY <2>1, <2>2 DEF OnlyUsableInUse, InUse, Usable
  <2>6. CellsInStep'  BY <1>0, <2>1, <2>2, <2>3 DEF CellsInStep
  <2>7. ReloadProtocol'  BY <1>0, <2>1, <2>2 DEF ReloadProtocol, HandleTypeOK
  <2> QED  BY <2>4, <2>5, <2>6, <2>7
<1>8. CASE UNCHANGED handleVars
  BY <1>8 DEF handleVars, cells, HandleTypeOK, OnlyUsableInUse, InUse, Usable, CellsInStep,
     ReloadProtocol, NewCell
<1> QED  BY <1>1, <1>2, <1>3, <1>4, <1>5, <1>6, <1>7, <1>8 DEF HandleNext, ReloadStep

\* The inductive invariant of the handle always holds.
THEOREM HandleInvariant == HandleSpec => []HandleIInv
BY InitHandleIInv, NextHandleIInv, PTL DEF HandleSpec

\* The handle's variables keep their types: no reload without its SIGHUP.
THEOREM HandleTypes == HandleSpec => []HandleTypeOK
<1>1. HandleIInv => HandleTypeOK  BY DEF HandleIInv
<1> QED  BY <1>1, HandleInvariant, PTL

(* A reload that fails, anywhere, leaves nothing of its version in use.     *)
THEOREM HandleOnlyUsable == HandleSpec => []OnlyUsableInUse
<1>1. HandleIInv => OnlyUsableInUse  BY DEF HandleIInv
<1> QED  BY <1>1, HandleInvariant, PTL

(* The three cells are never more than one reload apart.                    *)
THEOREM HandleCellsInStep == HandleSpec => []CellsInStep
<1>1. HandleIInv => CellsInStep  BY DEF HandleIInv
<1> QED  BY <1>1, HandleInvariant, PTL

-----------------------------------------------------------------------------
(* LoadedConfig.                                                           *)

-----------------------------------------------------------------------------
(* A version that a reload takes up has passed every check.                *)
LEMMA UsableIsValid ==
  ASSUME NEW v \in Usable
  PROVE  v \in Readable /\ Valid(Loaded(v))
<1>1. v \in Versions /\ v \notin FailsToLoad  BY FailuresAssumption DEF Usable
<1>2. ~LoadFails(v)  BY <1>1 DEF FailsToLoad
<1> QED  BY <1>2 DEF LoadFails

(* The scanner of a file that lists it was built when the file was loaded. *)
LEMMA UsableScanner ==
  ASSUME NEW v \in Usable, Loaded(v).stages.regex_injection.enabled,
         "regex_injection" \in ToSet(Loaded(v).pipeline.request_stages)
  PROVE  ScannerBuilds(Loaded(v).stages.regex_injection)
<1>1. v \in Versions /\ v \notin FailsToLoad  BY FailuresAssumption DEF Usable
<1>2. ~LoadFails(v)  BY <1>1 DEF FailsToLoad
<1> QED  BY <1>2 DEF LoadFails, Listed

(* The conversion of a condition that passed the check: of the branches    *)
(* only the last makes a rule match without a reason, and the check rules  *)
(* it out.                                                                 *)
LEMMA ConditionMeant ==
  ASSUME NEW when,
         \/ when.content_contains # <<>> \/ when.system_prompt_absent
         \/ when.token_count_exceeds > 0 \/ when.always,
         when.content_contains # <<>> => ~(ToSet(when.content_contains) \subseteq Blank)
  PROVE  RuleMeant(when, Condition(when))
<1>0. when.content_contains = <<>> => \A request : ~Found(when, request)
  BY DEF Found, ToSet
<1>1. CASE when.always
  <2>1. Condition(when) = [type |-> "Always"]  BY <1>1 DEF Condition
  <2>2. Condition(when).type = "Always"  BY <2>1
  <2>3. \A request : RuleMatches(Condition(when), request)  BY <2>2 DEF RuleMatches
  <2> QED  BY <1>1, <2>2, <2>3 DEF RuleMeant, Reason
<1>2. CASE ~when.always /\ when.content_contains # <<>>
  <2>1. Condition(when) = [type |-> "ContentContains", keywords |-> ToSet(when.content_contains)]
    BY <1>2 DEF Condition
  <2>2. /\ Condition(when).type = "ContentContains"
        /\ Condition(when).keywords = ToSet(when.content_contains)
    BY <2>1
  <2>3. \A request : RuleMatches(Condition(when), request) <=> Found(when, request)
    BY <2>2 DEF RuleMatches, Found
  <2> QED  BY <1>2, <2>2, <2>3 DEF RuleMeant, Reason
<1>3. CASE ~when.always /\ when.content_contains = <<>> /\ when.system_prompt_absent
  <2>1. Condition(when) = [type |-> "SystemPromptAbsent"]  BY <1>3 DEF Condition
  <2>2. Condition(when).type = "SystemPromptAbsent"  BY <2>1
  <2>3. \A request : RuleMatches(Condition(when), request)
          <=> \A i \in DOMAIN request : request[i].role # "system"
    BY <2>2 DEF RuleMatches
  <2> QED  BY <1>0, <1>3, <2>2, <2>3 DEF RuleMeant, Reason
<1>4. CASE ~when.always /\ when.content_contains = <<>> /\ ~when.system_prompt_absent
  <2>1. when.token_count_exceeds > 0  BY <1>4
  <2>2. Condition(when) = [type |-> "TokenCountExceeds", limit |-> when.token_count_exceeds]
    BY <1>4, <2>1 DEF Condition
  <2>3. /\ Condition(when).type = "TokenCountExceeds"
        /\ Condition(when).limit = when.token_count_exceeds
    BY <2>2
  <2>4. \A request : RuleMatches(Condition(when), request)
          <=> ApproxTokens(request) > when.token_count_exceeds
    BY <2>3 DEF RuleMatches
  <2> QED  BY <1>0, <1>4, <2>1, <2>3, <2>4 DEF RuleMeant, Reason
<1> QED  BY <1>1, <1>2, <1>3, <1>4

\* What the validator lets through of a rule comes out as its table says.
LEMMA ValidRuleMeant ==
  ASSUME NEW rule, RuleValid(rule)
  PROVE  RuleMeant(rule.when, PolicyRule(rule).condition)
<1>1. PolicyRule(rule).condition = Condition(rule.when)  BY DEF PolicyRule
<1>2. RuleMeant(rule.when, Condition(rule.when))  BY ConditionMeant DEF RuleValid
<1> QED  BY <1>1, <1>2

(* Whatever files there are and however they fail, a policy rule in use     *)
(* matches a request only for a reason its table gives, whatever requests   *)
(* it is tried on: loader.rs (convert_policy_rules), policy.rs and          *)
(* validate.rs agree.                                                       *)
THEOREM LoadedPoliciesMeant == HandleSpec => []PoliciesMeant
<1>1. ASSUME NEW v \in Usable PROVE v \in WithRulesMeant
  <2>1. \A i \in DOMAIN Loaded(v).policy.rules : RuleValid(Loaded(v).policy.rules[i])
    BY UsableIsValid DEF Valid
  <2>2. RulesMeant(Loaded(v))  BY <2>1, ValidRuleMeant DEF RulesMeant
  <2> QED  BY <2>2 DEF WithRulesMeant
<1>2. OnlyUsableInUse => PoliciesMeant  BY <1>1 DEF OnlyUsableInUse, PoliciesMeant
<1> QED  BY <1>2, HandleOnlyUsable, PTL

-----------------------------------------------------------------------------
(* The environment's upstream, where it names one, replaces the file's.    *)
LEMMA OverriddenUpstream ==
  ASSUME NEW v \in Readable, Env.GUARDRAIL_UPSTREAM \notin Blank
  PROVE  Loaded(v).upstream.url = Env.GUARDRAIL_UPSTREAM
<1> DEFINE c == Config(File[v])
           u == Table(File[v], "upstream", UpstreamDefaults)
<1>1. Loaded(v) = ApplyEnvOverrides(c)  BY DEF Loaded, Configs
<1>2. "upstream" \in DOMAIN c /\ c.upstream = u  BY DEF Config
<1>3. "url" \in DOMAIN u  BY DEF Table, UpstreamDefaults
<1>4. ApplyEnvOverrides(c).upstream = [u EXCEPT !.url = Env.GUARDRAIL_UPSTREAM]
  BY <1>2 DEF ApplyEnvOverrides
<1> QED  BY <1>1, <1>3, <1>4

(* With `require_key`, neither an empty header nor a missing one is         *)
(* admitted, and nobody at all only if no header can carry any of the keys; *)
(* the upstream is a URL, and the environment's.                            *)
THEOREM LoadedCallersServed == HandleSpec => []CallersServed
<1>1. ASSUME NEW v \in Usable PROVE v \in Serving
  <2> DEFINE c == Loaded(v)
  <2>1. v \in Readable /\ UpstreamValid(c.upstream) /\ ServerValid(c.server) /\ AuthValid(c.auth)
    BY UsableIsValid DEF Valid
  <2>2. Env.GUARDRAIL_UPSTREAM \notin Blank => c.upstream.url = Env.GUARDRAIL_UPSTREAM
    BY <2>1, OverriddenUpstream
  <2>3. c.auth.keys \in Seq(STRING) /\ "none" \notin HeaderValues
    BY <2>1, SchemaAssumption, SettingsAssumption
  <2> HIDE DEF c
  <2>4. ASSUME c.auth.require_key
        PROVE  /\ Opening(c.auth) \cap (Blank \cup {"none"}) = {}
               /\ Opening(c.auth) = {} =>
                    c.auth.keys # <<>> /\ ToSet(c.auth.keys) \cap HeaderValues = {}
    <3>1. c.auth.keys # <<>> /\ ToSet(c.auth.keys) \cap Blank = {}
      BY <2>1, <2>4 DEF AuthValid
    <3>2. <<"v1">> \notin {<<"healthz">>, <<"metrics">>}
      <4>1. "v1" # "healthz" /\ "v1" # "metrics"  OBVIOUS
      <4>2. <<"v1">>[1] = "v1" /\ <<"healthz">>[1] = "healthz" /\ <<"metrics">>[1] = "metrics"
        OBVIOUS
      <4> QED  BY <4>1, <4>2
    <3>3. Opening(c.auth) = HeaderValues \cap ToSet(c.auth.keys)
      BY <2>3, <2>4, <3>2 DEF Opening, Authorized
    <3> QED  BY <2>3, <3>1, <3>3
  <2>5. Serves(c)  BY <2>1, <2>2, <2>4 DEF Serves, UpstreamValid, ServerValid
  <2> QED  BY <2>5 DEF Serving, c
<1>2. OnlyUsableInUse => CallersServed  BY <1>1 DEF OnlyUsableInUse, CallersServed
<1> QED  BY <1>2, HandleOnlyUsable, PTL

-----------------------------------------------------------------------------
(* The sessions that share the machine: a share of four or less, rounded    *)
(* down, never asks for more threads than there are.                        *)
LEMMA ShareFits ==
  ASSUME NEW threads \in Nat \ {0}, NEW n \in Nat \ {0}
  PROVE  \/ DefaultSessions(threads, n) = 1
         \/ n * DefaultSessions(threads, n) * threads <= Cpus
<1> DEFINE m == threads * n
           share == Cpus \div m
           s == IF share < 1 THEN 1 ELSE IF share > 4 THEN 4 ELSE share
<1>1. Cpus \in Nat  BY SettingsAssumption
<1>2. m \in Nat \ {0}
  <2>1. m # 0 /\ m \in Nat  OBVIOUS
  <2> QED  BY <2>1
<1>3. DefaultSessions(threads, n) = s  BY DEF DefaultSessions
<1> HIDE DEF m
<1>4. share \in Nat /\ share * m <= Cpus  BY <1>1, <1>2
<1> HIDE DEF share
<1>5. CASE share < 1  BY <1>3, <1>5
<1>6. CASE ~(share < 1)
  <2>1. s \in Nat /\ s <= share  BY <1>4, <1>6
  <2>2. s * m <= share * m
    <3> HIDE DEF s
    <3> QED  BY <2>1, <1>2, <1>4
  <2>3. s * m <= Cpus
    <3> HIDE DEF s
    <3>1. s * m \in Nat /\ share * m \in Nat  BY <2>1, <1>2, <1>4
    <3> QED  BY <2>2, <3>1, <1>1, <1>4
  <2>4. n * s * threads = s * m
    <3> HIDE DEF s
    <3> QED  BY <2>1 DEF m
  <2> QED  BY <1>3, <2>3, <2>4
<1> QED  BY <1>5, <1>6

(* A model stage that is built is one of those that share the machine.      *)
LEMMA OnnxStageListed ==
  ASSUME NEW c, NEW id \in {"onnx_injection", "toxicity"},
         id \in StagesOn(c), id \in ToSet(c.pipeline.request_stages)
  PROVE  Cardinality(OnnxStages(c)) \in Nat \ {0}
<1>1. c.stages[id].enabled  BY DEF StagesOn
<1>2. id \in OnnxStages(c)  BY <1>1 DEF OnnxStages, Listed
<1>3. OnnxStages(c) \subseteq {"onnx_injection", "toxicity"}  BY DEF OnnxStages
<1>4. IsFiniteSet({"onnx_injection", "toxicity"})
  <2> DEFINE a == {"onnx_injection"}
             b == {"toxicity"}
  <2>1. IsFiniteSet(a) /\ IsFiniteSet(b)  BY FS_Singleton
  <2>2. {"onnx_injection", "toxicity"} = a \cup b  OBVIOUS
  <2> HIDE DEF a, b
  <2>3. IsFiniteSet(a \cup b)  BY <2>1, FS_Union
  <2> QED  BY <2>2, <2>3
<1>5. IsFiniteSet(OnnxStages(c))  BY <1>3, <1>4, FS_Subset
<1> QED  BY <1>2, <1>5, FS_CardinalityType, FS_EmptySet

(* The stage that is built for an id carries it.                            *)
LEMMA StageHasId ==
  ASSUME NEW c, NEW id \in RequestStages
  PROVE  Stage(c, id).id = id
<1>1. CASE id = "regex_injection"
  <2>1. Stage(c, id) = RegexStage(c, id)  BY <1>1 DEF Stage
  <2> QED  BY <2>1 DEF RegexStage
<1>2. CASE id = "pii_redactor"
  <2>1. Stage(c, id) = PiiStage(c, id)  BY <1>2 DEF Stage
  <2> QED  BY <2>1 DEF PiiStage
<1>3. CASE id = "policy"
  <2>1. Stage(c, id) = PolicyStage(c, id)  BY <1>3 DEF Stage
  <2> QED  BY <2>1 DEF PolicyStage
<1>4. CASE id \in {"onnx_injection", "toxicity"}
  <2>1. Stage(c, id) = OnnxStage(c, id)  BY <1>4 DEF Stage
  <2> QED  BY <2>1 DEF OnnxStage
<1> QED  BY <1>1, <1>2, <1>3, <1>4 DEF RequestStages

(* What a filter leaves out and nothing else.                               *)
LEMMA OnlyAgrees ==
  ASSUME NEW seq, NEW A, NEW B, ToSet(seq) \cap A = ToSet(seq) \cap B
  PROVE  Only(seq, A) = Only(seq, B)
<1>1. \A n \in DOMAIN seq : seq[n] \in A <=> seq[n] \in B  BY DEF ToSet
<1>2. [n \in DOMAIN seq |-> IF seq[n] \in A THEN <<seq[n]>> ELSE <<>>]
      = [n \in DOMAIN seq |-> IF seq[n] \in B THEN <<seq[n]>> ELSE <<>>]
  BY <1>1
<1> QED  BY <1>2 DEF Only

(* The rules of a scanner that is built: all lines but comments, and none   *)
(* that could not be tried.                                                 *)
LEMMA ScannerLines ==
  ASSUME NEW settings, settings.extra_rules \in Seq(STRING), ScannerBuilds(settings),
         NEW stage, stage.rules = ParseRules(RuleLines(settings))
  PROVE  ScannerMeant(settings, stage)
<1> DEFINE base == IF settings.rules_file \in Blank THEN BundledRules
                   ELSE RuleFiles[settings.rules_file]
           extra == settings.extra_rules
           lines == RuleLines(settings)
<1>1. settings.rules_file \notin Blank => settings.rules_file \in DOMAIN RuleFiles
  BY DEF ScannerBuilds
<1>2. base \in Seq(STRING)  BY <1>1, SettingsAssumption
<1>3. lines = base \o extra  BY DEF RuleLines
<1>4. ToSet(stage.rules) \cap (BadRules \cup SlowRules) = {}  BY DEF ScannerBuilds
<1>5. settings.rules_file \notin Blank => base = RuleFiles[settings.rules_file]  OBVIOUS
<1>6. stage.rules = Only(lines, ToSet(lines) \ Comments)  BY DEF ParseRules
<1>7. extra \in Seq(STRING)  OBVIOUS
<1> HIDE DEF base, extra, lines
<1>8. lines \in Seq(STRING) /\ ToSet(base) \subseteq ToSet(lines) /\ ToSet(extra) \subseteq ToSet(lines)
  BY <1>2, <1>3, <1>7, ConcatHolds
<1>9. ToSet(stage.rules) = ToSet(lines) \cap (ToSet(lines) \ Comments)
  BY <1>6, <1>8, OnlyHolds
<1>10. ToSet(base) \ Comments \subseteq ToSet(stage.rules)  BY <1>8, <1>9
<1>11. ToSet(extra) \ Comments \subseteq ToSet(stage.rules)  BY <1>8, <1>9
<1> QED  BY <1>1, <1>4, <1>5, <1>10, <1>11 DEF ScannerMeant, extra

(* The stages that are built for a valid file leave nothing of theirs out, *)
(* and those that share the machine fit it.                                *)
LEMMA BuiltStageMeant ==
  ASSUME NEW v \in Usable, NEW id,
         id \in StagesOn(Loaded(v)), id \in ToSet(Loaded(v).pipeline.request_stages)
  PROVE  StageMeant(Loaded(v), Stage(Loaded(v), id))
<1> DEFINE c == Loaded(v)
           s == Stage(c, id)
<1>1. v \in Readable /\ Valid(c)  BY UsableIsValid
<1>2. id \in RequestStages /\ s.id = id  BY StageHasId DEF StagesOn
<1>3. CASE id \in {"onnx_injection", "toxicity"}
  <2>1. s = OnnxStage(c, id)  BY <1>3 DEF Stage
  <2>2. OnnxStageValid(c.stages[id]) /\ c.stages[id].enabled
    <3>1. c.stages[id].enabled  BY <1>3 DEF StagesOn
    <3>2. CASE id = "onnx_injection"  BY <1>1, <3>1, <3>2 DEF Valid
    <3>3. CASE id = "toxicity"  BY <1>1, <3>1, <3>3 DEF Valid
    <3> QED  BY <1>3, <3>2, <3>3
  <2>3. s.maxWindows > 0 /\ s.threshold <= 100
    <3>1. s.maxWindows = c.stages[id].max_windows /\ s.threshold = c.stages[id].threshold
      BY <2>1 DEF OnnxStage
    <3>2. c.stages[id].threshold \in 0..100 /\ c.stages[id].max_windows > 0
      BY <2>2 DEF OnnxStageValid
    <3> QED  BY <3>1, <3>2
  <2>4. s.roles # {} /\ (s.id = "toxicity" => s.roles = ToSet(c.stages.toxicity.scan_roles))
    <3>1. CASE id = "onnx_injection"
      <4>1. s.roles = {"user", "tool"}  BY <2>1, <3>1 DEF OnnxStage
      <4> QED  BY <1>2, <3>1, <4>1
    <3>2. CASE id = "toxicity"
      <4> DEFINE roles == c.stages.toxicity.scan_roles
      <4>1. s.roles = Roles \cap ToSet(roles)  BY <2>1, <3>2 DEF OnnxStage
      <4>2. ScanRolesValid(c.stages.toxicity) /\ c.stages.toxicity.enabled
        BY <1>1, <2>2, <3>2 DEF Valid
      <4>3. roles # <<>> /\ ToSet(roles) \subseteq Roles  BY <4>2 DEF ScanRolesValid
      <4>4. roles \in Seq(STRING)  BY <1>1, SchemaAssumption
      <4> HIDE DEF roles
      <4>5. 1 \in DOMAIN roles  BY <4>3, <4>4
      <4>6. ToSet(roles) # {}  BY <4>5 DEF ToSet
      <4> QED  BY <4>1, <4>3, <4>6 DEF roles
    <3> QED  BY <1>3, <3>1, <3>2
  <2>5. \/ s.sessions \in {1, c.onnx.sessions}
        \/ Cardinality(OnnxStages(c)) * s.sessions * c.onnx.intra_threads <= Cpus
    <3>1. s.sessions = Sessions(c)  BY <2>1 DEF OnnxStage
    <3>2. CASE c.onnx.sessions # 0
      <4>1. Sessions(c) = c.onnx.sessions  BY <3>2 DEF Sessions
      <4> QED  BY <3>1, <4>1
    <3>3. CASE c.onnx.sessions = 0
      <4>1. c.onnx.intra_threads \in Nat \ {0}
        <5>1. c.onnx.intra_threads > 0  BY <1>1 DEF Valid
        <5>2. c.onnx.intra_threads \in Nat  BY <1>1, SchemaAssumption
        <5> QED  BY <5>1, <5>2
      <4>2. Cardinality(OnnxStages(c)) \in Nat \ {0}  BY <1>3, OnnxStageListed
      <4>3. Sessions(c) = DefaultSessions(c.onnx.intra_threads, Cardinality(OnnxStages(c)))
        BY <3>3 DEF Sessions
      <4> QED  BY <3>1, <4>1, <4>2, <4>3, ShareFits
    <3> QED  BY <3>2, <3>3
  <2> QED  BY <1>2, <1>3, <2>3, <2>4, <2>5 DEF StageMeant, OnnxMeant
<1>4. CASE id = "pii_redactor"
  <2>1. /\ s.entities = c.stages.pii_redactor.entities
        /\ s.replacements = c.stages.pii_redactor.replacements
    <3>1. s = PiiStage(c, id)  BY <1>4 DEF Stage
    <3> QED  BY <3>1 DEF PiiStage, PiiRedactor
  <2>2. PiiValid(c.stages.pii_redactor) /\ c.stages.pii_redactor.enabled
    BY <1>1, <1>4 DEF Valid, StagesOn
  <2>3. PiiMeant(c.stages.pii_redactor, s)  BY <2>1, <2>2 DEF PiiValid, PiiMeant
  <2> QED  BY <1>2, <1>4, <2>3 DEF StageMeant
<1>5. CASE id = "policy"
  <2>1. s = PolicyStage(c, id)  BY <1>5 DEF Stage
  <2>2. s.rules = [i \in DOMAIN c.policy.rules |-> PolicyRule(c.policy.rules[i])]
    BY <2>1 DEF PolicyStage
  <2>3. ASSUME NEW i \in DOMAIN c.policy.rules
        PROVE  /\ s.rules[i].name = c.policy.rules[i].name
               /\ s.rules[i].enabled = c.policy.rules[i].enabled
    BY <2>2 DEF PolicyRule
  <2>4. PolicyMeant(c.policy.rules, s)  BY <2>2, <2>3 DEF PolicyMeant
  <2> QED  BY <1>2, <1>5, <2>4 DEF StageMeant
<1>6. CASE id = "regex_injection"
  <2>1. s = RegexStage(c, id)  BY <1>6 DEF Stage
  <2>2. s.rules = ParseRules(RuleLines(c.stages.regex_injection))  BY <2>1 DEF RegexStage
  <2>3. c.stages.regex_injection.enabled  BY <1>6 DEF StagesOn
  <2>4. ScannerBuilds(c.stages.regex_injection)
    BY <1>6, <2>3, UsableScanner
  <2>5. c.stages.regex_injection.extra_rules \in Seq(STRING)  BY <1>1, SchemaAssumption
  <2>6. ScannerMeant(c.stages.regex_injection, s)
    <3> HIDE DEF c, s
    <3> QED  BY <2>2, <2>4, <2>5, ScannerLines
  <2> QED  BY <1>2, <1>6, <2>6 DEF StageMeant
<1> QED  BY <1>2, <1>3, <1>4, <1>5, <1>6 DEF RequestStages

(* What is listed and not turned off is what is built: in a valid file no   *)
(* other stage is listed.                                                   *)
LEMMA ListedStages ==
  ASSUME NEW v \in Usable
  PROVE  LET c == Loaded(v)
             listed == c.pipeline.request_stages
         IN  Only(listed, StagesOn(c)) = Only(listed, ToSet(listed) \ TurnedOff(c))
<1> DEFINE c == Loaded(v)
           listed == c.pipeline.request_stages
<1>1. ToSet(listed) \subseteq RequestStages  BY UsableIsValid DEF Valid, StageIdsValid
<1>2. \A id \in RequestStages : id \in StagesOn(c) <=> id \notin TurnedOff(c)
  BY DEF StagesOn, TurnedOff
<1> HIDE DEF listed, c
<1>3. ToSet(listed) \cap StagesOn(c) = ToSet(listed) \cap (ToSet(listed) \ TurnedOff(c))
  BY <1>1, <1>2
<1> QED  BY <1>3, OnlyAgrees DEF listed, c

(* What is built: the stages that are listed and on, in that order.         *)
LEMMA BuiltInOrder ==
  ASSUME NEW v \in Readable
  PROVE  LET c == Loaded(v)
             ids == Only(c.pipeline.request_stages, StagesOn(c))
         IN  /\ DOMAIN BuiltPipeline(c) = DOMAIN ids
             /\ ids = [i \in DOMAIN ids |-> ids[i]]
             /\ \A i \in DOMAIN ids :
                  /\ BuiltPipeline(c)[i] = Stage(c, ids[i])
                  /\ ids[i] \in StagesOn(c) /\ ids[i] \in ToSet(c.pipeline.request_stages)
<1> DEFINE c == Loaded(v)
           listed == c.pipeline.request_stages
           ids == Only(listed, StagesOn(c))
<1>1. listed \in Seq(STRING)  BY SchemaAssumption
<1>2. BuiltPipeline(c) = [i \in DOMAIN ids |-> Stage(c, ids[i])]  BY DEF BuiltPipeline
<1> HIDE DEF listed, c
<1>3. ids \in Seq(STRING)  BY <1>1, OnlyType
<1>4. ToSet(ids) = ToSet(listed) \cap StagesOn(c)  BY <1>1, OnlyHolds
<1> HIDE DEF ids
<1>5. ids = [i \in DOMAIN ids |-> ids[i]]  BY <1>3
<1>6. \A i \in DOMAIN ids : ids[i] \in ToSet(ids)  BY DEF ToSet
<1> QED  BY <1>2, <1>4, <1>5, <1>6 DEF ids, listed, c

(* The response side redacts with the settings of the request side.        *)
LEMMA SameOnBothSides ==
  ASSUME NEW c, NEW r \in ToSet(ResponseRedactor(c))
  PROVE  r = PiiRedactor(c)
<1>1. ResponseRedactor(c) \in {<<PiiRedactor(c)>>, <<>>}  BY DEF ResponseRedactor
<1>2. CASE ResponseRedactor(c) = <<PiiRedactor(c)>>  BY <1>2 DEF ToSet
<1>3. CASE ResponseRedactor(c) = <<>>  BY <1>3 DEF ToSet
<1> QED  BY <1>1, <1>2, <1>3

(* Nothing that the file in use names for its pipeline is left out of it,   *)
(* stages, roles, entities, rule lines or policy rules; the shared sessions *)
(* fit the machine, and responses are redacted as requests are.             *)
THEOREM LoadedStagesMeant == HandleSpec => []StagesMeant
<1>1. ASSUME NEW v \in Usable PROVE v \in WithPipelineMeant
  <2> DEFINE c == Loaded(v)
             built == BuiltPipeline(c)
             ids == Only(c.pipeline.request_stages, StagesOn(c))
  <2>1. v \in Readable  BY UsableIsValid
  <2>2. /\ DOMAIN built = DOMAIN ids /\ ids = [i \in DOMAIN ids |-> ids[i]]
        /\ \A i \in DOMAIN ids :
             /\ built[i] = Stage(c, ids[i])
             /\ ids[i] \in StagesOn(c) /\ ids[i] \in ToSet(c.pipeline.request_stages)
    BY <2>1, BuiltInOrder
  <2> HIDE DEF built, ids
  <2>3. ASSUME NEW i \in DOMAIN built PROVE built[i].id = ids[i] /\ StageMeant(c, built[i])
    <3>1. /\ i \in DOMAIN ids /\ built[i] = Stage(c, ids[i])
          /\ ids[i] \in StagesOn(c) /\ ids[i] \in ToSet(c.pipeline.request_stages)
      BY <2>2
    <3>2. ids[i] \in RequestStages  BY <3>1 DEF StagesOn
    <3>3. Stage(c, ids[i]).id = ids[i]  BY <3>2, StageHasId
    <3>4. StageMeant(c, Stage(c, ids[i]))  BY <3>1, BuiltStageMeant
    <3> QED  BY <3>1, <3>3, <3>4
  <2>4. [i \in DOMAIN built |-> built[i].id] = ids
    <3>1. [i \in DOMAIN built |-> built[i].id] = [i \in DOMAIN ids |-> ids[i]]  BY <2>2, <2>3
    <3> QED  BY <2>2, <3>1
  <2>5. SameRedaction(c, built)
    <3> SUFFICES ASSUME NEW i \in DOMAIN built, NEW r \in ToSet(ResponseRedactor(c)),
                        built[i].id = "pii_redactor"
                 PROVE  r.entities = built[i].entities /\ r.luhn = built[i].luhn
                        /\ r.replacements = built[i].replacements
      BY DEF SameRedaction
    <3>1. r = PiiRedactor(c)  BY SameOnBothSides
    <3>2. built[i] = Stage(c, ids[i]) /\ ids[i] = "pii_redactor"  BY <2>2, <2>3
    <3>3. built[i] = PiiStage(c, "pii_redactor")  BY <3>2 DEF Stage
    <3> QED  BY <3>1, <3>3 DEF PiiStage
  <2>6. ids = Only(c.pipeline.request_stages,
                   ToSet(c.pipeline.request_stages) \ TurnedOff(c))
    BY ListedStages DEF ids
  <2>7. PipelineMeant(c)
    <3> HIDE DEF c
    <3> QED  BY <2>3, <2>4, <2>5, <2>6 DEF PipelineMeant, built
  <2> QED  BY <2>7 DEF WithPipelineMeant
<1>2. OnlyUsableInUse => StagesMeant  BY <1>1 DEF OnlyUsableInUse, StagesMeant
<1> QED  BY <1>2, HandleOnlyUsable, PTL

-----------------------------------------------------------------------------
(* Proxy.                                                                  *)

(* A step is a step of the handle, of one request, or of nobody.            *)
LEMMA StepKinds ==
  ASSUME [Next]_vars
  PROVE  \/ HandleNext /\ UNCHANGED requestVars /\ Watch
         \/ \E r \in Requests : RequestStep(r) /\ UNCHANGED handleVars /\ Watch
         \/ UNCHANGED vars
<1>1. ASSUME NEW r \in Requests, RequestStep(r) PROVE UNCHANGED handleVars
  BY <1>1 DEF RequestStep, Handle, Arrive, Route, TakeConfig, TakePipeline, Admit,
     RejectCheck, StreamCheck, Decide, UpstreamFails, UpstreamAnswers, Buffered,
     StreamEnds, Disconnect
<1> QED  BY <1>1 DEF Next, ReloadWhileServing

(* To the handle a running proxy is invisible.                              *)
LEMMA ProxyHandle == Spec => HandleSpec
<1>1. Init => HandleInit  BY DEF Init
<1>2. [Next]_vars => [HandleNext]_handleVars
  BY StepKinds DEF vars
<1> QED  BY <1>1, <1>2, PTL DEF Spec, HandleSpec

-----------------------------------------------------------------------------
\* A request's step keeps the types.
LEMMA NextTypeOK ==
  ASSUME TypeOK, HandleTypeOK', [Next]_vars
  PROVE  TypeOK'
<1>0. config \in Cells /\ pipeline \in Cells /\ redactor \in Cells
  BY DEF TypeOK, HandleTypeOK
<1>1. ASSUME UNCHANGED requestVars, Watch PROVE TypeOK'
  BY <1>1 DEF TypeOK, Watch, requestVars, snapshots, outcome
<1>2. ASSUME NEW r \in Requests, RequestStep(r), Watch PROVE TypeOK'
  <2>0. offSeen' \in [Requests -> BOOLEAN]  BY <1>2 DEF Watch, TypeOK
  <2>1. ASSUME NEW k \in Kinds, Arrive(r, k) PROVE TypeOK'
    BY <1>0, <2>0, <2>1 DEF Arrive, TypeOK, Places, outcome
  <2>2. CASE Route(r)
    BY <1>0, <2>0, <2>2 DEF Route, Refuse, TypeOK, Places, Sent, outcome
  <2>3. CASE TakeConfig(r)
    BY <1>0, <2>0, <2>3 DEF TakeConfig, TypeOK, Places, outcome
  <2>4. CASE TakePipeline(r)
    BY <1>0, <2>0, <2>4 DEF TakePipeline, TypeOK, Places, outcome
  <2>5. CASE Admit(r)
    BY <2>0, <2>5 DEF Admit, Refuse, TypeOK, Places, Sent, outcome, snapshots
  <2>6. CASE RejectCheck(r) \/ StreamCheck(r)
    BY <2>0, <2>6 DEF RejectCheck, StreamCheck, Refuse, TypeOK, Places, Sent, outcome, snapshots
  <2>7. ASSUME NEW v \in {"allow", "redact", "block"}, Decide(r, v) PROVE TypeOK'
    <3>1. /\ UNCHANGED <<handleVars, kind, snapshots>>
          /\ verdict' \in [Requests -> {"none", "allow", "redact", "block"}]
      BY <2>7 DEF Decide, TypeOK
    <3>2. /\ at' \in [Requests -> Places] /\ called' \in [Requests -> BOOLEAN]
          /\ sent' \in [Requests -> Sent]
      BY <2>7 DEF Decide, TypeOK, Places, Sent
    <3>3. /\ audited' \in [Requests -> {"none", "allow", "redact", "block"}]
          /\ counted' \in [Requests -> SUBSET Counters]
      <4>1. CASE Record(r, v, {})  BY <4>1 DEF Record, TypeOK, Counters
      <4>2. CASE UNCHANGED <<sent, audited, counted>>  BY <4>2 DEF TypeOK
      <4> QED  BY <2>7, <4>1, <4>2 DEF Decide
    <3> QED  BY <2>0, <3>1, <3>2, <3>3 DEF TypeOK, snapshots
  <2>8. ASSUME NEW next \in {"done", "streaming"}, NEW what \in Sent, NEW more \in SUBSET Counters,
               Respond(r, next, what, more), UNCHANGED <<handleVars, kind, entry, routing, cfg, pipe>>,
               relay' \in [Requests -> Cells \cup {None}]
        PROVE  TypeOK'
    BY <2>0, <2>8 DEF Respond, Record, TypeOK, Places, Counters
  <2>9. CASE UpstreamFails(r)
    BY <2>8, <2>9 DEF UpstreamFails, snapshots, Sent, Counters, TypeOK
  <2>10. CASE UpstreamAnswers(r)
    <3>1. relay' \in [Requests -> Cells \cup {None}]
      BY <1>0, <2>10 DEF UpstreamAnswers, TypeOK
    <3>2. CASE at' = [at EXCEPT ![r] = "buffering"] /\ UNCHANGED outcome
      BY <2>0, <2>10, <3>1, <3>2 DEF UpstreamAnswers, outcome, TypeOK, Places
    <3> QED  BY <2>8, <2>10, <3>1, <3>2 DEF UpstreamAnswers, Sent, Counters
  <2>11. CASE Buffered(r)
    BY <2>8, <2>11 DEF Buffered, snapshots, Sent, Counters, TypeOK
  <2>12. CASE StreamEnds(r)
    BY <2>0, <2>12 DEF StreamEnds, TypeOK, Places, Counters, snapshots
  <2>13. CASE Disconnect(r)
    BY <2>0, <2>13 DEF Disconnect, TypeOK, Places, snapshots, outcome
  <2> QED
    BY <1>2, <2>1, <2>2, <2>3, <2>4, <2>5, <2>6, <2>7, <2>9, <2>10, <2>11, <2>12, <2>13
    DEF RequestStep, Handle
<1>3. CASE UNCHANGED vars
  BY <1>3 DEF TypeOK, vars, requestVars, snapshots, outcome
<1> QED  BY <1>1, <1>2, <1>3, StepKinds

\* The requests' variables keep their types.
THEOREM ProxyTypeOK == Spec => []TypeOK
<1>1. Init => TypeOK
  <2> SUFFICES ASSUME Init PROVE TypeOK  OBVIOUS
  <2>1. HandleTypeOK  BY InitHandleIInv DEF Init, HandleIInv
  <2> QED  BY <2>1 DEF Init, TypeOK, Places, Kinds, Sent
<1>2. HandleIInv => HandleTypeOK  BY DEF HandleIInv
<1> QED  BY <1>1, <1>2, NextTypeOK, ProxyHandle, HandleInvariant, PTL DEF Spec

-----------------------------------------------------------------------------
(* The audit trail.  What a step does to the request that takes it; the     *)
(* others keep all that the audit trail is about.                           *)
AuditIInv == AuditTruth /\ AuditProtocol

\* Every step keeps what the records have to say.
LEMMA NextAudit ==
  ASSUME TypeOK, AuditIInv, [Next]_vars
  PROVE  AuditIInv'
<1> USE DEF AuditIInv, AuditTruth, AuditProtocol
<1>1. ASSUME UNCHANGED <<at, verdict, called, sent, audited, counted>> PROVE AuditIInv'
  BY <1>1
<1>2. ASSUME NEW r \in Requests, RequestStep(r) PROVE AuditIInv'
  <2>1. ASSUME NEW p \in {"arrived", "routed", "configured", "admitting", "rejectCheck",
                          "streamCheck", "screening"},
               at[r] \in {"none", "arrived", "routed", "configured", "admitting", "rejectCheck",
                          "streamCheck"},
               at' = [at EXCEPT ![r] = p], UNCHANGED outcome
        PROVE  AuditIInv'
    BY <2>1 DEF TypeOK, outcome
  <2>2. ASSUME at[r] \in {"arrived", "admitting", "rejectCheck", "streamCheck"}, Refuse(r)
        PROVE  AuditIInv'
    BY <2>2 DEF TypeOK, Refuse
  <2>3. ASSUME NEW k \in Kinds, Arrive(r, k) PROVE AuditIInv'
    BY <2>1, <2>3 DEF Arrive
  <2>4. CASE Route(r)  BY <2>1, <2>2, <2>4 DEF Route
  <2>5. CASE TakeConfig(r)  BY <2>1, <2>5 DEF TakeConfig
  <2>6. CASE TakePipeline(r)  BY <2>1, <2>6 DEF TakePipeline
  <2>7. CASE Admit(r)
    <3>1. CASE /\ at' = [at EXCEPT ![r] = "forwarding"]
               /\ called' = [called EXCEPT ![r] = TRUE]
               /\ UNCHANGED <<verdict, sent, audited, counted>>
      BY <2>7, <3>1 DEF Admit, TypeOK
    <3> QED  BY <2>1, <2>2, <2>7, <3>1 DEF Admit
  <2>8. CASE RejectCheck(r) \/ StreamCheck(r)
    BY <2>1, <2>2, <2>8 DEF RejectCheck, StreamCheck
  <2>9. ASSUME NEW v \in {"allow", "redact", "block"}, Decide(r, v) PROVE AuditIInv'
    BY <2>9 DEF Decide, Record, TypeOK
  <2>10. ASSUME NEW next \in {"done", "streaming"}, NEW what, NEW more,
                at[r] \in {"forwarding", "buffering"}, Respond(r, next, what, more)
         PROVE  AuditIInv'
    BY <2>10 DEF Respond, Record, TypeOK
  <2>11. CASE UpstreamFails(r)  BY <2>10, <2>11 DEF UpstreamFails
  <2>12. CASE UpstreamAnswers(r)
    <3>1. CASE at' = [at EXCEPT ![r] = "buffering"] /\ UNCHANGED outcome
      BY <2>12, <3>1 DEF UpstreamAnswers, outcome, TypeOK
    <3> QED  BY <2>10, <2>12, <3>1 DEF UpstreamAnswers
  <2>13. CASE Buffered(r)  BY <2>10, <2>13 DEF Buffered
  <2>14. CASE StreamEnds(r)  BY <2>14 DEF StreamEnds, TypeOK
  <2>15. CASE Disconnect(r)  BY <2>15 DEF Disconnect, TypeOK, outcome
  <2> QED
    BY <1>2, <2>3, <2>4, <2>5, <2>6, <2>7, <2>8, <2>9, <2>11, <2>12, <2>13, <2>14, <2>15
    DEF RequestStep, Handle
<1> QED  BY <1>1, <1>2, StepKinds DEF vars, requestVars, outcome

(* The record says what was decided, a block is never sent on, and whoever  *)
(* was screened and answered is recorded and counted.                       *)
THEOREM ProxyAuditTruth == Spec => []AuditTruth
<1>1. Init => AuditIInv  BY DEF Init, AuditIInv, AuditTruth, AuditProtocol
<1>2. AuditIInv => AuditTruth  BY DEF AuditIInv
<1> QED  BY <1>1, <1>2, NextAudit, ProxyTypeOK, PTL DEF Spec

-----------------------------------------------------------------------------
(* Unredacted responses.                                                    *)
ExposureIInv == ExposureExplained /\ ExposureProtocol

\* Every step keeps the reason why something goes out unsearched.
LEMMA NextExposure ==
  ASSUME TypeOK, ExposureIInv, [Next]_vars
  PROVE  ExposureIInv'
<1> USE DEF ExposureIInv, ExposureExplained, Unsearched, ExposureProtocol
<1>1. ASSUME UNCHANGED requestVars, Watch PROVE ExposureIInv'
  BY <1>1 DEF Watch, requestVars, outcome, InHandler
<1>2. ASSUME NEW r \in Requests, RequestStep(r), UNCHANGED handleVars, Watch
      PROVE  ExposureIInv'
  <2>0. /\ UNCHANGED redactor /\ at \in [Requests -> Places] /\ sent \in [Requests -> Sent]
        /\ \A q \in Requests :
             offSeen'[q] <=> offSeen[q] \/ (InHandler(q)' /\ ~On(redactor))
    BY <1>2 DEF Watch, TypeOK, handleVars, cells, On
  <2>c. \A q \in Requests : counted[q] \subseteq counted'[q]
    <3>1. ASSUME NEW v, NEW more, Record(r, v, more)
          PROVE  \A q \in Requests : counted[q] \subseteq counted'[q]
      BY <3>1 DEF Record, TypeOK
    <3>2. StreamEnds(r) => \A q \in Requests : counted[q] \subseteq counted'[q]
      BY DEF StreamEnds, TypeOK
    <3> QED
      BY <1>2, <3>1, <3>2
      DEF RequestStep, Handle, Arrive, Route, TakeConfig, TakePipeline, Admit, Refuse, RejectCheck,
          StreamCheck, Decide, UpstreamFails, UpstreamAnswers, Buffered, Disconnect, Respond, outcome
  <2>1. ASSUME NEW k \in Kinds, Arrive(r, k) PROVE ExposureIInv'
    BY <2>0, <2>1 DEF Arrive, outcome, InHandler, TypeOK
  <2>2. ASSUME NEW p \in Places \ {"none"}, NEW what \in Sent, at[r] # "none", UNCHANGED kind,
               at' = [at EXCEPT ![r] = p], sent' = [sent EXCEPT ![r] = what],
               kind[r] = "responsesStream" /\ p \in {"screening", "forwarding", "buffering"}
                 => offSeen[r] \/ ~On(redactor),
               what = "verbatim" \/ (what = "filtered" /\ kind[r] = "responsesStream")
                 => offSeen[r],
               what = "unread" => sent[r] = "unread" \/ "redactionSkipped" \in counted'[r]
        PROVE  ExposureIInv'
    <3>1. /\ sent'[r] = what /\ \A q \in Requests : q # r => sent'[q] = sent[q]
          /\ at'[r] = p /\ \A q \in Requests : q # r => at'[q] = at[q]
      BY <2>0, <2>2
    <3>2. \A q \in Requests : offSeen[q] => offSeen'[q]  BY <2>0
    <3>3. ExposureExplained'
      <4> SUFFICES ASSUME NEW q \in Requests, Unsearched(q)'
                   PROVE  \/ offSeen'[q]
                          \/ sent'[q] = "unread" /\ "redactionSkipped" \in counted'[q]
                          \/ sent'[q] = "unreadError"
        OBVIOUS
      <4>1. CASE q # r  BY <2>2, <2>c, <3>1, <3>2, <4>1
      <4>2. CASE q = r  BY <2>2, <2>c, <3>1, <3>2, <4>2
      <4> QED  BY <4>1, <4>2
    <3>4. ExposureProtocol'  BY <2>0, <2>2, <3>1, <3>2 DEF InHandler
    <3> QED  BY <3>3, <3>4
  <2>3. sent' = sent => sent' = [sent EXCEPT ![r] = sent[r]] /\ sent[r] \in Sent
    BY <2>0
  <2>4. CASE Route(r) \/ TakeConfig(r) \/ TakePipeline(r) \/ Admit(r) \/ RejectCheck(r)
    <3>1. CASE UNCHANGED sent
      BY <2>2, <2>3, <2>4, <3>1
      DEF Route, TakeConfig, TakePipeline, Admit, RejectCheck, Refuse, outcome, Places
    <3>2. CASE Refuse(r)
      BY <2>2, <2>4, <3>2
      DEF Route, TakeConfig, TakePipeline, Admit, RejectCheck, Refuse, outcome, Places, Sent
    <3> QED  BY <2>4, <3>1, <3>2 DEF Route, TakeConfig, TakePipeline, Admit, RejectCheck, outcome
  <2>5. CASE StreamCheck(r)
    BY <2>2, <2>3, <2>5 DEF StreamCheck, Refuse, outcome, Places, Sent
  <2>6. ASSUME NEW v \in {"allow", "redact", "block"}, Decide(r, v) PROVE ExposureIInv'
    BY <2>2, <2>3, <2>6 DEF Decide, Places, Sent
  <2>7. CASE UpstreamFails(r)
    BY <2>2, <2>7 DEF UpstreamFails, Respond, Places, Sent
  <2>8. CASE UpstreamAnswers(r)
    BY <2>2, <2>3, <2>8 DEF UpstreamAnswers, Respond, Record, outcome, Places, Sent, InHandler, TypeOK
  <2>9. CASE Buffered(r)
    BY <2>2, <2>9 DEF Buffered, Respond, Record, Places, Sent, InHandler, TypeOK
  <2>10. CASE StreamEnds(r) \/ Disconnect(r)
    BY <2>2, <2>3, <2>10 DEF StreamEnds, Disconnect, Awaiting, outcome, Places
  <2> QED
    BY <1>2, <2>1, <2>4, <2>5, <2>6, <2>7, <2>8, <2>9, <2>10 DEF RequestStep, Handle
<1>3. CASE UNCHANGED vars
  BY <1>3 DEF vars, handleVars, cells, requestVars, outcome, InHandler, On
<1> QED  BY <1>1, <1>2, <1>3, StepKinds

(* A response that nobody searched for PII was sent after redaction had     *)
(* been off at some moment since the request came, or is one the redactor   *)
(* could not read: counted as skipped, or an error reply of another type.   *)
THEOREM ProxyExposureExplained == Spec => []ExposureExplained
<1>1. Init => ExposureIInv
  BY DEF Init, ExposureIInv, ExposureExplained, Unsearched, ExposureProtocol, InHandler
<1>2. ExposureIInv => ExposureExplained  BY DEF ExposureIInv
<1> QED  BY <1>1, <1>2, NextExposure, ProxyTypeOK, PTL DEF Spec

-----------------------------------------------------------------------------
(* Fresh snapshots.                                                         *)
FreshIInv == SnapshotsFresh /\ FreshProtocol

(* No cell goes back to an earlier generation.                              *)
LEMMA GenerationsGrow ==
  ASSUME HandleIInv, [HandleNext]_handleVars
  PROVE  config.gen <= config'.gen /\ redactor.gen <= redactor'.gen
<1>1. config.gen \in Nat /\ redactor.gen \in Nat /\ config.gen <= redactor.gen + 1
  BY ReloadAssumption DEF HandleIInv, HandleTypeOK, Cells, CellsInStep
<1>2. ASSUME UNCHANGED cells PROVE config.gen <= config'.gen /\ redactor.gen <= redactor'.gen
  BY <1>1, <1>2 DEF cells
<1>3. CASE StoreConfig
  BY <1>1, <1>3 DEF StoreConfig, NewCell
<1>4. CASE StorePipeline
  BY <1>1, <1>4 DEF StorePipeline
<1>5. CASE StoreRedactor
  BY <1>1, <1>5 DEF StoreRedactor, NewCell
<1> QED
  BY <1>2, <1>3, <1>4, <1>5
  DEF HandleNext, ReloadStep, Edit, Sighup, ServeSighup, LoadConfig, BuildPipeline,
      BuildRedactor, handleVars, cells

\* Every step keeps how old a snapshot may be.
LEMMA NextFresh ==
  ASSUME TypeOK, HandleIInv, HandleIInv', FreshIInv, [Next]_vars
  PROVE  FreshIInv'
<1> USE DEF FreshIInv, SnapshotsFresh, FreshProtocol
<1>0. \A c \in Cells : c.gen \in Nat /\ c # None
  BY ReloadAssumption, ProxyAssumption DEF Cells
<1>1. /\ config \in Cells /\ pipeline \in Cells /\ redactor \in Cells
      /\ redactor.gen <= pipeline.gen /\ pipeline.gen <= config.gen
      /\ config.gen <= redactor.gen + 1
  BY DEF HandleIInv, HandleTypeOK, CellsInStep
<1>2. \A q \in Requests :
        /\ entry[q] # None => entry[q].gen \in Nat
        /\ routing[q] # None => routing[q].gen \in Nat
        /\ cfg[q] # None => cfg[q].gen \in Nat
        /\ pipe[q] # None => pipe[q].gen \in Nat
  BY <1>0 DEF TypeOK
<1>3. CASE HandleNext /\ UNCHANGED requestVars
  <2>1. /\ config.gen <= config'.gen /\ redactor.gen <= redactor'.gen
        /\ config'.gen \in Nat /\ redactor'.gen \in Nat
    BY <1>0, <1>3, GenerationsGrow DEF HandleIInv, HandleTypeOK
  <2>2. UNCHANGED <<at, entry, routing, cfg, pipe>>  BY <1>3 DEF requestVars, snapshots
  <2> QED  BY <1>0, <1>1, <1>2, <2>1, <2>2
<1>4. ASSUME NEW r \in Requests, RequestStep(r), UNCHANGED handleVars PROVE FreshIInv'
  <2>0. UNCHANGED <<config, pipeline, redactor>>  BY <1>4 DEF handleVars, cells
  <2>1. ASSUME NEW p \in Places \ {"none", "arrived", "routed", "configured"},
               at[r] \notin {"none", "arrived"},
               at' = [at EXCEPT ![r] = p], UNCHANGED <<entry, routing, cfg, pipe>>
        PROVE  FreshIInv'
    BY <2>0, <2>1 DEF TypeOK
  <2>2. ASSUME NEW k \in Kinds, Arrive(r, k) PROVE FreshIInv'
    BY <1>0, <1>1, <2>0, <2>2 DEF Arrive, TypeOK
  <2>3. CASE Route(r)
    <3>1. PICK p \in {"routed", "done"} : at' = [at EXCEPT ![r] = p]
      BY <2>3 DEF Route, Refuse
    <3> QED  BY <1>0, <1>1, <1>2, <2>0, <2>3, <3>1 DEF Route, TypeOK
  <2>4. CASE TakeConfig(r)
    BY <1>0, <1>1, <1>2, <2>0, <2>4 DEF TakeConfig, TypeOK
  <2>5. CASE TakePipeline(r)
    BY <1>0, <1>1, <1>2, <2>0, <2>5 DEF TakePipeline, TypeOK
  <2>6. CASE \/ Admit(r) \/ Handle(r) \/ StreamEnds(r) \/ Disconnect(r)
    <3>1. at[r] \notin {"none", "arrived"} /\ UNCHANGED <<entry, routing, cfg, pipe>>
      BY <2>6 DEF Admit, Handle, RejectCheck, StreamCheck, Decide, UpstreamFails, UpstreamAnswers,
         Buffered, StreamEnds, Disconnect, Awaiting, snapshots
    <3>2. \E p \in Places \ {"none", "arrived", "routed", "configured"} :
            at' = [at EXCEPT ![r] = p]
      BY <2>6 DEF Admit, Handle, RejectCheck, StreamCheck, Decide, UpstreamFails, UpstreamAnswers,
         Buffered, StreamEnds, Disconnect, Refuse, Respond, Places
    <3> QED  BY <2>1, <3>1, <3>2
  <2> QED  BY <1>4, <2>2, <2>3, <2>4, <2>5, <2>6 DEF RequestStep
<1>5. CASE UNCHANGED vars
  BY <1>5 DEF vars, handleVars, cells, requestVars, snapshots
<1> QED  BY <1>3, <1>4, <1>5, StepKinds

(* What a request works with is never older than what was completely in     *)
(* place when it came, the configuration it is handled with is no older     *)
(* than the one that routed it, and its pipeline is at most one reload      *)
(* behind that configuration.                                               *)
THEOREM ProxySnapshotsFresh == Spec => []SnapshotsFresh
<1>1. Init => FreshIInv  BY DEF Init, FreshIInv, SnapshotsFresh, FreshProtocol
<1>2. FreshIInv => SnapshotsFresh  BY DEF FreshIInv
<1> QED
  BY <1>1, <1>2, NextFresh, ProxyTypeOK, ProxyHandle, HandleInvariant, PTL DEF Spec
=============================================================================
