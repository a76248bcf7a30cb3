----------------------------- MODULE LoadedConfig ----------------------------
(***************************************************************************)
(* The configuration handle over real files: a version of ConfigHandle is  *)
(* the name of a file whose tables Settings reads, and what fails on a     *)
(* reload is computed from them.                                           *)
(*                                                                         *)
(* The loader leaves out what it does not know (a stage id, a role) and    *)
(* makes a rule without a condition match everything; `validate_config`,   *)
(* in another file, has to rule these out.  The properties say that the    *)
(* two together let nothing into use that means something else than what   *)
(* is written.                                                             *)
(***************************************************************************)
EXTENDS ConfigHandle, Settings, Screening

CONSTANT Probes  \* the requests that policy rules are tried on

\* What a reload of each version fails on.  A response redactor is built from
\* settings the pipeline's redactor was built from, so it fails on none.
FailsToLoad  == {v \in Versions : LoadFails(v)}
FailsToBuild == {v \in Versions : BuildFails(v)}

ASSUME FailuresAssumption ==
  Unloadable = FailsToLoad /\ Unbuildable = FailsToBuild /\ Unredactable = {}

-----------------------------------------------------------------------------
(* A policy rule in use matches a request only for a reason its table       *)
(* gives: `always`, one of its keywords, an absent system prompt or too     *)
(* many tokens; and `always`, or one of the keywords, is always enough.  So *)
(* it matches every request only if the table says `always`, or if one of   *)
(* the keywords is in every text, which a blank one may be: the keywords    *)
(* of a rule are not all blank, but some may.                               *)
Found(when, request) ==
  \E keyword \in ToSet(when.content_contains) : HasKeyword(AllText(request), keyword)

Reason(when, request) ==
  \/ when.always \/ Found(when, request)
  \/ when.system_prompt_absent /\ \A i \in DOMAIN request : request[i].role # "system"
  \/ when.token_count_exceeds > 0 /\ ApproxTokens(request) > when.token_count_exceeds

RuleMeant(when, condition) ==
  /\ \A request \in Probes :
       /\ RuleMatches(condition, request) => Reason(when, request)
       /\ when.always \/ Found(when, request) => RuleMatches(condition, request)
  /\ condition.type = "ContentContains" => ~(condition.keywords \subseteq Blank)

RulesMeant(c) ==
  \A i \in DOMAIN c.policy.rules :
    RuleMeant(c.policy.rules[i].when, PolicyRule(c.policy.rules[i]).condition)

WithRulesMeant == {v \in Usable : RulesMeant(Loaded(v))}

PoliciesMeant == InUse \subseteq WithRulesMeant

(* Nothing that the file in use names for its pipeline is left out of it.   *)
(* Every stage that is listed is there, in the order of the list, unless    *)
(* the file turns it off; and in it every rule line that is not a comment,  *)
(* which can be tried, every role, every entity with its replacement and    *)
(* every policy rule with its switch.  That a stage then looks at something *)
(* is not said: a rule file may hold comments only, and every policy rule   *)
(* may be disabled.  The sessions of the ONNX stages that share the machine *)
(* leave a thread per CPU, unless the file or the minimum of one says       *)
(* otherwise.                                                               *)
TurnedOff(c) ==
  {id \in RequestStages \ {"policy"} : ~c.stages[id].enabled}
  \cup (IF c.policy.rules = <<>> THEN {"policy"} ELSE {})

OnnxMeant(c, stage) ==
  /\ stage.roles # {} /\ stage.maxWindows > 0 /\ stage.threshold <= 100
  /\ stage.id = "toxicity" => stage.roles = ToSet(c.stages.toxicity.scan_roles)
  /\ \/ stage.sessions \in {1, c.onnx.sessions}
     \/ Cardinality(OnnxStages(c)) * stage.sessions * c.onnx.intra_threads <= Cpus

PiiMeant(pii, stage) ==
  /\ stage.entities # <<>>
  /\ \A entity \in ToSet(pii.entities) :
       /\ entity \in Entities \cap ToSet(stage.entities)
       /\ stage.replacements[entity] = pii.replacements[entity]

ScannerMeant(settings, stage) ==
  /\ ToSet(settings.extra_rules) \ Comments \subseteq ToSet(stage.rules)
  /\ settings.rules_file \notin Blank =>
       /\ settings.rules_file \in DOMAIN RuleFiles
       /\ ToSet(RuleFiles[settings.rules_file]) \ Comments \subseteq ToSet(stage.rules)
  /\ ToSet(stage.rules) \cap (BadRules \cup SlowRules) = {}

PolicyMeant(rules, stage) ==
  /\ DOMAIN stage.rules = DOMAIN rules
  /\ \A i \in DOMAIN rules :
       stage.rules[i].name = rules[i].name /\ stage.rules[i].enabled = rules[i].enabled

StageMeant(c, stage) ==
  CASE stage.id = "regex_injection" -> ScannerMeant(c.stages.regex_injection, stage)
    [] stage.id = "pii_redactor"    -> PiiMeant(c.stages.pii_redactor, stage)
    [] stage.id = "policy"          -> PolicyMeant(c.policy.rules, stage)
    [] OTHER                        -> OnnxMeant(c, stage)

(* And when both sides redact, they redact the same: the response side is   *)
(* never weaker than the request side of the same reload.                   *)
SameRedaction(c, built) ==
  \A i \in DOMAIN built : \A r \in ToSet(ResponseRedactor(c)) :
    built[i].id = "pii_redactor" =>
      r.entities = built[i].entities /\ r.luhn = built[i].luhn
      /\ r.replacements = built[i].replacements

PipelineMeant(c) ==
  LET built  == BuiltPipeline(c)
      listed == c.pipeline.request_stages
  IN /\ [i \in DOMAIN built |-> built[i].id] = Only(listed, ToSet(listed) \ TurnedOff(c))
     /\ \A i \in DOMAIN built : StageMeant(c, built[i])
     /\ SameRedaction(c, built)

WithPipelineMeant == {v \in Usable : PipelineMeant(Loaded(v))}

StagesMeant == InUse \subseteq WithPipelineMeant

(* Whatever file is in use can serve: an upstream to forward to, the one of *)
(* the environment where it names one, and a body that fits.  With          *)
(* `require_key`, neither an empty header nor a missing one opens the door, *)
(* and it stays shut to everybody only if the file has keys, none of which  *)
(* a header can carry: with spaces around it, or not ASCII, a key passes    *)
(* the checks and no caller can present it.                                 *)
Opening(auth) ==
  {value \in HeaderValues \cup {"none"} : Authorized(auth, <<"v1">>, value)}

Serves(c) ==
  /\ c.upstream.url \in HttpUrls /\ c.upstream.timeout_secs > 0
  /\ Env.GUARDRAIL_UPSTREAM \notin Blank => c.upstream.url = Env.GUARDRAIL_UPSTREAM
  /\ c.server.max_body_size_bytes > 0
  /\ c.auth.require_key =>
       /\ Opening(c.auth) \cap (Blank \cup {"none"}) = {}
       /\ Opening(c.auth) = {} =>
            c.auth.keys # <<>> /\ ToSet(c.auth.keys) \cap HeaderValues = {}

Serving == {v \in Usable : Serves(Loaded(v))}

CallersServed == InUse \subseteq Serving
=============================================================================
