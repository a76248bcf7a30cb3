------------------------------- MODULE Settings ------------------------------
(***************************************************************************)
(* What a configuration file comes to: the tables and defaults of          *)
(* guardrail-config/src/schema.rs, the environment's overrides and the     *)
(* checks of loader.rs and validate.rs, and the pipeline and the response  *)
(* redactor that are built from the result.                                *)
(*                                                                         *)
(* A file is a record of tables, with the keys that are written in it; a   *)
(* key the schema does not know is ignored.  Strings are atoms, told apart *)
(* by what the checks ask of them: blank, a URL, a path that exists.  A    *)
(* route's path is the sequence of its segments, a threshold is in         *)
(* percent, an Option that is None is "unset".  An error is the fact that  *)
(* there is one.  The build has the `onnx` feature.                        *)
(***************************************************************************)
EXTENDS Integers, FiniteSets, Sequences, TLC, SequencesExt, Lists

CONSTANTS
  File,         \* path or name of a version -> its tables; not in it: unreadable
  Env,          \* GUARDRAIL_* variables; "" and -1: unset
  SocketHosts,  \* hosts that are IP addresses
  HttpUrls,     \* strings that start with http:// or https://
  GrpcUrls,     \* strings that start with grpc://
  Paths,        \* paths that exist
  ModelFiles,   \* paths that hold a model or tokenizer that loads
  RuleFiles,    \* path -> lines, for rule files that can be read
  BundledRules, \* lines of rules/injection.rules
  Comments,     \* lines that are blank or start with #
  BadRules,     \* rules that do not compile
  SlowRules,    \* rules the DFA cannot search
  HeaderValues, \* values a header can have: visible ASCII, no spaces around
  Cpus          \* available_parallelism

ASSUME SettingsAssumption ==
  /\ Cpus \in Nat \ {0} /\ ModelFiles \subseteq Paths
  /\ "none" \notin HeaderValues
  /\ BundledRules \in Seq(STRING) /\ \A path \in DOMAIN RuleFiles : RuleFiles[path] \in Seq(STRING)

Blank  == {"", " "}
Listed(seq, x) == x \in ToSet(seq)

-----------------------------------------------------------------------------
(* schema.rs: each table with its defaults.                                *)
PassthroughRoute(method, path, prefix) == [method |-> method, path |-> path, prefix |-> prefix]

ServerDefaults ==
  [host |-> "127.0.0.1", port |-> 8080, workers |-> 0, max_body_size_bytes |-> 10485760,
   passthrough_paths |-> <<PassthroughRoute("GET", <<"v1", "models">>, FALSE),
                           PassthroughRoute("GET", <<"v1", "models">>, TRUE)>>]

UpstreamDefaults ==
  [url |-> "https://api.openai.com", timeout_secs |-> 120, connect_timeout |-> 10]

AuthDefaults == [require_key |-> FALSE, keys |-> <<>>]

PipelineDefaults ==
  [request_stages |-> <<"regex_injection", "onnx_injection", "pii_redactor", "toxicity",
                        "policy">>,
   response_stages |-> <<"output_pii_redactor">>,
   on_error |-> "allow", stage_timeout_ms |-> 0]

OnnxDefaults == [sessions |-> 0, intra_threads |-> 2]

RegexInjectionDefaults ==
  [enabled |-> TRUE, rules_file |-> "", extra_rules |-> <<>>, action |-> "block"]

ReplacementDefaults ==
  [email |-> "[EMAIL]", phone |-> "[PHONE]", credit_card |-> "[CARD]", ssn |-> "[SSN]",
   ip_address |-> "[IP_ADDRESS]", api_key |-> "[API_KEY]", aws_key |-> "[AWS_KEY]"]

PiiDefaults ==
  [enabled |-> TRUE, action |-> "redact", validate_luhn |-> TRUE,
   entities |-> <<"email", "phone", "credit_card", "ssn", "ip_address", "api_key", "aws_key">>,
   replacements |-> ReplacementDefaults,
   redact_responses |-> FALSE, streaming_responses |-> "redact"]

OnnxStageDefaults ==
  [enabled |-> FALSE, model_path |-> "", tokenizer_path |-> "", threshold |-> 85,
   action |-> "block", on_error |-> "unset", max_windows |-> 16, on_oversize |-> "block"]

ToxicityDefaults ==
  [enabled |-> FALSE, model_path |-> "", tokenizer_path |-> "", threshold |-> 90,
   action |-> "block", on_error |-> "unset", max_windows |-> 16, on_oversize |-> "block",
   scan_roles |-> <<"user">>]

ConditionDefaults ==
  [content_contains |-> <<>>, system_prompt_absent |-> FALSE,
   token_count_exceeds |-> 0, always |-> FALSE]

RuleDefaults == [enabled |-> TRUE]

ObservabilityDefaults ==
  [log_level |-> "info", log_format |-> "pretty", metrics_port |-> 9090, otlp_endpoint |-> ""]

AuditLogDefaults == [enabled |-> FALSE, path |-> "./guardrail-audit.ndjson", max_size_mb |-> 100]

\* One table of a file: what is written in it over the defaults.
Table(tables, name, defaults) ==
  LET written == IF name \in DOMAIN tables THEN tables[name] ELSE <<>>
  IN  [key \in DOMAIN written \cup DOMAIN defaults |->
         IF key \in DOMAIN written THEN written[key] ELSE defaults[key]]

Rule(rule) ==
  [rule EXCEPT !.when = @ @@ ConditionDefaults,
               !.then = @ @@ [action |-> "block", message |-> "unset"]] @@ RuleDefaults

StagesConfig(file) ==
  LET tables == Table(file, "stages", <<>>)
      written == IF "pii_redaction" \in DOMAIN tables THEN "pii_redaction" ELSE "pii_redactor"
      pii == Table(tables, written, PiiDefaults)
  IN [regex_injection |-> Table(tables, "regex_injection", RegexInjectionDefaults),
      onnx_injection  |-> Table(tables, "onnx_injection", OnnxStageDefaults),
      pii_redactor    |-> [pii EXCEPT !.replacements = @ @@ ReplacementDefaults],
      toxicity        |-> Table(tables, "toxicity", ToxicityDefaults)]

\* `toml::from_str` fails without [server], or with a key and its alias.
Parses(file) ==
  /\ "server" \in DOMAIN file
  /\ ~({"pii_redactor", "pii_redaction"} \subseteq DOMAIN Table(file, "stages", <<>>))

Config(file) ==
  [server   |-> Table(file, "server", ServerDefaults),
   upstream |-> Table(file, "upstream", UpstreamDefaults),
   auth     |-> Table(file, "auth", AuthDefaults),
   pipeline |-> Table(file, "pipeline", PipelineDefaults),
   stages   |-> StagesConfig(file),
   onnx     |-> Table(file, "onnx", OnnxDefaults),
   policy   |-> [rules |-> LET rules == Table(file, "policy", [rules |-> <<>>]).rules
                           IN  [i \in DOMAIN rules |-> Rule(rules[i])]],
   observability |->
     LET written == Table(file, "observability", ObservabilityDefaults)
     IN  [audit_log |-> Table(written, "audit_log", AuditLogDefaults)] @@ written]

\* Mutant of ApplyEnvOverrides: the file wins over the environment.
FileWins(c) == c

\* `apply_env_overrides`: blank and malformed values change nothing.
ApplyEnvOverrides(c) ==
  LET Or(value, current) == IF value \in Blank THEN current ELSE value IN
  [c EXCEPT !.upstream.url = Or(Env.GUARDRAIL_UPSTREAM, @),
            !.server.port = IF Env.GUARDRAIL_PORT \in 0..65535 THEN Env.GUARDRAIL_PORT ELSE @,
            !.observability.log_level = Or(Env.GUARDRAIL_LOG_LEVEL, @),
            !.observability.otlp_endpoint = Or(Env.GUARDRAIL_OTLP_ENDPOINT, @)]

-----------------------------------------------------------------------------
(* validate.rs: a configuration is valid if no check reports an error.     *)
Entities      == DOMAIN ReplacementDefaults
Roles         == {"system", "user", "assistant", "tool"}
RequestStages == {"regex_injection", "onnx_injection", "pii_redactor", "toxicity", "policy"}

\* `PassthroughRoute::parse`: an entry without a method is malformed.
RouteParses(entry) == entry.method # ""

ServerValid(s) ==
  /\ s.host \in SocketHosts
  /\ s.max_body_size_bytes > 0
  /\ \A i \in DOMAIN s.passthrough_paths : RouteParses(s.passthrough_paths[i])

UpstreamValid(u) == u.url \in HttpUrls /\ u.timeout_secs > 0

\* Mutant of AuthValid: only the number of the keys counts.
AuthValidBlank(a) == a.require_key => a.keys # <<>>

AuthValid(a) ==
  /\ a.require_key => a.keys # <<>>
  /\ ToSet(a.keys) \cap Blank = {}

\* Mutant of StageIdsValid: the request stages are not looked at.
ResponseIdsValid(p) == ToSet(p.response_stages) \subseteq {"output_pii_redactor"}

StageIdsValid(p) ==
  /\ ToSet(p.request_stages) \subseteq RequestStages
  /\ ToSet(p.response_stages) \subseteq {"output_pii_redactor"}

PiiValid(pii) ==
  pii.enabled => pii.entities # <<>> /\ ToSet(pii.entities) \subseteq Entities

OnnxStageValid(s) ==
  s.enabled =>
    /\ s.model_path \in Paths \cup Blank
    /\ s.threshold \in 0..100
    /\ s.max_windows \in Nat \ {0}

\* Mutant of ScanRolesValid: a role that is not known is not reported.
ScanRolesNonEmpty(toxicity) == toxicity.enabled => toxicity.scan_roles # <<>>

ScanRolesValid(toxicity) ==
  toxicity.enabled =>
    toxicity.scan_roles # <<>> /\ ToSet(toxicity.scan_roles) \subseteq Roles

\* Mutant of RuleValid: a condition may be empty.
RuleValidEmpty(rule) ==
  /\ rule.name \notin Blank
  /\ rule.when.content_contains # <<>> => ~(ToSet(rule.when.content_contains) \subseteq Blank)

RuleValid(rule) ==
  /\ rule.name \notin Blank
  /\ \/ rule.when.content_contains # <<>> \/ rule.when.system_prompt_absent
     \/ rule.when.token_count_exceeds > 0 \/ rule.when.always
  /\ rule.when.content_contains # <<>> => ~(ToSet(rule.when.content_contains) \subseteq Blank)

ObservabilityValid(o) ==
  /\ o.log_level \in {"trace", "debug", "info", "warn", "error"}
  /\ o.log_format \in {"pretty", "json"}
  /\ o.otlp_endpoint \in Blank \cup HttpUrls \cup GrpcUrls
  /\ o.audit_log.enabled => o.audit_log.path \notin Blank /\ o.audit_log.max_size_mb > 0

\* `validate_config`
Valid(c) ==
  /\ ServerValid(c.server) /\ UpstreamValid(c.upstream) /\ AuthValid(c.auth)
  /\ StageIdsValid(c.pipeline)
  /\ PiiValid(c.stages.pii_redactor)
  /\ c.onnx.intra_threads > 0
  /\ OnnxStageValid(c.stages.onnx_injection)
  /\ OnnxStageValid(c.stages.toxicity) /\ ScanRolesValid(c.stages.toxicity)
  /\ \A i \in DOMAIN c.policy.rules : RuleValid(c.policy.rules[i])
  /\ ObservabilityValid(c.observability)

-----------------------------------------------------------------------------
(* loader.rs: the stages that are built.                                   *)
\* `build_regex_injection`: the rules of the file or the bundled ones, then
\* the extra ones; every one must compile and be fast.
RuleLines(settings) ==
  (IF settings.rules_file \in Blank THEN BundledRules ELSE RuleFiles[settings.rules_file])
  \o settings.extra_rules

ParseRules(lines) == Only(lines, ToSet(lines) \ Comments)

ScannerBuilds(settings) ==
  /\ settings.rules_file \in Blank \cup DOMAIN RuleFiles
  /\ ToSet(ParseRules(RuleLines(settings))) \cap (BadRules \cup SlowRules) = {}

FailMode(on_error) == IF on_error = "block" THEN "closed" ELSE "open"
Resolve(stage, default) == IF stage = "unset" THEN default ELSE stage

\* Pool sizes: sessions of one of the stages that share the machine.
DefaultSessions(threads, stages) ==
  LET share == Cpus \div (threads * stages) IN
  IF share < 1 THEN 1 ELSE IF share > 4 THEN 4 ELSE share

OnnxStages(c) ==
  {id \in {"onnx_injection", "toxicity"} :
     c.stages[id].enabled /\ Listed(c.pipeline.request_stages, id)}

Sessions(c) ==
  IF c.onnx.sessions # 0 THEN c.onnx.sessions
  ELSE DefaultSessions(c.onnx.intra_threads, Cardinality(OnnxStages(c)))

RegexStage(c, id) ==
  LET s == c.stages.regex_injection IN
  [id |-> id, mode |-> FailMode(c.pipeline.on_error), rules |-> ParseRules(RuleLines(s)),
   block |-> s.action # "log_only"]

\* A role that is not known is left out, which validation has to rule out.
OnnxStage(c, id) ==
  LET s == c.stages[id] IN
  [id |-> id, mode |-> FailMode(Resolve(s.on_error, c.pipeline.on_error)),
   logOnly |-> s.action = "log_only", threshold |-> s.threshold,
   maxWindows |-> s.max_windows, onOversize |-> s.on_oversize, sessions |-> Sessions(c),
   roles |-> IF id = "toxicity" THEN Roles \cap ToSet(s.scan_roles) ELSE {"user", "tool"}]

PiiRedactor(c) ==
  LET pii == c.stages.pii_redactor IN
  [entities |-> pii.entities, luhn |-> pii.validate_luhn,
   replacements |-> pii.replacements, action |-> pii.action]

PiiStage(c, id) ==
  LET pii == PiiRedactor(c) IN
  [id |-> id, mode |-> FailMode(c.pipeline.on_error), entities |-> pii.entities,
   luhn |-> pii.luhn, replacements |-> pii.replacements, action |-> pii.action]

\* Mutant of Condition: the order of the fields decides, not `always`.
ConditionByField(when) ==
  IF when.content_contains # <<>>
    THEN [type |-> "ContentContains", keywords |-> ToSet(when.content_contains)]
  ELSE IF when.system_prompt_absent THEN [type |-> "SystemPromptAbsent"]
  ELSE IF when.token_count_exceeds > 0
    THEN [type |-> "TokenCountExceeds", limit |-> when.token_count_exceeds]
  ELSE [type |-> "Always"]

\* `convert_policy_rules`: the first condition that is set stands for all, and
\* none for Always, which validation has to rule out.
Condition(when) ==
  CASE when.always -> [type |-> "Always"]
    [] ~when.always /\ when.content_contains # <<>> ->
         [type |-> "ContentContains", keywords |-> ToSet(when.content_contains)]
    [] ~when.always /\ when.content_contains = <<>> /\ when.system_prompt_absent ->
         [type |-> "SystemPromptAbsent"]
    [] ~when.always /\ when.content_contains = <<>> /\ ~when.system_prompt_absent
       /\ when.token_count_exceeds > 0 ->
         [type |-> "TokenCountExceeds", limit |-> when.token_count_exceeds]
    [] OTHER -> [type |-> "Always"]

PolicyRule(rule) ==
  [name |-> rule.name, enabled |-> rule.enabled, condition |-> Condition(rule.when),
   action |-> rule.then.action]

PolicyStage(c, id) ==
  [id |-> id, mode |-> FailMode(c.pipeline.on_error),
   rules |-> [i \in DOMAIN c.policy.rules |-> PolicyRule(c.policy.rules[i])]]

Stage(c, id) ==
  CASE id = "regex_injection" -> RegexStage(c, id)
    [] id = "pii_redactor"    -> PiiStage(c, id)
    [] id = "policy"          -> PolicyStage(c, id)
    [] OTHER                  -> OnnxStage(c, id)

\* `build_pipeline`: the stages in the order of `request_stages`; what is
\* disabled or not known is skipped.
StagesOn(c) ==
  {id \in RequestStages :
     IF id = "policy" THEN c.policy.rules # <<>> ELSE c.stages[id].enabled}

BuiltPipeline(c) ==
  LET ids == Only(c.pipeline.request_stages, StagesOn(c))
  IN  [i \in DOMAIN ids |-> Stage(c, ids[i])]

\* Mutant of ResponseRedactor: output redaction with the bundled settings.
DefaultRedactor(c) ==
  IF /\ c.stages.pii_redactor.redact_responses /\ c.stages.pii_redactor.enabled
     /\ Listed(c.pipeline.response_stages, "output_pii_redactor")
  THEN <<[entities |-> PiiDefaults.entities, luhn |-> TRUE,
          replacements |-> ReplacementDefaults, action |-> "redact"]>>
  ELSE <<>>

\* `build_response_redactor`: none, or the one of the request side.
ResponseRedactor(c) ==
  IF /\ c.stages.pii_redactor.redact_responses /\ c.stages.pii_redactor.enabled
     /\ Listed(c.pipeline.response_stages, "output_pii_redactor")
  THEN <<PiiRedactor(c)>> ELSE <<>>

-----------------------------------------------------------------------------
(* What fails, and where: `load_config` runs the checks after the          *)
(* overrides and builds the scanner once to check its rules.               *)
Readable == {v \in DOMAIN File : Parses(File[v])}

Configs == [v \in Readable |-> ApplyEnvOverrides(Config(File[v]))]

Loaded(version) == Configs[version]

\* The types of schema.rs, which parsing a file enforces.
ASSUME SchemaAssumption ==
  \A v \in Readable :
    /\ Loaded(v).pipeline.request_stages \in Seq(STRING)
    /\ Loaded(v).stages.toxicity.scan_roles \in Seq(STRING)
    /\ Loaded(v).stages.pii_redactor.action \in {"block", "redact", "log_only"}
    /\ Loaded(v).stages.pii_redactor.entities \in Seq(STRING)
    /\ Loaded(v).onnx.intra_threads \in Nat
    /\ Loaded(v).auth.keys \in Seq(STRING)
    /\ Loaded(v).stages.regex_injection.extra_rules \in Seq(STRING)
    /\ Loaded(v).policy.rules \in Seq(ToSet(Loaded(v).policy.rules))

LoadFails(version) ==
  \/ version \notin Readable
  \/ ~Valid(Loaded(version))
  \/ /\ Loaded(version).stages.regex_injection.enabled
     /\ Listed(Loaded(version).pipeline.request_stages, "regex_injection")
     /\ ~ScannerBuilds(Loaded(version).stages.regex_injection)

\* A model or a tokenizer that does not load: the check asks only whether the
\* model's path exists or is blank.
BuildFails(version) ==
  /\ ~LoadFails(version)
  /\ \E id \in OnnxStages(Loaded(version)) :
       ~({Loaded(version).stages[id].model_path, Loaded(version).stages[id].tokenizer_path}
           \subseteq ModelFiles)

-----------------------------------------------------------------------------
(* auth.rs, and the routes of [server].                                    *)
\* `is_authorized`; the value presented is a header's as it was parsed, or
\* "none" without one.  One that is not in HeaderValues reads as none.
Authorized(auth, path, presented) ==
  \/ ~auth.require_key
  \/ path \in {<<"healthz">>, <<"metrics">>}
  \/ presented \in HeaderValues /\ presented \in ToSet(auth.keys)

\* `PassthroughRoute::matches`
RouteMatches(route, method, path) ==
  /\ route.method = method
  /\ \/ path = route.path
     \/ route.prefix /\ IsStrictPrefix(route.path, path)
=============================================================================
