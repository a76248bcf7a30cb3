--------------------------- MODULE MCLoadedConfig ----------------------------
(***************************************************************************)
(* Files for LoadedConfig: usable ones that differ in what they turn on,   *)
(* and one for each way a file fails to load or to build.                  *)
(***************************************************************************)
EXTENDS LoadedConfig

Nothing == <<>>
With(stages) == [server |-> Nothing, stages |-> stages]
Listing(ids) == [request_stages |-> ids]
Keyed(keys)  == [server |-> Nothing, auth |-> [require_key |-> TRUE, keys |-> keys]]
Policy(when) == [server |-> Nothing,
                 policy |-> [rules |-> <<[name |-> "rule", when |-> when, then |-> Nothing]>>]]
Model(path)  == [enabled |-> TRUE, model_path |-> path, tokenizer_path |-> "model"]

FileDef ==
  [plain        |-> [server |-> Nothing],
   \* The address of the upstream is repaired by the environment.
   guarded      |-> [server   |-> [host |-> "0.0.0.0"],
                     upstream |-> [url |-> "ftp://files"],
                     auth     |-> [require_key |-> TRUE, keys |-> <<"k1", "k2">>],
                     pipeline |-> [request_stages |-> <<"policy", "toxicity", "onnx_injection",
                                                        "pii_redactor">>,
                                   on_error |-> "block"],
                     stages   |-> [toxicity |-> Model("model") @@
                                                [scan_roles |-> <<"user", "system">>],
                                   onnx_injection |-> Model("model")],
                     policy   |-> [rules |->
                       <<[name |-> "all", when |-> [always |-> TRUE, content_contains |-> <<"x">>],
                          then |-> [action |-> "allow"]],
                         [name |-> "some", enabled |-> FALSE,
                          when |-> [content_contains |-> <<"x", "">>,
                                    system_prompt_absent |-> TRUE],
                          then |-> Nothing]>>]],
   alias        |-> With([pii_redaction |->
                      [action |-> "log_only", redact_responses |-> TRUE,
                       entities |-> <<"ssn", "email">>, validate_luhn |-> FALSE,
                       replacements |-> [email |-> "<mail>"]]]),
   \* What is disabled or not listed is not checked.
   dormant      |-> [server   |-> Nothing,
                     pipeline |-> Listing(<<"pii_redactor">>),
                     stages   |-> [regex_injection |-> [extra_rules |-> <<"\\b">>],
                                   toxicity        |-> [scan_roles |-> <<"users">>],
                                   pii_redactor    |-> [enabled |-> FALSE,
                                                        entities |-> <<"name">>]]],
   tokens       |-> Policy([token_count_exceeds |-> 5]),
   \* No header can carry its keys.
   spacedKey    |-> Keyed(<<" k1 ", "cle with an accent">>),
   unknownStage |-> [server |-> Nothing, pipeline |-> Listing(<<"policy", "pii">>)],
   noServer     |-> [upstream |-> Nothing],
   bothNames    |-> With([pii_redaction |-> Nothing, pii_redactor |-> Nothing]),
   hostName     |-> [server |-> [host |-> "localhost"]],
   noKeys       |-> Keyed(<<>>),
   blankKey     |-> Keyed(<<"k1", "">>),
   noCondition  |-> Policy(Nothing),
   blankKeyword |-> Policy([content_contains |-> <<" ">>]),
   badRole      |-> With([toxicity |-> Model("model") @@ [scan_roles |-> <<"user", "users">>]]),
   badRule      |-> With([regex_injection |-> [extra_rules |-> <<"(">>]]),
   noRuleFile   |-> With([regex_injection |-> [rules_file |-> "gone"]]),
   corruptModel |-> With([onnx_injection |-> Model("corrupt")]),
   blankModel   |-> With([onnx_injection |-> Model("")])]

\* "gone" is a file that cannot be read.
VersionsDef == DOMAIN FileDef \cup {"gone"}

EnvDef == [GUARDRAIL_UPSTREAM |-> "https://env", GUARDRAIL_PORT |-> 70000,
           GUARDRAIL_LOG_LEVEL |-> " ", GUARDRAIL_OTLP_ENDPOINT |-> "grpc://otel"]

SocketHostsDef  == {"127.0.0.1", "0.0.0.0"}
HttpUrlsDef     == {"https://api.openai.com", "https://env"}
GrpcUrlsDef     == {"grpc://otel"}
PathsDef        == {"model", "corrupt", "rules"}
ModelFilesDef   == {"model"}
RuleFilesDef    == [rules |-> <<"# a comment", "ignore">>]
BundledRulesDef == <<"", "ignore">>
CommentsDef     == {"", "# a comment"}
BadRulesDef     == {"("}
SlowRulesDef    == {"\\b"}
HeaderValuesDef == {"", "k1", "k2"}

Says(role, text) == <<[role |-> role, parts |-> <<[image |-> FALSE, text |-> text]>>]>>

\* Empty, of one word or of many, with a keyword and without, and with a
\* system prompt.
ProbesDef ==
  {<<>>, Says("user", <<>>), Says("user", <<"x">>), Says("user", <<"y">>),
   Says("user", <<"y", "\n", "y">>), Says("user", <<"y", "y", "y", "y", "y">>),
   Says("system", <<"x">>), Says("system", <<"y", "y">>) \o Says("user", <<"y">>)}

PiiWordsDef == [email |-> {"a@b"}]
HarmfulDef  == <<"h1", "h2">>
=============================================================================
