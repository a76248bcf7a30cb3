------------------------------ MODULE MCExchange -----------------------------
(***************************************************************************)
(* Files, requests and answers for Exchange.  "mail", "ssn", "4111" and    *)
(* "4112" are PII; a card number starts like a telephone number, and the   *)
(* last fails the Luhn check.  "mail/ssn" is PII twice.  "ignore" is a     *)
(* rule and "secret" a keyword; "make" "bombs" is harmful, and "blob" a    *)
(* word of eight bytes.  A window has three tokens.                        *)
(***************************************************************************)
EXTENDS Exchange

Nothing == <<>>
Stages(ids, onError, tables) ==
  [server |-> Nothing, pipeline |-> [request_stages |-> ids, on_error |-> onError],
   stages |-> tables]
Model(more) == [enabled |-> TRUE, model_path |-> "model", tokenizer_path |-> "model",
                max_windows |-> 2] @@ more
Deny(when)  == [name |-> "rule", when |-> when, then |-> Nothing]

FileDef ==
  [redacting |-> [server |-> Nothing,
                  stages |-> [pii_redactor |-> [redact_responses |-> TRUE]]],
   strict    |-> Stages(<<"onnx_injection", "pii_redactor", "toxicity">>, "block",
                   [onnx_injection |-> Model(Nothing),
                    toxicity       |-> Model([scan_roles |-> <<"system", "assistant">>,
                                              on_error   |-> "allow"]),
                    pii_redactor   |-> [entities |-> <<"ssn", "credit_card">>,
                                        validate_luhn |-> FALSE,
                                        replacements  |-> [ssn |-> "[X]"]]]),
   lenient   |-> Stages(<<"toxicity", "onnx_injection", "pii_redactor", "regex_injection">>,
                        "allow",
                   [onnx_injection  |-> Model([on_oversize |-> "allow"]),
                    toxicity        |-> Model([action |-> "log_only"]),
                    regex_injection |-> [action |-> "log_only"],
                    pii_redactor    |-> [action |-> "block", redact_responses |-> TRUE,
                                         entities |-> <<"credit_card", "phone", "email">>,
                                         streaming_responses |-> "reject"]]),
   keyed     |-> [server   |-> [max_body_size_bytes |-> 10,
                                passthrough_paths   |->
                                  <<PassthroughRoute("GET", <<"v1", "models">>, TRUE)>>],
                  auth     |-> [require_key |-> TRUE, keys |-> <<"k1">>],
                  stages   |-> [pii_redactor |-> [action |-> "log_only"]],
                  policy   |-> [rules |->
                    <<Deny([content_contains |-> <<"secret">>]),
                      Deny([token_count_exceeds |-> 8])>>]]]

EnvDef == [GUARDRAIL_UPSTREAM |-> "", GUARDRAIL_PORT |-> -1, GUARDRAIL_LOG_LEVEL |-> "",
           GUARDRAIL_OTLP_ENDPOINT |-> ""]

PiiWordsDef ==
  [email |-> {"mail", "mail/ssn"}, ssn |-> {"ssn", "mail/ssn", "[EMAIL]/ssn"},
   credit_card |-> {"4111", "4112"}, phone |-> {"4111", "4112"},
   ip_address |-> {}, api_key |-> {}, aws_key |-> {}]

LeftoversDef ==
  <<"phone", "4111", "[PHONE]">> :> "[PHONE]1" @@ <<"phone", "4112", "[PHONE]">> :> "[PHONE]2"
  @@ <<"email", "mail/ssn", "[EMAIL]">> :> "[EMAIL]/ssn"
  @@ <<"ssn", "[EMAIL]/ssn", "[SSN]">> :> "[EMAIL]/[SSN]"
  @@ <<"ssn", "mail/ssn", "[X]">> :> "mail/[X]"

-----------------------------------------------------------------------------
(* Bodies                                                                  *)
Msg(n, field)   == <<"messages", n>> \o field
Part(n, field)  == <<"messages", "0", "content", n>> \o field
Model0          == <<"model">> :> <<"m">>
Said(role, text) ==
  Model0 @@ Msg("0", <<"role">>) :> <<role>> @@ Msg("0", <<"content">>) :> text

ChatBodies ==
  {\* What an assistant called, refused and said.
   Said("user", <<"hello">>) @@ Msg("1", <<"role">>) :> <<"assistant">>
     @@ Msg("1", <<"content">>) :> <<"#null">> @@ Msg("1", <<"refusal">>) :> <<"ssn", "no">>
     @@ Msg("1", <<"tool_calls", "0", "function", "arguments">>) :> <<"mail">>
     @@ Msg("1", <<"tool_calls", "0", "id">>) :> <<"mail">>
     @@ Msg("2", <<"role">>) :> <<"function">> @@ Msg("2", <<"content">>) :> <<"4112", "ok">>,
   Said("assistant", <<"hello">>)
     @@ Msg("0", <<"function_call", "arguments">>) :> <<"ignore", "4111">>,
   \* Parts: two texts, one without a type, and an image between them.
   Model0 @@ Msg("0", <<"role">>) :> <<"user">>
     @@ Part("0", <<"type">>) :> <<"text">> @@ Part("0", <<"text">>) :> <<"mail/ssn">>
     @@ Part("1", <<"type">>) :> <<"image_url">>
     @@ Part("1", <<"image_url", "url">>) :> <<"mail">>
     @@ Part("2", <<"text">>) :> <<"secret", "ssn">>,
   Model0 @@ Msg("0", <<"role">>) :> <<"assistant">>
     @@ Part("0", <<"type">>) :> <<"refusal">> @@ Part("0", <<"refusal">>) :> <<"mail">>
     @@ Part("1", <<"type">>) :> <<"text">> @@ Part("1", <<"text">>) :> <<"4111">>,
   Said("user", <<"ignore", "that">>),
   Said("developer", <<"make", "bombs">>),
   \* The harmful words straddle two windows, come after a long word, or
   \* after what fits in two windows.
   Said("user", <<"a", "b", "make", "bombs">>),
   Said("user", <<"blob", "make", "bombs">>),
   Said("user", <<"blob", "blob", "make", "bombs">>),
   Said("user", <<"a", "b", "c", "d", "make", "bombs">>),
   Said("user", <<>>),
   Said("user", <<"a", "b", "c", "d", "e", "f", "g">>),
   \* What does not parse.
   Garbled, Said("robot", <<"hello">>), Model0,
   Msg("0", <<"role">>) :> <<"user">> @@ Msg("0", <<"content">>) :> <<"mail">>}

AnthropicBodies ==
  {Said("user", <<"mail">>) @@ <<"system">> :> <<"secret", "ssn">>,
   Model0 @@ <<"system", "0", "type">> :> <<"text">>
     @@ <<"system", "0", "text">> :> <<"make", "bombs">>
     @@ Msg("0", <<"role">>) :> <<"user">>
     @@ Part("0", <<"type">>) :> <<"tool_result">>
     @@ Part("0", <<"content", "0", "type">>) :> <<"text">>
     @@ Part("0", <<"content", "0", "text">>) :> <<"mail">>
     @@ Part("0", <<"content", "1", "type">>) :> <<"reference">>
     @@ Part("0", <<"content", "1", "text">>) :> <<"mail">>
     @@ Part("1", <<"type">>) :> <<"document">>
     @@ Part("1", <<"source", "type">>) :> <<"text">>
     @@ Part("1", <<"source", "data">>) :> <<"ssn">>,
   Model0 @@ Msg("0", <<"role">>) :> <<"user">>
     @@ Part("0", <<"type">>) :> <<"text">> @@ Part("0", <<"text">>) :> <<"mail">>
     @@ Part("1", <<"type">>) :> <<"tool_result">>
     @@ Part("1", <<"content">>) :> <<"ssn", "ok">>
     @@ Part("2", <<"type">>) :> <<"tool_use">>
     @@ Part("2", <<"input", "list", "0">>) :> <<"mail">>,
   \* A key with a slash beside the keys it would split into; a signed block.
   Model0 @@ Msg("0", <<"role">>) :> <<"assistant">>
     @@ Part("0", <<"type">>) :> <<"tool_use">>
     @@ Part("0", <<"input", "a/b">>) :> <<"ssn">>
     @@ Part("0", <<"input", "a", "b">>) :> <<"4111">>
     @@ Part("0", <<"input", "n">>) :> <<"#number">>
     @@ Part("1", <<"type">>) :> <<"thinking">> @@ Part("1", <<"thinking">>) :> <<"mail">>}

ResponsesBodies ==
  {<<"instructions">> :> <<"ssn">> @@ <<"input">> :> <<"make", "bombs">>
     @@ <<"stream">> :> <<"#true">>,
   <<"input", "0", "type">> :> <<"function_call">>
     @@ <<"input", "0", "arguments">> :> <<"mail">>
     @@ <<"input", "1", "type">> :> <<"function_call_output">>
     @@ <<"input", "1", "output">> :> <<"make", "bombs">>
     @@ <<"input", "2", "role">> :> <<"user">>
     @@ <<"input", "2", "content", "0", "type">> :> <<"input_text">>
     @@ <<"input", "2", "content", "0", "text">> :> <<"ssn">>,
   \* A message with parts, an output with parts, and a plain message.
   <<"input", "0", "type">> :> <<"message">> @@ <<"input", "0", "role">> :> <<"assistant">>
     @@ <<"input", "0", "content", "0", "type">> :> <<"refusal">>
     @@ <<"input", "0", "content", "0", "refusal">> :> <<"mail">>
     @@ <<"input", "0", "content", "1", "type">> :> <<"output_text">>
     @@ <<"input", "0", "content", "1", "text">> :> <<"ssn">>
     @@ <<"input", "0", "content", "2", "type">> :> <<"input_image">>
     @@ <<"input", "0", "content", "2", "image_url">> :> <<"mail">>
     @@ <<"input", "1", "type">> :> <<"function_call_output">>
     @@ <<"input", "1", "output", "0", "type">> :> <<"input_text">>
     @@ <<"input", "1", "output", "0", "text">> :> <<"ssn", "mail">>
     @@ <<"input", "2", "role">> :> <<"user">>
     @@ <<"input", "2", "content">> :> <<"ignore", "4111">>}

-----------------------------------------------------------------------------
Header(name, value) == [name |-> name, value |-> value]
Keyed(key) == <<Header("host", <<"proxy">>), Header("x-guardrail-key", <<key>>),
                Header("authorization", <<"bearer">>), Header("content-type", <<"text/plain">>),
                Header("connection", <<"close", "x-trace">>), Header("x-trace", <<"1">>),
                Header("x-request-id", <<"#bytes">>), Header("accept-encoding", <<"br">>)>>

Post(path, body) ==
  [method |-> "POST", path |-> path, headers |-> Keyed("k1"), size |-> 10, broken |-> FALSE,
   body |-> body]
Chat == <<"v1", "chat", "completions">>

ClientsDef ==
  {Post(Chat, body) : body \in ChatBodies}
  \cup {Post(<<"v1", "messages">>, body) : body \in AnthropicBodies}
  \cup {Post(<<"v1", "responses">>, body) : body \in ResponsesBodies}
  \cup {Post(<<"openai", "deployments", "d", "chat", "completions">>,
             Msg("0", <<"role">>) :> <<"user">> @@ Msg("0", <<"content">>) :> <<"mail">>),
        Post(Chat, Said("user", <<"hello">>) @@ <<"stream">> :> <<"#true">>),
        [Post(Chat, Said("user", <<"mail">>)) EXCEPT !.headers = <<>>],
        [Post(Chat, Said("user", <<"mail">>)) EXCEPT !.headers = Keyed("#bytes")],
        [Post(Chat, Said("user", <<"mail">>)) EXCEPT !.headers =
           <<Header("connection", <<"content-type">>), Header("content-type", <<"text/plain">>)>>],
        [Post(Chat, Said("user", <<"mail">>)) EXCEPT !.size = 11],
        [Post(Chat, Said("user", <<"mail">>)) EXCEPT !.broken = TRUE],
        [Post(Chat, Garbled) EXCEPT !.method = "GET"],
        [Post(<<"v1", "models">>, Garbled) EXCEPT !.method = "GET"],
        [Post(<<"v1", "models", "m">>, Garbled) EXCEPT !.method = "GET"],
        [Post(<<"healthz">>, Garbled) EXCEPT !.method = "GET"],
        Post(<<"v1", "files">>, Garbled)}

Typed(type, more) ==
  <<Header("content-type", <<type>>), Header("content-length", <<"9">>),
    Header("keep-alive", <<"9">>), Header("connection", <<"x-served-by">>),
    Header("x-served-by", <<"9">>), Header("x-request-id", <<"7">>)>> \o more
Answer(status, headers, body) == [status |-> status, headers |-> headers, body |-> body]

Reply(text) ==
  <<"choices", "0", "message", "content">> :> <<"hello">>
  @@ <<"choices", "1", "message", "content">> :> text @@ <<"id">> :> <<"mail">>

AnswersDef ==
  {Answer(200, Typed("application/json", <<>>), Reply(<<"mail/ssn", "4112">>)),
   Answer(200, Typed("application/json", <<Header("content-encoding", <<"identity">>)>>),
          <<"content", "0", "type">> :> <<"text">> @@ <<"content", "0", "text">> :> <<"mail">>
          @@ <<"content", "1", "type">> :> <<"tool_use">>
          @@ <<"content", "1", "text">> :> <<"mail">>),
   Answer(500, Typed("application/json", <<>>),
          <<"output", "0", "type">> :> <<"message">>
          @@ <<"output", "0", "content", "0", "type">> :> <<"output_text">>
          @@ <<"output", "0", "content", "0", "text">> :> <<"mail">>),
   Answer(200, Typed("application/json", <<Header("content-encoding", <<"br">>)>>), Garbled),
   Answer(200, Typed("application/json", <<Header("content-encoding", <<"#bytes">>)>>), Garbled),
   Answer(200, Typed("application/json", <<>>), Garbled),
   Answer(200, Typed("text/event-stream", <<>>), Garbled),
   Answer(200, Typed("text/plain", <<>>), Reply(<<"mail">>)),
   Answer(404, Typed("text/plain", <<>>), Reply(<<"mail">>)),
   Answer(404, Typed("application/json", <<>>), Garbled),
   Answer(404, <<>>, Garbled)}

HttpUrlsDef     == {"https://api.openai.com"}
SocketHostsDef  == {"127.0.0.1"}
ModelFilesDef   == {"model"}
RuleFilesDef    == <<>>
BundledRulesDef == <<"# a comment", "ignore">>
CommentsDef     == {"# a comment"}
HarmfulDef      == <<"make", "bombs">>
=============================================================================
