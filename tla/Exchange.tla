------------------------------- MODULE Exchange ------------------------------
(***************************************************************************)
(* The data path of one request, from the client's headers and body to the *)
(* reply: guardrail-proxy/src/handler.rs with forward.rs, auth.rs and the  *)
(* body limit of error.rs.  The stages and the redactor are those that     *)
(* Settings builds from a file, and what they say is Screening's.  Proxy   *)
(* is about the same handler with many requests while the configuration    *)
(* changes; here it stays, and the data is what matters.                   *)
(*                                                                         *)
(* A header is its name, in lowercase, and its value, a sequence of its    *)
(* comma-separated items; "#bytes" is a value that is not visible ASCII.   *)
(* A media type is the value's first item.  An event stream's text is      *)
(* SseRedactor's subject, so its body is kept here as it is.               *)
(***************************************************************************)
EXTENDS Settings, ApiBody, Screening

CONSTANTS
  Clients, \* [method, path, headers, size, broken, body]: requests to send
  Answers  \* [status, headers, body]: what the upstream may answer

VARIABLES
  version,    \* the file the configuration was loaded from
  client,     \* the request as it arrived
  at,         \* where it is
  request,    \* GuardrailRequest.messages, as the stages leave it
  pointers,   \* ScannedBody.pointers
  stage,      \* the next stage to run
  found,      \* redaction_entities, with "redacted" once a stage redacted
  failedOpen, \* failed_open_stages
  sent,       \* what went upstream, <<>> before
  answer,     \* what the upstream answered, <<>> before
  skipped,    \* the label redaction_skipped counted, "none" without
  reply,      \* what the client gets, <<>> before
  audit       \* the records that were emitted

vars == <<version, client, at, request, pointers, stage, found, failedOpen, sent, answer,
          skipped, reply, audit>>
runVars == <<request, pointers, stage, found, failedOpen, audit>>

Places == {"routing", "admitting", "parsing", "screening", "writing", "forwarding",
           "answered", "done"}

-----------------------------------------------------------------------------
(* What the files come to, once each.                                      *)
Usable     == {v \in DOMAIN File : ~LoadFails(v) /\ ~BuildFails(v)}
ConfigOf   == [v \in Usable |-> Loaded(v)]
StagesOf   == [v \in Usable |-> BuiltPipeline(Loaded(v))]
RedactorOf == [v \in Usable |-> ResponseRedactor(Loaded(v))]

\* What a header has: a name and a value that is not empty.
AreHeaders(headers) ==
  /\ headers \in Seq(ToSet(headers))
  /\ \A h \in ToSet(headers) :
       h.name # "#bytes" /\ h.value \in Seq(ToSet(h.value)) /\ h.value # <<>>

\* What a body has: finitely many leaves, each at a pointer and a sequence.
IsDocument(body) ==
  /\ IsFiniteSet(DOMAIN body)
  /\ \A p \in DOMAIN body : p \in Seq(ToSet(p)) /\ body[p] \in Seq(ToSet(body[p]))

ASSUME ExchangeAssumption ==
  /\ Usable # {} /\ Clients # {} /\ Answers # {}
  /\ Entities \subseteq DOMAIN PiiWords \* each entity has its pattern
  /\ \A c \in Clients : AreHeaders(c.headers) /\ IsDocument(c.body)
  /\ \A a \in Answers : AreHeaders(a.headers) /\ IsDocument(a.body)

config   == ConfigOf[version]
stages   == StagesOf[version]
redactor == RedactorOf[version]

-----------------------------------------------------------------------------
(* Headers: forward.rs                                                     *)
HopByHop == {"connection", "keep-alive", "proxy-authenticate", "proxy-authorization",
             "proxy-connection", "te", "trailer", "transfer-encoding", "upgrade"}
StrippedRequest  == {"host", "content-length", "accept-encoding", "x-guardrail-key"}
StrippedResponse == {"content-length"}

Visible(header) == header.value # <<"#bytes">>

\* `HeaderMap::get`: the value of the first header of a name, <<>> without.
First(headers, name) ==
  LET named == Only(headers, {h \in ToSet(headers) : h.name = name})
  IN  IF named = <<>> THEN <<>> ELSE named[1].value

\* A key is one item that can be read.
PresentedKey(headers) ==
  LET value == First(headers, "x-guardrail-key")
  IN  IF Len(value) = 1 /\ value # <<"#bytes">> THEN value[1] ELSE "none"

\* The names that `Connection` headers list.
ConnectionListed(headers) ==
  UNION {ToSet(h.value) : h \in {g \in ToSet(headers) : g.name = "connection" /\ Visible(g)}}

\* Mutant of ForwardableHeaders: what `Connection` lists is passed on.
ForwardableFixed(headers, extra) ==
  Only(headers, {h \in ToSet(headers) : h.name \notin HopByHop \cup extra /\ Visible(h)})

ForwardableHeaders(headers, extra) ==
  LET stripped == HopByHop \cup extra \cup ConnectionListed(headers)
  IN  Only(headers, {h \in ToSet(headers) : h.name \notin stripped /\ Visible(h)})

-----------------------------------------------------------------------------
(* Routes                                                                  *)
ScannedApi(path) ==
  CASE path = <<"v1", "chat", "completions">> -> "chat"
    [] path = <<"v1", "messages">>            -> "messages"
    [] path = <<"v1", "responses">>           -> "responses"
    [] /\ Len(path) = 5 /\ SubSeq(path, 1, 2) = <<"openai", "deployments">> /\ path[3] # ""
       /\ SubSeq(path, 4, 5) = <<"chat", "completions">> -> "chat"
    [] OTHER -> "none"

RouteOf(method, path, passthrough) ==
  IF method = "GET" /\ path \in {<<"healthz">>, <<"metrics">>} THEN "local"
  ELSE IF method = "POST" /\ ScannedApi(path) # "none" THEN "scanned"
  ELSE IF \E i \in DOMAIN passthrough : RouteParses(passthrough[i])
                                        /\ RouteMatches(passthrough[i], method, path)
    THEN "passthrough"
  ELSE IF ScannedApi(path) # "none" THEN "methodNotAllowed" ELSE "notFound"

api   == ScannedApi(client.path)
route == RouteOf(client.method, client.path, config.server.passthrough_paths)

\* An error response, with its code.
Refuse(status, code) ==
  /\ reply' = [status |-> status, code |-> code, headers |-> <<>>, body |-> <<>>]
  /\ at' = "done"

-----------------------------------------------------------------------------
(* `handle_request`: what is not admitted, scanned or passed through.      *)
Arrive ==
  /\ at = "routing"
  /\ CASE route = "local"            -> Refuse(200, "ok")
       [] route = "methodNotAllowed" -> Refuse(405, "method_not_allowed")
       [] route = "notFound"         -> Refuse(404, "not_found")
       [] OTHER                      -> at' = "admitting" /\ UNCHANGED reply
  /\ UNCHANGED <<version, client, runVars, sent, answer, skipped>>

\* `admit`: the key, then the body with its limit.
Admit ==
  /\ at = "admitting"
  /\ IF ~Authorized(config.auth, client.path, PresentedKey(client.headers))
       THEN Refuse(401, "unauthorized")
     ELSE IF client.size > config.server.max_body_size_bytes
       THEN Refuse(413, "payload_too_large")
     ELSE IF client.broken THEN Refuse(400, "bad_request")
     ELSE /\ at' = IF route = "passthrough" THEN "forwarding" ELSE "parsing"
          /\ UNCHANGED reply
  /\ UNCHANGED <<version, client, runVars, sent, answer, skipped>>

\* Whether a stream would have to be refused: by `streaming_responses`, or
\* because the events of /v1/responses are not redacted.
StreamRefused ==
  /\ IsWord(client.body, <<"stream">>, "#true")
  /\ redactor # <<>>
  /\ config.stages.pii_redactor.streaming_responses = "reject" \/ api = "responses"

Parse ==
  /\ at = "parsing"
  /\ IF ParseFails(client.body, api, Len(client.path) = 5) THEN
       Refuse(400, "bad_request") /\ UNCHANGED <<request, pointers>>
     ELSE IF StreamRefused THEN
       Refuse(400, "streaming_not_allowed") /\ UNCHANGED <<request, pointers>>
     ELSE LET extracted == ParseApiBody(client.body, api) IN
       /\ request'  = [i \in DOMAIN extracted |-> Finish(extracted[i])]
       /\ pointers' = [i \in DOMAIN extracted |-> Pointers(extracted[i])]
       /\ at' = "screening"
       /\ UNCHANGED reply
  /\ UNCHANGED <<version, client, stage, found, failedOpen, sent, answer, skipped, audit>>

\* AuditRecord::from_decision and `emit`.
Emit(decision, code) ==
  audit' = Append(audit,
    [decision |-> decision, code |-> code, entities |-> found \ {"redacted"},
     failedOpen |-> failedOpen, messages |-> Len(request)])

BlockWith(code) ==
  Refuse(403, code) /\ Emit("block", code) /\ UNCHANGED <<request, found, stage>>

Continue == stage' = stage + 1 /\ UNCHANGED <<at, reply, audit>>

\* One turn of the loop of `run_with_events`.
RunStage ==
  /\ at = "screening" /\ stage <= Len(stages)
  /\ LET said == Evaluate(stages[stage], request) IN
     CASE said.kind = "allow"  -> Continue /\ UNCHANGED <<request, found>>
       [] said.kind = "block"  -> BlockWith(said.code)
       [] said.kind = "redact" ->
            /\ request' = said.mutated
            /\ found' = found \cup said.entities \cup {"redacted"}
            /\ Continue
       [] said.kind = "tooLong" ->
            IF stages[stage].onOversize = "block" THEN BlockWith("input_too_long_for_classifier")
            ELSE Continue /\ UNCHANGED <<request, found>>
  /\ UNCHANGED <<version, client, pointers, failedOpen, sent, answer, skipped>>

\* A model stage fails, or is timed out.
StageFails ==
  /\ at = "screening" /\ stage <= Len(stages)
  /\ stages[stage].id \in {"onnx_injection", "toxicity"}
  /\ IF stages[stage].mode = "closed"
       THEN BlockWith("stage_error") /\ UNCHANGED failedOpen
       ELSE /\ failedOpen' = Append(failedOpen, stages[stage].id)
            /\ Continue
            /\ UNCHANGED <<request, found>>
  /\ UNCHANGED <<version, client, pointers, sent, answer, skipped>>

Decide ==
  /\ at = "screening" /\ stage > Len(stages)
  /\ at' = "writing"
  /\ UNCHANGED <<version, client, runVars, sent, answer, skipped, reply>>

\* `forward_request`: the body as JSON, with a content-type of its own.
Write ==
  /\ at = "writing"
  /\ IF ApplyFails(client.body, pointers, request)
       THEN /\ Refuse(500, "guardrail_internal_error")
            /\ Emit(IF "redacted" \in found THEN "redact" ELSE "allow", "none")
            /\ UNCHANGED sent
       ELSE LET kept == Only(ForwardableHeaders(client.headers, StrippedRequest),
                             {h \in ToSet(client.headers) : h.name # "content-type"})
            IN /\ sent' = [method |-> "POST", path |-> client.path,
                           headers |-> <<[name |-> "content-type",
                                          value |-> <<"application/json">>]>> \o kept,
                           body |-> Apply(client.body, pointers, request)]
               /\ at' = "answered"
               /\ UNCHANGED <<reply, audit>>
  /\ UNCHANGED <<version, client, request, pointers, stage, found, failedOpen, answer, skipped>>

\* `forward_passthrough`
ForwardPassthrough ==
  /\ at = "forwarding"
  /\ sent' = [method |-> client.method, path |-> client.path,
              headers |-> ForwardableHeaders(client.headers, StrippedRequest),
              body |-> client.body]
  /\ at' = "answered"
  /\ UNCHANGED <<version, client, runVars, answer, skipped, reply>>

\* Once the response is made, a scanned request is recorded.
RecordForwarded ==
  IF route = "passthrough" THEN UNCHANGED audit
  ELSE Emit(IF "redacted" \in found THEN "redact" ELSE "allow", "none")

UpstreamFails ==
  /\ at = "answered"
  /\ Refuse(502, "upstream_error")
  /\ RecordForwarded
  /\ UNCHANGED <<version, client, request, pointers, stage, found, failedOpen, sent, answer,
                 skipped>>

\* `relay_upstream` and `maybe_redact_response`.
Undecoded(a) == First(a.headers, "content-encoding") \notin {<<>>, <<"identity">>}
MediaType(a, type) ==
  LET value == First(a.headers, "content-type") IN value # <<>> /\ value[1] = type

\* Mutant of Skipped: a body that cannot be parsed is not counted.
SkippedByType(a) ==
  IF redactor # <<>> /\ a.status \in 200..299
     /\ ~MediaType(a, "application/json") /\ ~MediaType(a, "text/event-stream")
  THEN "unknown_content_type" ELSE "none"

Skipped(a) ==
  CASE redactor = <<>> -> "none"
    [] redactor # <<>> /\ MediaType(a, "application/json") ->
         IF a.body = Garbled THEN "unparseable_body" ELSE "none"
    [] redactor # <<>> /\ MediaType(a, "text/event-stream") -> "none"
    [] OTHER -> IF a.status \in 200..299 THEN "unknown_content_type" ELSE "none"

\* `try_redact_response_body`
RedactResponse(body, pii) ==
  [p \in DOMAIN body |->
     IF p \in ResponsePlaces(body) THEN RedactText(pii, body[p]) ELSE body[p]]

RelayedBody(a) ==
  IF redactor # <<>> /\ MediaType(a, "application/json") /\ a.body # Garbled
  THEN RedactResponse(a.body, redactor[1])
  ELSE a.body

Relay(a) ==
  /\ at = "answered"
  /\ answer' = a
  /\ IF redactor # <<>> /\ Undecoded(a)
       THEN Refuse(502, "response_unredactable") /\ skipped' = "unknown_encoding"
       ELSE /\ reply' = [status |-> a.status, code |-> "relayed",
                         headers |-> ForwardableHeaders(a.headers, StrippedResponse),
                         body |-> RelayedBody(a)]
            /\ skipped' = Skipped(a)
            /\ at' = "done"
  /\ RecordForwarded
  /\ UNCHANGED <<version, client, request, pointers, stage, found, failedOpen, sent>>

\* `read_body`: an answer that has to be searched as a whole breaks off.
BreakOff(a) ==
  /\ at = "answered"
  /\ redactor # <<>> /\ ~Undecoded(a) /\ MediaType(a, "application/json")
  /\ answer' = a
  /\ Refuse(500, "guardrail_internal_error")
  /\ RecordForwarded
  /\ UNCHANGED <<version, client, request, pointers, stage, found, failedOpen, sent, skipped>>

-----------------------------------------------------------------------------
Init ==
  /\ version \in Usable /\ client \in Clients
  /\ at = "routing"
  /\ request = <<>> /\ pointers = <<>> /\ stage = 1 /\ found = {} /\ failedOpen = <<>>
  /\ sent = <<>> /\ answer = <<>> /\ skipped = "none" /\ reply = <<>> /\ audit = <<>>

Next ==
  \/ Arrive \/ Admit \/ Parse \/ RunStage \/ StageFails \/ Decide \/ Write
  \/ ForwardPassthrough \/ UpstreamFails
  \/ \E a \in Answers : Relay(a) \/ BreakOff(a)

Spec == Init /\ [][Next]_vars

-----------------------------------------------------------------------------
(* The properties compare what was sent with what came in, place by place, *)
(* and find the places in the tables of the modules' documentation rather  *)
(* than in the extraction: a row is a path, in which "*" is an index and a *)
(* last "**" is anything, and the types that the values on the way to it   *)
(* have to have, the first [types[i][1]] tokens being those values' paths. *)
Row(path, types) == [path |-> path, types |-> types]

\* "What is scanned", translate.rs.
OpenaiTable ==
  {Row(<<"messages", "*", "content">>, {}),
   Row(<<"messages", "*", "content", "*", "text">>, {<<4, {"text", ""}>>}),
   Row(<<"messages", "*", "content", "*", "refusal">>, {<<4, {"refusal"}>>}),
   Row(<<"messages", "*", "refusal">>, {}),
   Row(<<"messages", "*", "tool_calls", "*", "function", "arguments">>, {}),
   Row(<<"messages", "*", "function_call", "arguments">>, {})}

AnthropicTable ==
  {Row(<<"system">>, {}),
   Row(<<"system", "*", "text">>, {<<2, {"text"}>>}),
   Row(<<"messages", "*", "content">>, {}),
   Row(<<"messages", "*", "content", "*", "text">>, {<<4, {"text"}>>}),
   Row(<<"messages", "*", "content", "*", "input", "**">>, {<<4, {"tool_use"}>>}),
   Row(<<"messages", "*", "content", "*", "content">>, {<<4, {"tool_result"}>>}),
   Row(<<"messages", "*", "content", "*", "content", "*", "text">>,
       {<<4, {"tool_result"}>>, <<6, {"text"}>>}),
   Row(<<"messages", "*", "content", "*", "source", "data">>,
       {<<4, {"document"}>>, <<5, {"text"}>>})}

ResponsesTable ==
  {Row(<<"instructions">>, {}),
   Row(<<"input">>, {}),
   Row(<<"input", "*", "content">>, {<<2, {"message", ""}>>}),
   Row(<<"input", "*", "content", "*", "text">>,
       {<<2, {"message", ""}>>, <<4, {"input_text", "output_text", "text"}>>}),
   Row(<<"input", "*", "content", "*", "refusal">>,
       {<<2, {"message", ""}>>, <<4, {"refusal"}>>}),
   Row(<<"input", "*", "arguments">>, {<<2, {"function_call"}>>}),
   Row(<<"input", "*", "output">>, {<<2, {"function_call_output"}>>}),
   Row(<<"input", "*", "output", "*", "text">>, {<<2, {"function_call_output"}>>})}

\* "Supported shapes", response.rs.
ReplyTable ==
  {Row(<<"choices", "*", "message", "content">>, {}),
   Row(<<"content", "*", "text">>, {<<2, {"text"}>>}),
   Row(<<"output", "*", "content", "*", "text">>, {<<2, {"message"}>>, <<4, {"output_text"}>>})}

\* The type of what is at a path, "" if it has none.
HasType(body, path, type) ==
  IF type = "" THEN ~IsString(body, Append(path, "type"))
  ELSE IsWord(body, Append(path, "type"), type)

Fits(body, place, row) ==
  LET n == Len(row.path) IN
  /\ IF row.path[n] = "**" THEN Len(place) >= n - 1 ELSE Len(place) = n
  /\ \A i \in 1..n : CASE row.path[i] = "**" -> TRUE
                      [] row.path[i] = "*"  -> place[i] \in ToSet(Index)
                      [] OTHER              -> row.path[i] = place[i]
  /\ \A t \in row.types : \E type \in t[2] : HasType(body, SubSeq(place, 1, t[1]), type)

Listing(body, table) ==
  {p \in DOMAIN body : IsString(body, p) /\ \E row \in table : Fits(body, p, row)}

ScannedPlaces(c) ==
  Listing(c.body, [chat |-> OpenaiTable, messages |-> AnthropicTable,
                   responses |-> ResponsesTable][ScannedApi(c.path)])

ScannedOf == [c \in {d \in Clients : d.method = "POST" /\ ScannedApi(d.path) # "none"} |->
                ScannedPlaces(c)]

Forwarded == sent # <<>> /\ route = "scanned"

\* The entities of the settings that match a word.
Matching(pii, word) ==
  {e \in ToSet(pii.entities) :
     word \in PiiWords[e] /\ (e = "credit_card" /\ pii.luhn => word \notin LuhnInvalid)}

\* The first of them, in the order of the settings.
Foremost(pii, word) ==
  {e \in Matching(pii, word) :
     \E n \in DOMAIN pii.entities :
       pii.entities[n] = e /\ \A m \in 1..(n - 1) : pii.entities[m] \notin Matching(pii, word)}

\* The words that a redactor with these settings makes.
Made(pii) == UNION {{Replaced(pii, e, w) : w \in PiiWords[e]} : e \in ToSet(pii.entities)}

\* A word as it was, if nothing matches it, or with the match of an entity
\* replaced, and worked on further if another entity matches what that left.
Redacted(pii, old, new) ==
  IF Matching(pii, old) = {} THEN new = old
  ELSE \E e \in Matching(pii, old) :
         LET word == Replaced(pii, e, old)
         IN  new = word \/ (new \in Made(pii) /\ Matching(pii, word) # {})

-----------------------------------------------------------------------------
(* Nothing that a stage would have stopped or redacted goes upstream in any *)
(* of the places the documentation says are scanned: no word of a rule when *)
(* the scanner blocks, no PII when the redactor blocks or redacts, no       *)
(* keyword that the first policy rule blocks; but for words that the        *)
(* redactor made.  The extraction, the stages and the write-back have to    *)
(* agree on every place of every body.                                      *)
Stops(s, word) ==
  \/ s.id = "regex_injection" /\ s.block /\ word \in ToSet(s.rules)
  \/ s.id = "pii_redactor" /\ s.action # "log_only" /\ Matching(s, word) # {}
  \/ /\ s.id = "policy" /\ s.rules[1].enabled /\ s.rules[1].action = "block"
     /\ s.rules[1].condition.type = "ContentContains"
     /\ word \in s.rules[1].condition.keywords

\* The words that the redactor makes.
Replacements ==
  UNION {Made(stages[k]) : k \in {j \in DOMAIN stages : stages[j].id = "pii_redactor"}}

ScreenedInFull ==
  Forwarded =>
    \A p \in ScannedOf[client] : \A i \in DOMAIN sent.body[p] :
      \A k \in DOMAIN stages :
        Stops(stages[k], sent.body[p][i]) => sent.body[p][i] \in Replacements

(* What goes upstream is the client's body but for redactions, in those     *)
(* places only: what is signed, typed or unknown arrives as it was sent,    *)
(* and of a word that was changed the match of an entity was replaced, and  *)
(* then perhaps what that left.  The record says "redact" exactly if        *)
(* something matched, names for each word the first entity that matches it, *)
(* and no other but one that matches what a redaction left.  And the        *)
(* write-back never finds that the request does not line up with the body   *)
(* any more.                                                                *)
Redacting ==
  {k \in DOMAIN stages : stages[k].id = "pii_redactor" /\ stages[k].action = "redact"}

Reworded(old, new) == new = old \/ \E k \in Redacting : Redacted(stages[k], old, new)

Named(words) == UNION {Foremost(stages[k], w) : k \in Redacting, w \in words}

\* What may match what a redaction left.
Further == UNION {Matching(stages[k], w) : k \in Redacting, w \in Replacements}

RedactionsOnly ==
  LET named == Named(UNION {ToSet(client.body[p]) : p \in ScannedOf[client]})
  IN /\ Forwarded =>
          /\ DOMAIN sent.body = DOMAIN client.body
          /\ \A p \in DOMAIN client.body :
               \/ sent.body[p] = client.body[p]
               \/ /\ p \in ScannedOf[client]
                  /\ Len(sent.body[p]) = Len(client.body[p])
                  /\ \A i \in DOMAIN client.body[p] : Reworded(client.body[p][i], sent.body[p][i])
     /\ Forwarded /\ at = "done" =>
          /\ Len(audit) = 1
          /\ audit[1].decision = IF named = {} THEN "allow" ELSE "redact"
          /\ named \subseteq audit[1].entities
          /\ audit[1].entities \subseteq IF named = {} THEN {} ELSE named \cup Further
     /\ at = "done" /\ sent = <<>> => reply.code # "guardrail_internal_error"

(* With a model stage that blocks at the score that what is harmful has,    *)
(* and blocks what is too long, nothing harmful that someone in its roles   *)
(* says goes upstream unless the record says that the stage failed open:    *)
(* however the text is cut into windows, and whatever it is padded with.    *)
(* What the redactor made is left out, since it may do so later.            *)
RoleAt(c, place) ==
  LET item == SubSeq(place, 1, 2) IN
  CASE place[1] \in {"system", "instructions"} -> "system"
    [] place = <<"input">> -> "user"
    [] place[1] = "input" /\ Len(place) > 1
         /\ HasType(c.body, item, "function_call") -> "assistant"
    [] place[1] = "input" /\ Len(place) > 1
         /\ HasType(c.body, item, "function_call_output") -> "tool"
    [] OTHER -> Role[c.body[Append(item, "role")][1]]

\* A part of a text is harmful.
HarmIn(text) ==
  \E i, j \in DOMAIN text :
    /\ Words(SubSeq(text, i, j)) = Harmful
    /\ ToSet(SubSeq(text, i, j)) \cap Replacements = {}

Strict(s) ==
  /\ s.id \in {"onnx_injection", "toxicity"}
  /\ ~s.logOnly /\ s.onOversize = "block" /\ s.threshold <= Score(Harmful)

NoHarmForwarded ==
  Forwarded =>
    \A k \in DOMAIN stages :
      Strict(stages[k]) /\ ~Contains(failedOpen, stages[k].id) =>
        \A p \in ScannedOf[client] :
          HarmIn(sent.body[p]) => RoleAt(client, p) \notin stages[k].roles

(* In both directions, no header that describes one connection is passed    *)
(* on, by its name or because the sender listed it, the caller's key never  *)
(* leaves, and a body has one content type, the proxy's own if it is the    *)
(* proxy that wrote it; everything else that can be read arrives, in its    *)
(* order.                                                                   *)
Relayed(from, to, own) ==
  LET oneHop(h) == h.name \in HopByHop \/ \E g \in ToSet(from) :
                     g.name = "connection" /\ h.name \in ToSet(g.value)
      endToEnd == {"authorization", "x-request-id", "content-encoding", "content-type"} \ own
  IN /\ \A h \in ToSet(to) : oneHop(h) => h.name \in own
     /\ Only(to, {h \in ToSet(to) : h.name \in endToEnd})
        = Only(from, {h \in ToSet(from) : h.name \in endToEnd /\ ~oneHop(h) /\ Visible(h)})

HeadersClean ==
  /\ sent # <<>> =>
       /\ Relayed(client.headers, sent.headers,
                  IF route = "scanned" THEN {"content-type"} ELSE {})
       /\ \A h \in ToSet(sent.headers) :
            h.name \notin {"x-guardrail-key", "accept-encoding", "host", "content-length"}
       /\ route = "scanned" =>
            Len(Only(sent.headers, {h \in ToSet(sent.headers) : h.name = "content-type"})) = 1
  /\ reply # <<>> /\ reply.code = "relayed" =>
       Relayed(answer.headers, reply.headers, {})

(* With response redaction on, all PII in the documented fields of a JSON   *)
(* reply has been redacted, and the rest of it is the upstream's; what its  *)
(* first encoding says cannot be decoded is never passed on; and what is    *)
(* neither searched nor an event stream is passed on exactly as it came,    *)
(* and counted with its reason, unless it is an error reply of another      *)
(* type.  With redaction off, nothing is changed.                           *)
Cleaned(pii, old, new) ==
  Len(old) = Len(new) /\ \A i \in DOMAIN old : Redacted(pii, old[i], new[i])

ResponseClean ==
  reply # <<>> /\ reply.code = "relayed" =>
    LET fields == Listing(answer.body, ReplyTable)
        typed  == MediaType(answer, "application/json")
        json   == typed /\ answer.body # Garbled
        stream == MediaType(answer, "text/event-stream")
        error  == answer.status \notin 200..299
    IN /\ redactor = <<>> => reply.body = answer.body
       /\ redactor # <<>> =>
            /\ First(answer.headers, "content-encoding") \in {<<>>, <<"identity">>}
            /\ json =>
                 /\ DOMAIN reply.body = DOMAIN answer.body
                 /\ \A p \in DOMAIN answer.body \ fields : reply.body[p] = answer.body[p]
                 /\ \A p \in fields : Cleaned(redactor[1], answer.body[p], reply.body[p])
            /\ ~json /\ ~stream =>
                 reply.body = answer.body /\ (skipped # "none" \/ (error /\ ~typed))
=============================================================================
