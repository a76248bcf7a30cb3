-------------------------------- MODULE ApiBody ------------------------------
(***************************************************************************)
(* Request and response bodies: guardrail-proxy/src/translate.rs, which    *)
(* pulls the strings out of a request that the stages look at and writes   *)
(* them back, and the places of a response that response.rs redacts.       *)
(*                                                                         *)
(* A JSON document is the function from its pointers to its leaves.  A     *)
(* pointer is the sequence of its tokens: a key is one token, whatever is  *)
(* in it, which is what `escape_pointer` is for; an index is the token "0" *)
(* and so on.  A leaf is a string, a sequence of words, or one of the      *)
(* Scalars.  A message of a GuardrailRequest is its role and its parts; a  *)
(* plain text content is one part.                                         *)
(***************************************************************************)
EXTENDS Naturals, FiniteSets, TLC, Lists

Scalars == {<<"#null">>, <<"#true">>, <<"#number">>, <<"#[]">>}

\* What is not valid JSON.
Garbled == <<>> :> <<"#garbled">>

Index == <<"0", "1", "2">> \* bound on the length of an array

-----------------------------------------------------------------------------
(* serde_json::Value                                                       *)
Exists(body, at)   == \E p \in DOMAIN body : IsPrefix(at, p)
IsString(body, at) == at \in DOMAIN body /\ body[at] \notin Scalars
IsWord(body, at, word) == at \in DOMAIN body /\ body[at] = <<word>>
Item(at, n)        == Append(at, Index[n])
IsArray(body, at)  == IsWord(body, at, "#[]") \/ Exists(body, Item(at, 1))
IsNull(body, at)   == ~Exists(body, at) \/ IsWord(body, at, "#null")

\* What Piece gives for each item of an array, in their order.
Each(body, at, Piece(_)) ==
  FlattenSeq([n \in DOMAIN Index |->
                IF Exists(body, Item(at, n)) THEN Piece(Item(at, n)) ELSE <<>>])

-----------------------------------------------------------------------------
(* translate.rs: the text of a message, with the place of each piece.      *)
\* Extracted::text, for a string; anything else has no text.
TextAt(body, at) ==
  IF IsString(body, at) THEN <<[image |-> FALSE, at |-> at, text |-> body[at]]>> ELSE <<>>

Image == <<[image |-> TRUE, at |-> <<>>, text |-> <<>>]>>

\* Mutant of TextBlock: whatever its type.
AnyBlock(body, at) == TextAt(body, Append(at, "text"))

TextBlock(body, at) ==
  IF IsWord(body, Append(at, "type"), "text") THEN TextAt(body, Append(at, "text")) ELSE <<>>

\* A part without a type is a text.
OpenaiPart(body, at) ==
  LET Type(type) == IsWord(body, Append(at, "type"), type) IN
  CASE ~IsString(body, Append(at, "type")) \/ Type("text") -> TextAt(body, Append(at, "text"))
    [] Type("refusal") -> TextAt(body, Append(at, "refusal"))
    [] Type("image_url") /\ IsString(body, at \o <<"image_url", "url">>) -> Image
    [] OTHER -> <<>>

\* Mutant of PointerTo: keys are not escaped, so that "/" splits them.
PointerUnescaped(at) ==
  FlattenSeq([i \in DOMAIN at |-> IF at[i] = "a/b" THEN <<"a", "b">> ELSE <<at[i]>>])

\* `escape_pointer`: the tokens of the pointer to a place are its keys.
PointerTo(at) == at

\* Every string inside a tool's input, in the order of the map.
Strings(body, at) ==
  LET inside == SetToSeq({p \in DOMAIN body : IsPrefix(at, p) /\ IsString(body, p)})
  IN  [i \in DOMAIN inside |->
         [image |-> FALSE, at |-> PointerTo(inside[i]), text |-> body[inside[i]]]]

AnthropicBlock(body, at) ==
  LET Type(type) == IsWord(body, Append(at, "type"), type) IN
  CASE Type("text")     -> TextAt(body, Append(at, "text"))
    [] Type("tool_use") -> Strings(body, Append(at, "input"))
    [] Type("tool_result") ->
         TextAt(body, Append(at, "content"))
         \o Each(body, Append(at, "content"), LAMBDA inner : TextBlock(body, inner))
    [] Type("document") /\ IsWord(body, at \o <<"source", "type">>, "text") ->
         TextAt(body, at \o <<"source", "data">>)
    [] OTHER -> <<>>

Role == [system |-> "system", developer |-> "system", user |-> "user",
         assistant |-> "assistant", tool |-> "tool", function |-> "tool"]

RoleKnown(body, at) == \E name \in DOMAIN Role : IsWord(body, Append(at, "role"), name)
RoleOf(body, at)    == Role[body[Append(at, "role")][1]]

\* The content of a message: missing, null, a string or an array of parts.
ContentFits(body, at) ==
  LET content == Append(at, "content")
  IN  IsNull(body, content) \/ IsString(body, content) \/ IsArray(body, content)

Content(body, at, Part(_)) ==
  TextAt(body, Append(at, "content")) \o Each(body, Append(at, "content"), Part)

Extracted(role, segments) == <<[role |-> role, segments |-> segments]>>

\* Mutant of ExtractMessage: without the arguments of tool calls.
ExtractContentOnly(body, at, api) ==
  Extracted(RoleOf(body, at),
    IF api = "messages" THEN Content(body, at, LAMBDA part : AnthropicBlock(body, part))
    ELSE Content(body, at, LAMBDA part : OpenaiPart(body, part))
         \o TextAt(body, Append(at, "refusal")))

ExtractMessage(body, at, api) ==
  Extracted(RoleOf(body, at),
    IF api = "messages" THEN Content(body, at, LAMBDA part : AnthropicBlock(body, part))
    ELSE Content(body, at, LAMBDA part : OpenaiPart(body, part))
         \o TextAt(body, Append(at, "refusal"))
         \o Each(body, Append(at, "tool_calls"),
                 LAMBDA call : TextAt(body, call \o <<"function", "arguments">>))
         \o TextAt(body, at \o <<"function_call", "arguments">>))

\* The top-level `system` of an Anthropic body: a message if it has any text.
AnthropicSystem(body) ==
  LET segments == TextAt(body, <<"system">>)
                  \o Each(body, <<"system">>, LAMBDA block : TextBlock(body, block))
  IN  IF segments = <<>> THEN <<>> ELSE Extracted("system", segments)

ResponsesPart(body, at) ==
  LET Type(types) == \E type \in types : IsWord(body, Append(at, "type"), type) IN
  CASE Type({"input_text", "output_text", "text"}) -> TextAt(body, Append(at, "text"))
    [] Type({"refusal"}) -> TextAt(body, Append(at, "refusal"))
    [] Type({"input_image"}) /\ IsString(body, Append(at, "image_url")) -> Image
    [] OTHER -> <<>>

\* One `input` item of a Responses body; other types have no text.
IsMessage(body, at) ==
  ~IsString(body, Append(at, "type")) \/ IsWord(body, Append(at, "type"), "message")

ResponsesItem(body, at) ==
  LET Type(type) == IsWord(body, Append(at, "type"), type) IN
  CASE IsMessage(body, at) ->
         Extracted(RoleOf(body, at),
                   Content(body, at, LAMBDA part : ResponsesPart(body, part)))
    [] Type("function_call") -> Extracted("assistant", TextAt(body, Append(at, "arguments")))
    [] Type("function_call_output") ->
         Extracted("tool", TextAt(body, Append(at, "output"))
           \o Each(body, Append(at, "output"), LAMBDA part : TextAt(body, Append(part, "text"))))
    [] OTHER -> <<>>

ExtractResponses(body) ==
  LET system == TextAt(body, <<"instructions">>) IN
  (IF system = <<>> THEN <<>> ELSE Extracted("system", system))
  \o (IF IsString(body, <<"input">>) THEN Extracted("user", TextAt(body, <<"input">>)) ELSE <<>>)
  \o Each(body, <<"input">>, LAMBDA item : ResponsesItem(body, item))

ExtractChat(body, api) ==
  (IF api = "messages" THEN AnthropicSystem(body) ELSE <<>>)
  \o Each(body, <<"messages">>, LAMBDA message : ExtractMessage(body, message, api))

\* `parse_api_body` answers with an error: no JSON, no model (unless the path
\* names it), messages of another shape, a role that is not known.
ParseFails(body, api, modelInPath) ==
  LET items == IF api = "responses" THEN <<"input">> ELSE <<"messages">>
      at == {Item(items, n) : n \in {m \in DOMAIN Index : Exists(body, Item(items, m))}}
  IN \/ body = Garbled
     \/ /\ api # "responses"
        /\ \/ ~IsString(body, <<"model">>) /\ ~modelInPath
           \/ ~IsArray(body, <<"messages">>)
           \/ \E m \in at : ~RoleKnown(body, m) \/ ~ContentFits(body, m)
     \/ /\ api = "messages"
        /\ ~(IsNull(body, <<"system">>) \/ IsString(body, <<"system">>)
             \/ IsArray(body, <<"system">>))
     \/ /\ api = "responses"
        /\ \/ ~(IsNull(body, items) \/ IsString(body, items) \/ IsArray(body, items))
           \/ \E m \in at : IsMessage(body, m) /\ ~RoleKnown(body, m)

ParseApiBody(body, api) ==
  IF api = "responses" THEN ExtractResponses(body) ELSE ExtractChat(body, api)

\* Extracted::finish: a message without text has an empty one.
Finish(message) ==
  [role  |-> message.role,
   parts |-> IF message.segments = <<>> THEN <<[image |-> FALSE, text |-> <<>>]>>
             ELSE [i \in DOMAIN message.segments |->
                     [image |-> message.segments[i].image, text |-> message.segments[i].text]]]

\* ScannedBody.pointers
Pointers(message) ==
  LET texts == Only(message.segments, {s \in ToSet(message.segments) : ~s.image})
  IN  [i \in DOMAIN texts |-> texts[i].at]

-----------------------------------------------------------------------------
(* ScannedBody::apply                                                      *)
Texts(message) ==
  LET texts == Only(message.parts, {p \in ToSet(message.parts) : ~p.image})
  IN  [i \in DOMAIN texts |-> texts[i].text]

\* The request no longer lines up with the body.
ApplyFails(body, pointers, request) ==
  \/ Len(request) # Len(pointers)
  \/ \E i \in DOMAIN request :
       \/ /\ Len(Texts(request[i])) # Len(pointers[i])
          /\ ~(pointers[i] = <<>> /\ ToSet(Texts(request[i])) \subseteq {<<>>})
       \/ ~(ToSet(pointers[i]) \subseteq DOMAIN body)

\* Mutant of Apply: only the first text of a message is written back.
ApplyFirst(body, pointers, request) ==
  [p \in DOMAIN body |->
     LET from == {i \in DOMAIN pointers : pointers[i] # <<>> /\ pointers[i][1] = p}
     IN  IF from = {} THEN body[p] ELSE Texts(request[CHOOSE i \in from : TRUE])[1]]

Apply(body, pointers, request) ==
  [p \in DOMAIN body |->
     LET from == {w \in UNION {{i} \X DOMAIN pointers[i] : i \in DOMAIN pointers} :
                    pointers[w[1]][w[2]] = p}
     IN  IF from = {} THEN body[p]
         ELSE LET w == CHOOSE w \in from : TRUE IN Texts(request[w[1]])[w[2]]]

-----------------------------------------------------------------------------
(* response.rs: the places of a response that are searched, whatever the   *)
(* request was for: choices[].message.content, content[] text blocks, and  *)
(* output[] messages' output_text parts.                                   *)
\* Mutant of ResponsePlaces: the first choice only.
FirstChoice(body) == {p \in DOMAIN body : p = <<"choices", "0", "message", "content">>}

ResponsePlaces(body) ==
  {p \in DOMAIN body :
     /\ IsString(body, p)
     /\ \/ /\ Len(p) = 4 /\ p[1] = "choices" /\ p[3] = "message" /\ p[4] = "content"
           /\ p[2] \in ToSet(Index)
        \/ /\ Len(p) = 3 /\ p[1] = "content" /\ p[3] = "text"
           /\ p[2] \in ToSet(Index)
           /\ IsWord(body, <<p[1], p[2], "type">>, "text")
        \/ /\ Len(p) = 5 /\ p[1] = "output" /\ p[3] = "content" /\ p[5] = "text"
           /\ {p[2], p[4]} \subseteq ToSet(Index)
           /\ IsWord(body, <<p[1], p[2], "type">>, "message")
           /\ IsWord(body, <<p[1], p[2], p[3], p[4], "type">>, "output_text")}
=============================================================================
