---------------------------- MODULE Exchange_proofs ---------------------------
(***************************************************************************)
(* Proofs about Exchange.                                                  *)
(***************************************************************************)
EXTENDS Exchange, SequenceLemmas, FiniteSetTheorems

-----------------------------------------------------------------------------
(* Headers                                                                 *)
\* What a list of headers has that is not said of its one connection.
OneHop(from, h) ==
  h.name \in HopByHop \/ \E g \in ToSet(from) : g.name = "connection" /\ h.name \in ToSet(g.value)

(* What is stripped as listed is what some Connection header lists: one    *)
(* that cannot be read lists nothing.                                      *)
LEMMA ListedMeansOneHop ==
  ASSUME NEW from, NEW h, h.name # "#bytes"
  PROVE  h.name \in HopByHop \cup ConnectionListed(from) <=> OneHop(from, h)
<1>1. ASSUME NEW g \in ToSet(from), ~Visible(g) PROVE h.name \notin ToSet(g.value)
  <2>1. ToSet(<<"#bytes">>) = {"#bytes"}  BY DEF ToSet
  <2> QED  BY <1>1, <2>1 DEF Visible
<1> QED  BY <1>1, Zenon DEF ConnectionListed, OneHop

(* A list that is forwarded: nothing about one hop, and the rest in order.  *)
LEMMA ForwardableRelayed ==
  ASSUME NEW from, AreHeaders(from), NEW extra,
         extra \cap {"authorization", "x-request-id", "content-encoding", "content-type"} = {}
  PROVE  /\ ForwardableHeaders(from, extra) \in Seq(ToSet(from))
         /\ \A h \in ToSet(ForwardableHeaders(from, extra)) : h.name \notin extra
         /\ Relayed(from, ForwardableHeaders(from, extra), {})
<1> DEFINE stripped == HopByHop \cup extra \cup ConnectionListed(from)
           wanted == {h \in ToSet(from) : h.name \notin stripped /\ Visible(h)}
           to == Only(from, wanted)
           names == {"authorization", "x-request-id", "content-encoding", "content-type"} \ {}
           kept == {h \in ToSet(to) : h.name \in names}
<1>1. ForwardableHeaders(from, extra) = to  BY DEF ForwardableHeaders
<1>2. from \in Seq(ToSet(from)) /\ \A h \in ToSet(from) : h.name # "#bytes"  BY DEF AreHeaders
<1> HIDE DEF wanted
<1>4. to \in Seq(ToSet(from))  BY <1>2, OnlyType
<1>5. ToSet(to) = ToSet(from) \cap wanted  BY <1>2, OnlyHolds
<1>6. \A h \in ToSet(to) : h.name \notin extra /\ ~OneHop(from, h)
  BY <1>2, <1>5, ListedMeansOneHop DEF wanted
<1>7. Only(to, kept) = Only(from, {h \in ToSet(from) : h.name \in names /\ ~OneHop(from, h) /\ Visible(h)})
  <2> HIDE DEF kept
  <2>1. Only(to, kept) = Only(from, wanted \cap kept)  BY <1>2, OnlyTwice
  <2>2. \A h \in ToSet(from) :
          h \in wanted \cap kept <=> h.name \in names /\ ~OneHop(from, h) /\ Visible(h)
    BY <1>2, <1>5, ListedMeansOneHop DEF wanted, kept
  <2> HIDE DEF to, names
  <2> DEFINE v == wanted \cap kept
             w == {h \in ToSet(from) : h.name \in names /\ ~OneHop(from, h) /\ Visible(h)}
  <2>3. \A h \in ToSet(from) : h \in v <=> h \in w  BY <2>2
  <2> HIDE DEF v, w
  <2>4. Only(from, v) = Only(from, w)  BY <2>3, OnlySame
  <2> QED  BY <2>1, <2>4 DEF v, w
<1>8. Relayed(from, to, {})
  <2> HIDE DEF to
  <2> QED  BY <1>6, <1>7, Zenon DEF Relayed, OneHop, kept, names
<1> QED  BY <1>1, <1>4, <1>6, <1>8

(* What is forwarded with a content type of its own.                       *)
LEMMA WrittenRelayed ==
  ASSUME NEW from, AreHeaders(from)
  PROVE  LET own == [name |-> "content-type", value |-> <<"application/json">>]
             kept == Only(ForwardableHeaders(from, StrippedRequest),
                          {h \in ToSet(from) : h.name # "content-type"})
             to == <<own>> \o kept
         IN  /\ Relayed(from, to, {"content-type"})
             /\ \A h \in ToSet(to) : h.name \notin StrippedRequest
             /\ Only(to, {h \in ToSet(to) : h.name = "content-type"}) = <<own>>
<1> DEFINE own == [name |-> "content-type", value |-> <<"application/json">>]
           all == ForwardableHeaders(from, StrippedRequest)
           kept == Only(all, {h \in ToSet(from) : h.name # "content-type"})
           to == <<own>> \o kept
           base == {"authorization", "x-request-id", "content-encoding", "content-type"}
           names == base \ {"content-type"}
           wanted == {h \in ToSet(to) : h.name \in names}
           before == {h \in ToSet(all) : h.name \in base \ {}}
<1> DEFINE HeaderType == ToSet(from) \cup {own}
<1>1. /\ from \in Seq(ToSet(from)) /\ from \in Seq(HeaderType)
      /\ \A h \in ToSet(from) : h.name # "#bytes"
  <2>1. ToSet(from) \subseteq HeaderType  OBVIOUS
  <2> QED  BY <2>1, SeqMonotonic DEF AreHeaders
<1>2. /\ all \in Seq(ToSet(from)) /\ all \in Seq(HeaderType)
      /\ \A h \in ToSet(all) : h.name \notin StrippedRequest
      /\ Relayed(from, all, {})
  <2>1. StrippedRequest \cap base = {}  BY DEF StrippedRequest
  <2>2. ToSet(from) \subseteq HeaderType  OBVIOUS
  <2> QED  BY <2>1, <2>2, ForwardableRelayed, SeqMonotonic
<1>3. /\ \A h \in ToSet(all) : ~OneHop(from, h)
      /\ Only(all, before)
         = Only(from, {h \in ToSet(from) : h.name \in base \ {} /\ ~OneHop(from, h) /\ Visible(h)})
  BY <1>2, Zenon DEF Relayed, OneHop
<1>4. own \in HeaderType /\ own.name = "content-type"  OBVIOUS
<1> HIDE DEF own, all, HeaderType
<1> DEFINE stripped == HopByHop \cup StrippedRequest \cup ConnectionListed(from)
           passed == {h \in ToSet(from) : h.name \notin stripped /\ Visible(h)}
<1>5. all = Only(from, passed) /\ ToSet(all) = passed
  <2>1. all = Only(from, passed)  BY DEF all, ForwardableHeaders
  <2> HIDE DEF passed
  <2>2. ToSet(all) = ToSet(from) \cap passed  BY <1>1, <2>1, OnlyHolds
  <2> QED  BY <2>1, <2>2 DEF passed
<1> DEFINE other == {h \in ToSet(from) : h.name # "content-type"}
<1>6. kept \in Seq(HeaderType) /\ ToSet(kept) = {h \in ToSet(all) : h.name # "content-type"}
  <2> HIDE DEF other
  <2>1. Only(all, other) \in Seq(HeaderType) /\ ToSet(Only(all, other)) = ToSet(all) \cap other
    BY <1>2, OnlyType, OnlyHolds
  <2> QED  BY <2>1, <1>5 DEF other
<1> DEFINE one == <<own>>
<1>7. one \in Seq(HeaderType) /\ ToSet(one) = {own}
  BY <1>4 DEF ToSet
<1>one. to = one \o kept  OBVIOUS
<1>8. to \in Seq(HeaderType) /\ ToSet(to) = {own} \cup ToSet(kept)
  <2> HIDE DEF kept, one
  <2>1. one \o kept \in Seq(HeaderType) /\ ToSet(one \o kept) = {own} \cup ToSet(kept)
    BY <1>6, <1>7, ConcatHolds
  <2> HIDE DEF to
  <2> QED  BY <2>1, <1>one
<1>9. \A h \in ToSet(to) : OneHop(from, h) => h.name \in {"content-type"}
  BY <1>3, <1>6, <1>8, <1>4
<1>10. \A h \in ToSet(to) : h.name \notin StrippedRequest
  <2>1. "content-type" \notin StrippedRequest  BY DEF StrippedRequest
  <2> QED  BY <1>2, <1>4, <1>6, <1>8, <2>1
<1>11. ASSUME NEW v
       PROVE  /\ Only(to, v) = Only(<<own>>, v) \o Only(all, other \cap v)
              /\ Only(all, other \cap v) \in Seq(HeaderType)
  <2> HIDE DEF other
  <2>1. Only(to, v) = Only(<<own>>, v) \o Only(kept, v)
    <3> HIDE DEF kept, one
    <3>1. Only(one \o kept, v) = Only(one, v) \o Only(kept, v)  BY <1>6, <1>7, OnlyConcat
    <3> HIDE DEF to
    <3>2. Only(to, v) = Only(one, v) \o Only(kept, v)  BY <3>1, <1>one
    <3> QED  BY <3>2 DEF one
  <2>2. Only(kept, v) = Only(all, other \cap v)
    <3> HIDE DEF base
    <3>1. Only(Only(all, other), v) = Only(all, other \cap v)  BY <1>2, OnlyTwice
    <3> QED  BY <3>1 DEF other
  <2>3. Only(all, other \cap v) \in Seq(HeaderType)  BY <1>2, OnlyType
  <2> QED  BY <2>1, <2>2, <2>3
<1>12. Only(to, wanted)
       = Only(from, {h \in ToSet(from) : h.name \in names /\ ~OneHop(from, h) /\ Visible(h)})
  <2> DEFINE last == {h \in ToSet(from) : h.name \in names /\ ~OneHop(from, h) /\ Visible(h)}
             rest == other \cap wanted
  <2>1. Only(<<own>>, wanted) = <<>>
    <3>1. own \notin wanted  BY <1>4
    <3> HIDE DEF wanted
    <3> QED  BY <1>4, <3>1, OnlyOne
  <2>2. Only(to, wanted) = <<>> \o Only(all, rest) /\ Only(all, rest) \in Seq(HeaderType)
    <3> HIDE DEF to, wanted, other
    <3> QED  BY <1>11, <2>1
  <2>3. Only(to, wanted) = Only(all, rest)  BY <2>2, ConcatEmptySeq
  <2>4. \A h \in ToSet(from) : h \in passed \cap rest <=> h \in last
    <3> SUFFICES ASSUME NEW h \in ToSet(from) PROVE h \in passed \cap rest <=> h \in last
      OBVIOUS
    <3>1. h.name # "#bytes"  BY <1>1
    <3>2. h.name \in HopByHop \cup ConnectionListed(from) <=> OneHop(from, h)
      BY <3>1, ListedMeansOneHop
    <3>3. names \cap StrippedRequest = {}  BY DEF StrippedRequest
    <3>4. h \in rest <=> h.name # "content-type" /\ h \in ToSet(to) /\ h.name \in names
      OBVIOUS
    <3>5. h \in passed <=> ~OneHop(from, h) /\ h.name \notin StrippedRequest /\ Visible(h)
      BY <3>2
    <3>6. h \in last <=> h.name \in names /\ ~OneHop(from, h) /\ Visible(h)  OBVIOUS
    <3>7. h \in passed /\ h.name # "content-type" => h \in ToSet(to)  BY <1>5, <1>6, <1>8
    <3> HIDE DEF rest, last, passed, to
    <3> QED  BY <3>3, <3>4, <3>5, <3>6, <3>7
  <2>5. Only(all, rest) = Only(from, passed \cap rest)
    <3> HIDE DEF passed, rest
    <3> QED  BY <1>1, <1>5, OnlyTwice
  <2>6. Only(from, passed \cap rest) = Only(from, last)
    <3> DEFINE v == passed \cap rest
    <3>1. \A h \in ToSet(from) : h \in v <=> h \in last  BY <2>4
    <3> HIDE DEF v, last
    <3>2. Only(from, v) = Only(from, last)  BY <3>1, OnlySame
    <3> QED  BY <3>2 DEF v
  <2> QED  BY <2>3, <2>5, <2>6
<1>13. Only(to, {h \in ToSet(to) : h.name = "content-type"}) = <<own>>
  <2> DEFINE v == {h \in ToSet(to) : h.name = "content-type"}
             none == other \cap v
  <2>1. own \in v  BY <1>4, <1>8
  <2>2. \A h \in ToSet(all) : h \in none <=> h \in {}  OBVIOUS
  <2>3. Only(to, v) = Only(<<own>>, v) \o Only(all, none)
    <3> HIDE DEF to, v, other
    <3> QED  BY <1>11
  <2> HIDE DEF to, v, none
  <2>4. Only(<<own>>, v) = <<own>>  BY <1>4, <2>1, OnlyOne
  <2>5. Only(all, none) = Only(all, {})  BY <2>2, OnlySame
  <2>6. ToSet(Only(all, {})) = ToSet(all) \cap {} /\ Only(all, {}) \in Seq(HeaderType)
    BY <1>2, OnlyHolds, OnlyType
  <2>7. Only(all, {}) = <<>>
    <3> DEFINE o == Only(all, {})
    <3>1. o \in Seq(HeaderType) /\ ToSet(o) = {}  BY <2>6
    <3> HIDE DEF o
    <3>2. o = <<>>
      <4>1. Len(o) \in Nat /\ DOMAIN o = 1..Len(o)  BY <3>1, LenProperties
      <4>2. 1 \notin DOMAIN o  BY <3>1 DEF ToSet
      <4> QED  BY <3>1, <4>1, <4>2, EmptySeq
    <3> QED  BY <3>2 DEF o
  <2> QED  BY <1>7, <2>3, <2>4, <2>5, <2>7, ConcatEmptySeq DEF v
<1>14. Relayed(from, to, {"content-type"})
  <2> HIDE DEF to
  <2> QED  BY <1>9, <1>12, Zenon DEF Relayed, OneHop, wanted, names, base
<1> QED
  <2> HIDE DEF to
  <2> QED  BY <1>10, <1>13, <1>14 DEF to, kept, own, all

-----------------------------------------------------------------------------
(* Where a request is, by its route, and what it has not been given yet.    *)
Routed ==
  /\ version \in Usable /\ client \in Clients
  /\ at \in Places
  /\ at = "admitting" => route \in {"scanned", "passthrough"}
  /\ at \in {"parsing", "screening", "writing"} => route = "scanned"
  /\ at = "forwarding" => route = "passthrough"
  /\ at \notin {"answered", "done"} => sent = <<>>
  /\ at # "done" => reply = <<>>

(* What the client and the configuration are is settled at the start.       *)
LEMMA SettledRoute ==
  ASSUME Next
  PROVE  version' = version /\ client' = client /\ route' = route /\ api' = api
<1>1. version' = version /\ client' = client
  BY DEF Next, Arrive, Admit, Parse, RunStage, StageFails, Decide, Write, ForwardPassthrough,
         UpstreamFails, Relay, BreakOff
<1> QED  BY <1>1 DEF route, api, config

(* The codes that stages give: neither that of a reply that was relayed,    *)
(* nor that of an internal error.                                          *)
LEMMA CodesOfStages ==
  ASSUME NEW s, NEW r, Evaluate(s, r).kind = "block"
  PROVE  Evaluate(s, r).code \in {"prompt_injection", "pii_detected", "policy_violation",
                                  "toxicity"}
<1> DEFINE said == Evaluate(s, r)
<1>1. /\ Allow.kind # "block"
      /\ \A code : Block(code).code = code
  BY DEF Allow, Block
<1>2. EvaluateRules(s, r) \in {Allow, Block("prompt_injection")}
  BY DEF EvaluateRules
<1>3. EvaluatePii(s, r) \in {Allow, Block("pii_detected")} \/ EvaluatePii(s, r).kind = "redact"
  BY DEF EvaluatePii
<1>4. EvaluatePolicy(s, r) \in {Allow, Block("policy_violation")}
  BY DEF EvaluatePolicy
<1>5. \/ EvaluateOnnx(s, r) \in {Allow, Block("toxicity"), Block("prompt_injection")}
      \/ EvaluateOnnx(s, r).kind = "tooLong"
  BY DEF EvaluateOnnx
<1>6. \/ said = EvaluateRules(s, r) \/ said = EvaluatePii(s, r)
      \/ said = EvaluatePolicy(s, r) \/ said = EvaluateOnnx(s, r)
  BY DEF Evaluate
<1> QED  BY <1>1, <1>2, <1>3, <1>4, <1>5, <1>6

(* A stage leaves the request where it is, or ends it.                     *)
LEMMA StageLeaves ==
  ASSUME RunStage \/ StageFails
  PROVE  /\ at = "screening" /\ sent' = sent /\ pointers' = pointers
         /\ (at' = at /\ reply' = reply) \/ at' = "done"
<1>1. CASE RunStage
  <2> DEFINE said == Evaluate(stages[stage], request)
  <2>1. at = "screening" /\ sent' = sent /\ pointers' = pointers  BY <1>1 DEF RunStage
  <2>2. Continue \/ BlockWith("input_too_long_for_classifier") \/ BlockWith(said.code)
        \/ said.kind \notin {"allow", "block", "redact", "tooLong"}
    BY <1>1 DEF RunStage
  <2>3. said.kind \in {"allow", "block", "redact", "tooLong"}
    BY DEF Evaluate, EvaluateRules, EvaluatePii, EvaluatePolicy, EvaluateOnnx, Allow, Block
  <2> QED  BY <2>1, <2>2, <2>3 DEF Continue, BlockWith, Refuse
<1>2. CASE StageFails
  BY <1>2 DEF StageFails, Continue, BlockWith, Refuse
<1> QED  BY <1>1, <1>2

(* The routes lead where they should, whatever a client sends.             *)
LEMMA RoutedStep ==
  ASSUME Routed, Next
  PROVE  Routed'
<1>1. version' = version /\ client' = client /\ route' = route  BY SettledRoute
<1>2. route \in {"local", "scanned", "passthrough", "methodNotAllowed", "notFound"}
  BY DEF route, RouteOf
<1> USE <1>1 DEF Routed, Places, Refuse
<1>3. CASE Arrive  BY <1>2, <1>3 DEF Arrive
<1>4. CASE Admit  BY <1>4 DEF Admit
<1>5. CASE Parse  BY <1>5 DEF Parse
<1>6. CASE RunStage  BY <1>6, StageLeaves
<1>7. CASE StageFails  BY <1>7, StageLeaves
<1>8. CASE Decide  BY <1>8 DEF Decide
<1>9. CASE Write  BY <1>9 DEF Write
<1>10. CASE ForwardPassthrough  BY <1>10 DEF ForwardPassthrough
<1>11. CASE UpstreamFails  BY <1>11 DEF UpstreamFails
<1>12. CASE \E a \in Answers : Relay(a)  BY <1>12 DEF Relay
<1>13. CASE \E a \in Answers : BreakOff(a)  BY <1>13 DEF BreakOff
<1> QED
  BY <1>3, <1>4, <1>5, <1>6, <1>7, <1>8, <1>9, <1>10, <1>11, <1>12, <1>13 DEF Next

\* Always: a request is one of the clients, on its own route.
LEMMA RoutedAlways == Spec => []Routed
<1>1. Init => Routed  BY DEF Init, Routed, Places
<1>2. Routed /\ [Next]_vars => Routed'
  <2> SUFFICES ASSUME Routed, [Next]_vars PROVE Routed'  OBVIOUS
  <2>1. CASE Next  BY <2>1, RoutedStep
  <2>2. CASE UNCHANGED vars
    BY <2>2 DEF vars, Routed, route, config
  <2> QED  BY <2>1, <2>2
<1> QED  BY <1>1, <1>2, PTL DEF Spec

-----------------------------------------------------------------------------
(* What went upstream, and what was relayed, apart: neither changes once it *)
(* is there.                                                               *)
SentHeadersClean ==
  sent # <<>> =>
    /\ Relayed(client.headers, sent.headers, IF route = "scanned" THEN {"content-type"} ELSE {})
    /\ \A h \in ToSet(sent.headers) :
         h.name \notin {"x-guardrail-key", "accept-encoding", "host", "content-length"}
    /\ route = "scanned" =>
         Len(Only(sent.headers, {h \in ToSet(sent.headers) : h.name = "content-type"})) = 1

RelayedHeadersClean ==
  reply # <<>> /\ reply.code = "relayed" => Relayed(answer.headers, reply.headers, {})

\* A step that sends a request sends headers that are clean.
LEMMA SentHeadersStep ==
  ASSUME Routed, SentHeadersClean, Next
  PROVE  SentHeadersClean'
<1>1. version' = version /\ client' = client /\ route' = route  BY SettledRoute
<1>2. CASE sent' = sent  BY <1>1, <1>2 DEF SentHeadersClean
<1>3. CASE sent' # sent
  <2>1. AreHeaders(client.headers)  BY ExchangeAssumption DEF Routed
  <2>2. Write \/ ForwardPassthrough
    BY <1>3 DEF Next, Arrive, Admit, Parse, RunStage, StageFails, Decide, UpstreamFails, Relay, BreakOff
  <2> DEFINE from == client.headers
             own == [name |-> "content-type", value |-> <<"application/json">>]
             kept == Only(ForwardableHeaders(from, StrippedRequest),
                          {h \in ToSet(from) : h.name # "content-type"})
             to == <<own>> \o kept
  <2>3. CASE Write
    <3>1. sent'.headers = to /\ route = "scanned"
      BY <1>3, <2>3 DEF Write, Routed
    <3>2. /\ Relayed(from, to, {"content-type"})
          /\ \A h \in ToSet(to) : h.name \notin StrippedRequest
          /\ Only(to, {h \in ToSet(to) : h.name = "content-type"}) = <<own>>
      BY <2>1, WrittenRelayed
    <3>3. Len(<<own>>) = 1  OBVIOUS
    <3> HIDE DEF to, own
    <3> QED  BY <1>1, <3>1, <3>2, <3>3 DEF SentHeadersClean, StrippedRequest
  <2>4. CASE ForwardPassthrough
    <3> DEFINE all == ForwardableHeaders(from, StrippedRequest)
    <3>1. sent'.headers = all /\ route = "passthrough"
      BY <2>4 DEF ForwardPassthrough, Routed
    <3>2. StrippedRequest \cap {"authorization", "x-request-id", "content-encoding",
                                "content-type"} = {}
      BY DEF StrippedRequest
    <3>3. Relayed(from, all, {}) /\ \A h \in ToSet(all) : h.name \notin StrippedRequest
      BY <2>1, <3>2, ForwardableRelayed
    <3> HIDE DEF all
    <3> QED  BY <1>1, <3>1, <3>3 DEF SentHeadersClean, StrippedRequest
  <2> QED  BY <2>2, <2>3, <2>4
<1> QED  BY <1>2, <1>3

\* A step that relays an answer relays headers that are clean.
LEMMA RelayedHeadersStep ==
  ASSUME Routed, RelayedHeadersClean, Next
  PROVE  RelayedHeadersClean'
<1>1. ASSUME NEW status, NEW code, Refuse(status, code), code # "relayed"
      PROVE  RelayedHeadersClean'
  BY <1>1 DEF Refuse, RelayedHeadersClean
<1>2. CASE reply' = reply /\ answer' = answer  BY <1>2 DEF RelayedHeadersClean
<1>3. CASE Arrive  BY <1>1, <1>2, <1>3 DEF Arrive
<1>4. CASE Admit  BY <1>1, <1>2, <1>4 DEF Admit
<1>5. CASE Parse  BY <1>1, <1>2, <1>5 DEF Parse
<1>6. CASE RunStage
  <2> DEFINE said == Evaluate(stages[stage], request)
  <2>1. answer' = answer  BY <1>6 DEF RunStage
  <2>2. reply' = reply \/ BlockWith("input_too_long_for_classifier")
        \/ (said.kind = "block" /\ BlockWith(said.code))
        \/ said.kind \notin {"allow", "block", "redact", "tooLong"}
    BY <1>6 DEF RunStage, Continue
  <2>3. said.kind \in {"allow", "block", "redact", "tooLong"}
    BY DEF Evaluate, EvaluateRules, EvaluatePii, EvaluatePolicy, EvaluateOnnx, Allow, Block
  <2>4. said.kind = "block" => said.code # "relayed"  BY CodesOfStages
  <2> HIDE DEF said
  <2> QED  BY <1>1, <1>2, <2>1, <2>2, <2>3, <2>4 DEF BlockWith
<1>7. CASE StageFails  BY <1>1, <1>2, <1>7 DEF StageFails, Continue, BlockWith
<1>8. CASE Decide  BY <1>2, <1>8 DEF Decide
<1>9. CASE Write  BY <1>1, <1>2, <1>9 DEF Write
<1>10. CASE ForwardPassthrough  BY <1>2, <1>10 DEF ForwardPassthrough
<1>11. CASE UpstreamFails  BY <1>1, <1>11 DEF UpstreamFails
<1>12. ASSUME NEW a \in Answers, Relay(a) PROVE RelayedHeadersClean'
  <2>1. CASE redactor # <<>> /\ Undecoded(a)  BY <1>1, <1>12, <2>1 DEF Relay
  <2>2. CASE ~(redactor # <<>> /\ Undecoded(a))
    <3> DEFINE to == ForwardableHeaders(a.headers, StrippedResponse)
    <3>1. answer' = a /\ reply'.headers = to  BY <1>12, <2>2 DEF Relay
    <3>2. AreHeaders(a.headers)  BY ExchangeAssumption
    <3>3. StrippedResponse \cap {"authorization", "x-request-id", "content-encoding",
                                 "content-type"} = {}
      BY DEF StrippedResponse
    <3>4. Relayed(a.headers, to, {})  BY <3>2, <3>3, ForwardableRelayed
    <3> HIDE DEF to
    <3> QED  BY <3>1, <3>4 DEF RelayedHeadersClean
  <2> QED  BY <2>1, <2>2
<1>13. ASSUME NEW a \in Answers, BreakOff(a) PROVE RelayedHeadersClean'  BY <1>1, <1>13 DEF BreakOff
<1> QED
  BY <1>3, <1>4, <1>5, <1>6, <1>7, <1>8, <1>9, <1>10, <1>11, <1>12, <1>13 DEF Next

(* In both directions, for any headers in any order and whatever they list, *)
(* what describes one connection is not passed on, the caller's key never   *)
(* leaves, a body that the proxy wrote has the proxy's content type, and    *)
(* the rest arrives in its order.                                           *)
THEOREM ExchangeHeadersClean == Spec => []HeadersClean
<1> DEFINE IInv == Routed /\ SentHeadersClean /\ RelayedHeadersClean
<1>1. Init => IInv
  BY DEF Init, Routed, Places, SentHeadersClean, RelayedHeadersClean
<1>2. IInv /\ [Next]_vars => IInv'
  <2>1. CASE Next  BY <2>1, RoutedStep, SentHeadersStep, RelayedHeadersStep
  <2>2. CASE UNCHANGED vars
    BY <2>2 DEF vars, Routed, SentHeadersClean, RelayedHeadersClean, route, config
  <2> QED  BY <2>1, <2>2
<1>3. IInv => HeadersClean
  BY DEF SentHeadersClean, RelayedHeadersClean, HeadersClean
<1> QED  BY <1>1, <1>2, <1>3, PTL DEF Spec

-----------------------------------------------------------------------------
(* Pointers: a place, and the places on the way to it.                     *)
Upto(p, n) == SubSeq(p, 1, n)

(* The way to a place, one token at a time.                                *)
LEMMA UptoNext ==
  ASSUME NEW T, NEW p \in Seq(T), NEW n \in Nat, n < Len(p)
  PROVE  /\ Upto(p, n) \in Seq(T) /\ Len(Upto(p, n)) = n
         /\ Append(Upto(p, n), p[n+1]) = Upto(p, n + 1)
<1>1. Len(p) \in Nat /\ DOMAIN p = 1..Len(p) /\ \A k \in 1..Len(p) : p[k] \in T
  BY LenProperties, ElementOfSeq
<1>2. ASSUME NEW m \in Nat, m <= Len(p)
      PROVE  Upto(p, m) \in Seq(T) /\ Len(Upto(p, m)) = m /\ \A k \in 1..m : Upto(p, m)[k] = p[k]
  <2>1. \A k \in 1..m : k \in 1..Len(p)  BY <1>1, <1>2
  <2>2. 1 \in Int /\ m \in Int /\ \A k \in 1..m : p[k] \in T  BY <1>1, <2>1
  <2>3. /\ SubSeq(p, 1, m) \in Seq(T)
        /\ Len(SubSeq(p, 1, m)) = IF 1 <= m THEN m-1+1 ELSE 0
        /\ \A k \in 1..m-1+1 : SubSeq(p, 1, m)[k] = p[1+k-1]
    BY <2>2, SubSeqProperties
  <2> QED  BY <2>3 DEF Upto
<1> DEFINE a == Append(Upto(p, n), p[n+1])
           b == Upto(p, n + 1)
<1>3. Upto(p, n) \in Seq(T) /\ Len(Upto(p, n)) = n /\ \A k \in 1..n : Upto(p, n)[k] = p[k]
  BY <1>1, <1>2
<1>4. b \in Seq(T) /\ Len(b) = n + 1 /\ \A k \in 1..n+1 : b[k] = p[k]  BY <1>1, <1>2
<1>5. p[n+1] \in T  BY <1>1
<1>6. a \in Seq(T) /\ Len(a) = n + 1 /\ a[n+1] = p[n+1] /\ \A k \in 1..n : a[k] = p[k]
  BY <1>3, <1>5, AppendProperties
<1> HIDE DEF a, b
<1>7. \A k \in 1..n+1 : a[k] = b[k]  BY <1>4, <1>6
<1>8. a = b  BY <1>4, <1>6, <1>7, SeqEqual
<1> QED  BY <1>3, <1>8 DEF a, b

(* The first token, and the last.                                          *)
LEMMA UptoEnds ==
  ASSUME NEW T, NEW p \in Seq(T), Len(p) > 0
  PROVE  Upto(p, 1) = <<p[1]>> /\ Upto(p, Len(p)) = p
<1>1. Len(p) \in Nat /\ DOMAIN p = 1..Len(p) /\ \A k \in 1..Len(p) : p[k] \in T
  BY LenProperties, ElementOfSeq
<1>2. Append(Upto(p, 0), p[1]) = Upto(p, 1) /\ Upto(p, 0) \in Seq(T) /\ Len(Upto(p, 0)) = 0
  <2>1. 0 \in Nat /\ 0 < Len(p) /\ 0 + 1 = 1  BY <1>1
  <2> QED  BY <2>1, UptoNext
<1>3. Upto(p, 0) = <<>>  BY <1>2, EmptySeq
<1>4. Append(<<>>, p[1]) = <<p[1]>>  BY <1>1
<1>5. Upto(p, Len(p)) = p
  <2> DEFINE n == Len(p)
             q == Upto(p, n)
  <2>1. 1 \in Int /\ n \in Int /\ \A k \in 1..n : p[k] \in T  BY <1>1
  <2>2. /\ SubSeq(p, 1, n) \in Seq(T)
        /\ Len(SubSeq(p, 1, n)) = IF 1 <= n THEN n-1+1 ELSE 0
        /\ \A k \in 1..n-1+1 : SubSeq(p, 1, n)[k] = p[1+k-1]
    BY <2>1, SubSeqProperties
  <2>3. q \in Seq(T) /\ Len(q) = Len(p) /\ \A k \in 1..Len(q) : q[k] = p[k]
    BY <1>1, <2>2 DEF Upto
  <2> HIDE DEF q, n
  <2>4. q = p  BY <2>3, SeqEqual
  <2> QED  BY <2>4 DEF q, n
<1> QED  BY <1>2, <1>3, <1>4, <1>5

(* What is on the way to a place is its prefix.                            *)
LEMMA UptoPrefix ==
  ASSUME NEW T, NEW p \in Seq(T), NEW n \in Nat, n <= Len(p)
  PROVE  IsPrefix(Upto(p, n), p)
<1> DEFINE a == Upto(p, n)
<1>1. Len(p) \in Nat  BY LenProperties
<1>2. a \in Seq(T) /\ Len(a) = n
  <2>1. CASE n < Len(p)  BY <2>1, UptoNext
  <2>2. CASE n = Len(p) /\ n > 0  BY <2>2, UptoEnds
  <2>3. CASE n = 0 /\ Len(p) = 0
    <3>1. 1 \in Int /\ n \in Int /\ \A k \in 1..n : p[k] \in T  BY <2>3
    <3>2. SubSeq(p, 1, n) \in Seq(T) /\ Len(SubSeq(p, 1, n)) = IF 1 <= n THEN n-1+1 ELSE 0
      BY <3>1, SubSeqProperties
    <3> QED  BY <2>3, <3>2 DEF Upto
  <2> QED  BY <1>1, <2>1, <2>2, <2>3
<1>3. SubSeq(a, 1, Len(a)) = a
  <2> HIDE DEF a
  <2>1. CASE n > 0  BY <1>2, <2>1, UptoEnds DEF Upto
  <2>2. CASE n = 0
    <3>1. 1 \in Int /\ 0 \in Int /\ \A k \in 1..0 : a[k] \in T  OBVIOUS
    <3>2. SubSeq(a, 1, 0) \in Seq(T) /\ Len(SubSeq(a, 1, 0)) = IF 1 <= 0 THEN 0-1+1 ELSE 0
      BY <3>1, SubSeqProperties
    <3> QED  BY <1>2, <2>2, <3>2, EmptySeq
  <2> QED  BY <2>1, <2>2
<1> QED  BY <1>1, <1>2, <1>3 DEF IsPrefix, Upto

(* A token that is an index is that of an item that exists.                *)
LEMMA UptoItem ==
  ASSUME NEW T, NEW body, NEW p \in DOMAIN body, p \in Seq(T),
         NEW n \in Nat, n < Len(p), p[n+1] \in ToSet(Index)
  PROVE  \E k \in DOMAIN Index : Item(Upto(p, n), k) = Upto(p, n + 1) /\ Exists(body, Upto(p, n + 1))
<1>1. PICK k \in DOMAIN Index : Index[k] = p[n+1]  BY DEF ToSet
<1>2. Item(Upto(p, n), k) = Upto(p, n + 1)  BY <1>1, UptoNext DEF Item
<1>3. Len(p) \in Nat /\ n + 1 \in Nat /\ n + 1 <= Len(p)  BY LenProperties
<1>4. IsPrefix(Upto(p, n + 1), p)  BY <1>3, UptoPrefix
<1> QED  BY <1>2, <1>4 DEF Exists

(* Two tokens at once.                                                     *)
LEMMA ConcatTwo ==
  ASSUME NEW T, NEW s \in Seq(T), NEW a \in T, NEW b \in T
  PROVE  s \o <<a, b>> = Append(Append(s, a), b)
<1> DEFINE two == <<a, b>>
           c == s \o two
           d == Append(Append(s, a), b)
<1>1. two \in Seq(T) /\ Len(two) = 2 /\ two[1] = a /\ two[2] = b  OBVIOUS
<1>2. Len(s) \in Nat  BY LenProperties
<1> HIDE DEF two
<1>3. /\ c \in Seq(T) /\ Len(c) = Len(s) + 2
      /\ c[Len(s) + 1] = a /\ c[Len(s) + 2] = b /\ \A k \in 1..Len(s) : c[k] = s[k]
  <2>1. /\ s \o two \in Seq(T) /\ Len(s \o two) = Len(s) + Len(two)
        /\ \A k \in 1..Len(s) + Len(two) :
             (s \o two)[k] = IF k <= Len(s) THEN s[k] ELSE two[k - Len(s)]
    BY <1>1, ConcatProperties
  <2>2. \A k \in 1..Len(s) : k \in 1..Len(s) + Len(two) /\ k <= Len(s)  BY <1>1, <1>2
  <2> HIDE DEF c
  <2>3. /\ Len(s) + 1 \in 1..Len(s) + Len(two) /\ ~(Len(s) + 1 <= Len(s))
        /\ Len(s) + 2 \in 1..Len(s) + Len(two) /\ ~(Len(s) + 2 <= Len(s))
        /\ Len(s) + 1 - Len(s) = 1 /\ Len(s) + 2 - Len(s) = 2 /\ Len(s) + Len(two) = Len(s) + 2
    BY <1>1, <1>2
  <2> QED  BY <1>1, <2>1, <2>2, <2>3 DEF c
<1>4. /\ Append(s, a) \in Seq(T) /\ Len(Append(s, a)) = Len(s) + 1
      /\ Append(s, a)[Len(s) + 1] = a /\ \A k \in 1..Len(s) : Append(s, a)[k] = s[k]
  BY AppendProperties
<1> DEFINE e == Append(s, a)
<1> HIDE DEF e
<1>5. /\ Append(e, b) \in Seq(T) /\ Len(Append(e, b)) = Len(s) + 1 + 1
      /\ Append(e, b)[Len(s) + 1 + 1] = b /\ \A k \in 1..Len(s) + 1 : Append(e, b)[k] = e[k]
  BY <1>4, AppendProperties DEF e
<1>6. /\ d \in Seq(T) /\ Len(d) = Len(s) + 2 /\ d[Len(s) + 2] = b /\ d[Len(s) + 1] = a
      /\ \A k \in 1..Len(s) : d[k] = s[k]
  BY <1>2, <1>4, <1>5 DEF e
<1> HIDE DEF c, d
<1>7. \A k \in 1..Len(s) + 2 : c[k] = d[k]
  <2> TAKE k \in 1..Len(s) + 2
  <2>1. k \in 1..Len(s) \/ k = Len(s) + 1 \/ k = Len(s) + 2  BY <1>2
  <2> QED  BY <1>3, <1>6, <2>1
<1>8. c = d  BY <1>3, <1>6, <1>7, SeqEqual
<1> QED  BY <1>8 DEF c, d, two

-----------------------------------------------------------------------------
(* What is extracted: segments, each of an image or of the text at a place. *)
Segment(body) ==
  [image : BOOLEAN, at : {<<>>} \cup DOMAIN body,
   text : {<<>>} \cup {body[p] : p \in DOMAIN body}]

\* The text of a place is among them.
Has(segments, p) == \E s \in ToSet(segments) : ~s.image /\ s.at = p

(* One string, or nothing.                                                 *)
LEMMA TextAtHas ==
  ASSUME NEW body, NEW p
  PROVE  /\ TextAt(body, p) \in Seq(Segment(body))
         /\ IsString(body, p) => Has(TextAt(body, p), p)
<1> DEFINE s == [image |-> FALSE, at |-> p, text |-> body[p]]
           one == <<s>>
<1>1. CASE IsString(body, p)
  <2>1. TextAt(body, p) = one  BY <1>1 DEF TextAt
  <2>2. s \in Segment(body)  BY <1>1 DEF IsString, Segment
  <2>3. ~s.image /\ s.at = p  OBVIOUS
  <2> HIDE DEF s
  <2>4. one \in Seq(Segment(body)) /\ s \in ToSet(one)  BY <2>2 DEF ToSet
  <2> HIDE DEF one
  <2> QED  BY <2>1, <2>3, <2>4 DEF Has
<1>2. CASE ~IsString(body, p)
  <2>1. TextAt(body, p) = <<>>  BY <1>2 DEF TextAt
  <2> QED  BY <1>2, <2>1, EmptySeq
<1> QED  BY <1>1, <1>2

\* An image is a segment without a text.
LEMMA ImageType == ASSUME NEW body PROVE Image \in Seq(Segment(body))
<1> DEFINE s == [image |-> TRUE, at |-> <<>>, text |-> <<>>]
           one == <<s>>
<1>1. s \in Segment(body)  BY DEF Segment
<1> HIDE DEF s
<1>2. one \in Seq(Segment(body))  BY <1>1
<1> QED  BY <1>2 DEF Image, s

(* One list behind another has what either has.                            *)
LEMMA HasConcat ==
  ASSUME NEW S, NEW a \in Seq(S), NEW b \in Seq(S)
  PROVE  /\ a \o b \in Seq(S)
         /\ \A p : Has(a, p) \/ Has(b, p) => Has(a \o b, p)
<1>1. a \o b \in Seq(S) /\ ToSet(a \o b) = ToSet(a) \cup ToSet(b)  BY ConcatHolds
<1> QED  BY <1>1 DEF Has

(* The pieces of the items of an array, one after the other.               *)
LEMMA EachHas ==
  ASSUME NEW S, NEW f, \A n \in DOMAIN Index : f[n] \in Seq(S),
         f = [n \in DOMAIN Index |-> f[n]]
  PROVE  /\ FlattenSeq(f) \in Seq(S)
         /\ \A n \in DOMAIN Index : \A x \in ToSet(f[n]) : x \in ToSet(FlattenSeq(f))
<1>1. DOMAIN Index = 1..3  BY DEF Index
<1>2. f \in [1..3 -> Seq(S)]  BY <1>1
<1>3. f \in Seq(Seq(S))  BY <1>2, FunctionIsSequence
<1>4. DOMAIN f = DOMAIN Index  BY <1>1, <1>2
<1>5. \A x : x \in ToSet(FlattenSeq(f)) <=> \E i \in DOMAIN f : x \in ToSet(f[i])
  BY <1>3, FlattenHolds
<1> QED  BY <1>3, <1>4, <1>5, FlattenType

(* A finite set, listed.                                                   *)
LEMMA SetToSeqHas ==
  ASSUME NEW S, IsFiniteSet(S)
  PROVE  /\ SetToSeq(S) \in Seq(S)
         /\ \A x \in S : \E i \in DOMAIN SetToSeq(S) : SetToSeq(S)[i] = x
<1> DEFINE n == Cardinality(S)
           f == SetToSeq(S)
<1>1. n \in Nat /\ ExistsBijection(1..n, S)  BY FS_CardinalityType
<1>2. \E g \in [1..n -> S] : IsInjective(g)
  BY <1>1 DEF ExistsBijection, Bijection, Injection, IsInjective
<1>3. f \in [1..n -> S] /\ IsInjective(f)  BY <1>2 DEF SetToSeq
<1> HIDE DEF f
<1>4. f \in Injection(1..n, S)  BY <1>3 DEF Injection
<1>5. IsFiniteSet(1..n) /\ Cardinality(1..n) = n  BY <1>1, FS_Interval
<1>6. f \in Surjection(1..n, S)  BY <1>4, <1>5, FS_Injection
<1>7. \A x \in S : \E i \in 1..n : f[i] = x  BY <1>6 DEF Surjection
<1>8. f \in Seq(S) /\ DOMAIN f = 1..n  BY <1>1, <1>3, FunctionIsSequence
<1> QED  BY <1>7, <1>8 DEF f

(* Every string of a tool's input, however deep it is.                     *)
LEMMA StringsHas ==
  ASSUME NEW body, IsFiniteSet(DOMAIN body), NEW here
  PROVE  /\ Strings(body, here) \in Seq(Segment(body))
         /\ \A p \in DOMAIN body : IsPrefix(here, p) /\ IsString(body, p) => Has(Strings(body, here), p)
<1> DEFINE S == {p \in DOMAIN body : IsPrefix(here, p) /\ IsString(body, p)}
           inside == SetToSeq(S)
           s == [i \in DOMAIN inside |->
                  [image |-> FALSE, at |-> inside[i], text |-> body[inside[i]]]]
<1>1. Strings(body, here) = s  BY DEF Strings, PointerTo
<1>2. IsFiniteSet(S)  BY FS_Subset
<1>3. S \subseteq DOMAIN body  OBVIOUS
<1> HIDE DEF S
<1>4. inside \in Seq(S) /\ \A x \in S : \E i \in DOMAIN inside : inside[i] = x  BY <1>2, SetToSeqHas
<1> HIDE DEF inside
<1>5. /\ Len(inside) \in Nat /\ DOMAIN inside = 1..Len(inside)
      /\ \A i \in DOMAIN inside : inside[i] \in S
  BY <1>4, LenProperties, ElementOfSeq
<1>6. \A i \in DOMAIN inside : s[i] \in Segment(body)  BY <1>3, <1>5 DEF Segment
<1>7. s \in [1..Len(inside) -> Segment(body)]  BY <1>5, <1>6
<1>8. s \in Seq(Segment(body))  BY <1>5, <1>7, FunctionIsSequence
<1>9. ASSUME NEW p \in S PROVE Has(s, p)
  <2>1. PICK i \in DOMAIN inside : inside[i] = p  BY <1>4
  <2>2. s[i] \in ToSet(s) /\ ~s[i].image /\ s[i].at = p  BY <2>1 DEF ToSet
  <2> HIDE DEF s
  <2> QED  BY <2>2 DEF Has
<1> HIDE DEF s
<1> QED  BY <1>1, <1>8, <1>9 DEF S

-----------------------------------------------------------------------------
(* A type is one word.                                                     *)
LEMMA OneType ==
  ASSUME NEW body, NEW here, NEW a, NEW b, IsWord(body, here, a), IsWord(body, here, b)
  PROVE  a = b
<1>1. <<a>> = <<b>>  BY DEF IsWord
<1>2. <<a>>[1] = a /\ <<b>>[1] = b  OBVIOUS
<1> QED  BY <1>1, <1>2

(* What has a type that is a word has a string there.                      *)
LEMMA WordIsString ==
  ASSUME NEW body, NEW here, NEW word,
         word \notin {"#null", "#true", "#number", "#[]"},
         IsWord(body, here, word)
  PROVE  IsString(body, here)
<1>1. <<word>>[1] = word  OBVIOUS
<1>2. /\ <<"#null">>[1] = "#null" /\ <<"#true">>[1] = "#true"
      /\ <<"#number">>[1] = "#number" /\ <<"#[]">>[1] = "#[]"
  OBVIOUS
<1> QED  BY <1>1, <1>2 DEF IsWord, IsString, Scalars

(* The parts of a content, by API: segments of the body, whatever they are. *)
LEMMA TextBlockType ==
  ASSUME NEW body, NEW here PROVE TextBlock(body, here) \in Seq(Segment(body))
BY TextAtHas, EmptySeq DEF TextBlock

\* The segments of a part of a chat message.
LEMMA OpenaiPartType ==
  ASSUME NEW body, NEW here PROVE OpenaiPart(body, here) \in Seq(Segment(body))
BY TextAtHas, ImageType, EmptySeq DEF OpenaiPart

\* The segments of a part of a Responses message.
LEMMA ResponsesPartType ==
  ASSUME NEW body, NEW here PROVE ResponsesPart(body, here) \in Seq(Segment(body))
BY TextAtHas, ImageType, EmptySeq DEF ResponsesPart

\* The text blocks of a list.
Blocks(body, here) == Each(body, here, LAMBDA inner : TextBlock(body, inner))

\* A list of blocks has what its items have.
LEMMA BlocksHas ==
  ASSUME NEW body, NEW here
  PROVE  /\ Blocks(body, here) \in Seq(Segment(body))
         /\ \A n \in DOMAIN Index : \A p :
              Exists(body, Item(here, n)) /\ Has(TextBlock(body, Item(here, n)), p)
              => Has(Blocks(body, here), p)
<1> DEFINE f == [n \in DOMAIN Index |->
                   IF Exists(body, Item(here, n)) THEN TextBlock(body, Item(here, n)) ELSE <<>>]
<1>1. Blocks(body, here) = FlattenSeq(f)  BY DEF Blocks, Each
<1>2. \A n \in DOMAIN Index : f[n] \in Seq(Segment(body))  BY TextBlockType, EmptySeq
<1>3. /\ f = [n \in DOMAIN Index |-> f[n]]
      /\ \A n \in DOMAIN Index : Exists(body, Item(here, n)) => f[n] = TextBlock(body, Item(here, n))
  OBVIOUS
<1> HIDE DEF f
<1> QED  BY <1>1, <1>2, <1>3, EachHas DEF Has

\* The segments of a block of Anthropic's format.
LEMMA AnthropicBlockType ==
  ASSUME NEW body, IsFiniteSet(DOMAIN body), NEW here
  PROVE  AnthropicBlock(body, here) \in Seq(Segment(body))
<1>1. /\ TextAt(body, Append(here, "text")) \in Seq(Segment(body))
      /\ TextAt(body, here \o <<"source", "data">>) \in Seq(Segment(body))
      /\ Strings(body, Append(here, "input")) \in Seq(Segment(body))
      /\ <<>> \in Seq(Segment(body))
  BY TextAtHas, StringsHas, EmptySeq
<1>2. TextAt(body, Append(here, "content")) \o Blocks(body, Append(here, "content"))
        \in Seq(Segment(body))
  BY TextAtHas, BlocksHas, HasConcat
<1> QED  BY <1>1, <1>2 DEF AnthropicBlock, Blocks, Each

-----------------------------------------------------------------------------
(* The content of a message: its string, then its parts'.                  *)
LEMMA ContentPieces ==
  ASSUME NEW body, NEW content, NEW f,
         \A n \in DOMAIN Index : f[n] \in Seq(Segment(body)), f = [n \in DOMAIN Index |-> f[n]]
  PROVE  LET segments == TextAt(body, content) \o FlattenSeq(f)
         IN  /\ segments \in Seq(Segment(body))
             /\ IsString(body, content) => Has(segments, content)
             /\ \A n \in DOMAIN Index : \A p : Has(f[n], p) => Has(segments, p)
<1> DEFINE own == TextAt(body, content)
           parts == FlattenSeq(f)
<1>1. own \in Seq(Segment(body)) /\ (IsString(body, content) => Has(own, content))
  BY TextAtHas
<1>2. /\ parts \in Seq(Segment(body))
      /\ \A n \in DOMAIN Index : \A p : Has(f[n], p) => Has(parts, p)
  BY EachHas DEF Has
<1> HIDE DEF own, parts
<1>3. /\ own \o parts \in Seq(Segment(body))
      /\ \A p : Has(own, p) \/ Has(parts, p) => Has(own \o parts, p)
  BY <1>1, <1>2, HasConcat
<1> QED  BY <1>1, <1>2, <1>3 DEF own, parts

\* By API.
OpenaiContent(body, here)    == Content(body, here, LAMBDA part : OpenaiPart(body, part))
AnthropicContent(body, here) == Content(body, here, LAMBDA part : AnthropicBlock(body, part))
ResponsesContent(body, here) == Content(body, here, LAMBDA part : ResponsesPart(body, part))

\* The content of a chat message: its string, or what its parts have.
LEMMA OpenaiContentHas ==
  ASSUME NEW body, NEW here
  PROVE  LET content == Append(here, "content")
             segments == OpenaiContent(body, here)
         IN  /\ segments \in Seq(Segment(body))
             /\ IsString(body, content) => Has(segments, content)
             /\ \A n \in DOMAIN Index : \A p :
                  Exists(body, Item(content, n)) /\ Has(OpenaiPart(body, Item(content, n)), p)
                  => Has(segments, p)
<1> DEFINE content == Append(here, "content")
           f == [n \in DOMAIN Index |->
                   IF Exists(body, Item(content, n)) THEN OpenaiPart(body, Item(content, n))
                   ELSE <<>>]
           segments == TextAt(body, content) \o FlattenSeq(f)
<1>1. OpenaiContent(body, here) = segments  BY DEF OpenaiContent, Content, Each
<1> HIDE DEF content
<1>2. \A n \in DOMAIN Index : f[n] \in Seq(Segment(body))  BY OpenaiPartType, EmptySeq
<1>3. /\ f = [n \in DOMAIN Index |-> f[n]]
      /\ \A n \in DOMAIN Index :
           Exists(body, Item(content, n)) => f[n] = OpenaiPart(body, Item(content, n))
  OBVIOUS
<1> HIDE DEF f
<1>4. /\ segments \in Seq(Segment(body))
      /\ IsString(body, content) => Has(segments, content)
      /\ \A n \in DOMAIN Index : \A p : Has(f[n], p) => Has(segments, p)
  BY <1>2, <1>3, ContentPieces
<1> HIDE DEF segments
<1> QED  BY <1>1, <1>3, <1>4 DEF content

\* The content of a message of Anthropic's: its string, or what its blocks have.
LEMMA AnthropicContentHas ==
  ASSUME NEW body, IsFiniteSet(DOMAIN body), NEW here
  PROVE  LET content == Append(here, "content")
             segments == AnthropicContent(body, here)
         IN  /\ segments \in Seq(Segment(body))
             /\ IsString(body, content) => Has(segments, content)
             /\ \A n \in DOMAIN Index : \A p :
                  Exists(body, Item(content, n)) /\ Has(AnthropicBlock(body, Item(content, n)), p)
                  => Has(segments, p)
<1> DEFINE content == Append(here, "content")
           f == [n \in DOMAIN Index |->
                   IF Exists(body, Item(content, n)) THEN AnthropicBlock(body, Item(content, n))
                   ELSE <<>>]
           segments == TextAt(body, content) \o FlattenSeq(f)
<1>1. AnthropicContent(body, here) = segments  BY DEF AnthropicContent, Content, Each
<1> HIDE DEF content
<1>2. \A n \in DOMAIN Index : f[n] \in Seq(Segment(body))  BY AnthropicBlockType, EmptySeq
<1>3. /\ f = [n \in DOMAIN Index |-> f[n]]
      /\ \A n \in DOMAIN Index :
           Exists(body, Item(content, n)) => f[n] = AnthropicBlock(body, Item(content, n))
  OBVIOUS
<1> HIDE DEF f
<1>4. /\ segments \in Seq(Segment(body))
      /\ IsString(body, content) => Has(segments, content)
      /\ \A n \in DOMAIN Index : \A p : Has(f[n], p) => Has(segments, p)
  BY <1>2, <1>3, ContentPieces
<1> HIDE DEF segments
<1> QED  BY <1>1, <1>3, <1>4 DEF content

\* The content of a Responses message: its string, or what its parts have.
LEMMA ResponsesContentHas ==
  ASSUME NEW body, NEW here
  PROVE  LET content == Append(here, "content")
             segments == ResponsesContent(body, here)
         IN  /\ segments \in Seq(Segment(body))
             /\ IsString(body, content) => Has(segments, content)
             /\ \A n \in DOMAIN Index : \A p :
                  Exists(body, Item(content, n)) /\ Has(ResponsesPart(body, Item(content, n)), p)
                  => Has(segments, p)
<1> DEFINE content == Append(here, "content")
           f == [n \in DOMAIN Index |->
                   IF Exists(body, Item(content, n)) THEN ResponsesPart(body, Item(content, n))
                   ELSE <<>>]
           segments == TextAt(body, content) \o FlattenSeq(f)
<1>1. ResponsesContent(body, here) = segments  BY DEF ResponsesContent, Content, Each
<1> HIDE DEF content
<1>2. \A n \in DOMAIN Index : f[n] \in Seq(Segment(body))  BY ResponsesPartType, EmptySeq
<1>3. /\ f = [n \in DOMAIN Index |-> f[n]]
      /\ \A n \in DOMAIN Index :
           Exists(body, Item(content, n)) => f[n] = ResponsesPart(body, Item(content, n))
  OBVIOUS
<1> HIDE DEF f
<1>4. /\ segments \in Seq(Segment(body))
      /\ IsString(body, content) => Has(segments, content)
      /\ \A n \in DOMAIN Index : \A p : Has(f[n], p) => Has(segments, p)
  BY <1>2, <1>3, ContentPieces
<1> HIDE DEF segments
<1> QED  BY <1>1, <1>3, <1>4 DEF content

-----------------------------------------------------------------------------
(* A message of /v1/chat/completions.                                      *)
ToolCalls(body, here) ==
  Each(body, Append(here, "tool_calls"),
       LAMBDA call : TextAt(body, call \o <<"function", "arguments">>))

OpenaiSegments(body, here) ==
  OpenaiContent(body, here) \o TextAt(body, Append(here, "refusal")) \o ToolCalls(body, here)
  \o TextAt(body, here \o <<"function_call", "arguments">>)

\* The arguments of the calls that a message makes.
LEMMA ToolCallsHas ==
  ASSUME NEW body, NEW here
  PROVE  /\ ToolCalls(body, here) \in Seq(Segment(body))
         /\ \A n \in DOMAIN Index :
              LET call == Item(Append(here, "tool_calls"), n)
                  arguments == call \o <<"function", "arguments">>
              IN  Exists(body, call) /\ IsString(body, arguments)
                  => Has(ToolCalls(body, here), arguments)
<1> DEFINE calls == Append(here, "tool_calls")
           Arguments(n) == Item(calls, n) \o <<"function", "arguments">>
           f == [n \in DOMAIN Index |->
                   IF Exists(body, Item(calls, n)) THEN TextAt(body, Arguments(n)) ELSE <<>>]
<1>1. ToolCalls(body, here) = FlattenSeq(f)  BY DEF ToolCalls, Each
<1> HIDE DEF calls, Arguments
<1>2. \A n \in DOMAIN Index : f[n] \in Seq(Segment(body))  BY TextAtHas, EmptySeq
<1>3. /\ f = [n \in DOMAIN Index |-> f[n]]
      /\ \A n \in DOMAIN Index :
           Exists(body, Item(calls, n)) => f[n] = TextAt(body, Arguments(n))
  OBVIOUS
<1> HIDE DEF f
<1>4. /\ FlattenSeq(f) \in Seq(Segment(body))
      /\ \A n \in DOMAIN Index : \A p : Has(f[n], p) => Has(FlattenSeq(f), p)
  BY <1>2, <1>3, EachHas DEF Has
<1>5. \A n \in DOMAIN Index :
        Exists(body, Item(calls, n)) /\ IsString(body, Arguments(n))
        => Has(ToolCalls(body, here), Arguments(n))
  BY <1>1, <1>3, <1>4, TextAtHas
<1> QED  BY <1>1, <1>4, <1>5 DEF calls, Arguments

\* All that a chat message says: its content, refusal and calls.
LEMMA OpenaiSegmentsHas ==
  ASSUME NEW body, NEW here
  PROVE  LET segments == OpenaiSegments(body, here)
             call == here \o <<"function_call", "arguments">>
         IN  /\ segments \in Seq(Segment(body))
             /\ \A p : Has(OpenaiContent(body, here), p) \/ Has(ToolCalls(body, here), p)
                       => Has(segments, p)
             /\ \A p \in {Append(here, "refusal"), call} : IsString(body, p) => Has(segments, p)
<1> DEFINE call == here \o <<"function_call", "arguments">>
           refusal == Append(here, "refusal")
           a == OpenaiContent(body, here)
           b == TextAt(body, refusal)
           c == ToolCalls(body, here)
           d == TextAt(body, call)
<1>1. OpenaiSegments(body, here) = a \o b \o c \o d  BY DEF OpenaiSegments
<1> HIDE DEF call, refusal
<1>2. /\ a \in Seq(Segment(body)) /\ b \in Seq(Segment(body))
      /\ c \in Seq(Segment(body)) /\ d \in Seq(Segment(body))
  BY OpenaiContentHas, TextAtHas, ToolCallsHas
<1>3. /\ IsString(body, refusal) => Has(b, refusal)
      /\ IsString(body, call) => Has(d, call)
  BY TextAtHas
<1> HIDE DEF a, b, c, d
<1>4. /\ a \o b \in Seq(Segment(body))
      /\ \A p : Has(a, p) \/ Has(b, p) => Has(a \o b, p)
  BY <1>2, HasConcat
<1>5. /\ a \o b \o c \in Seq(Segment(body))
      /\ \A p : Has(a \o b, p) \/ Has(c, p) => Has(a \o b \o c, p)
  BY <1>2, <1>4, HasConcat
<1>6. /\ a \o b \o c \o d \in Seq(Segment(body))
      /\ \A p : Has(a \o b \o c, p) \/ Has(d, p) => Has(a \o b \o c \o d, p)
  BY <1>2, <1>5, HasConcat
<1> QED  BY <1>1, <1>3, <1>4, <1>5, <1>6 DEF a, c, call, refusal

-----------------------------------------------------------------------------
(* What is extracted of a body: its messages.                              *)
ItemsRoles(body, items) == {RoleOf(body, Item(items, n)) : n \in DOMAIN Index}

Speakers(body) ==
  {"system", "user", "assistant", "tool"}
  \cup ItemsRoles(body, <<"messages">>) \cup ItemsRoles(body, <<"input">>)

Message(body) == [role : Speakers(body), segments : Seq(Segment(body))]

\* Someone in the role says what is at the place.
Says(extracted, p, role) == \E m \in ToSet(extracted) : m.role = role /\ Has(m.segments, p)

\* What segments have, the message that is made of them says in its role.
LEMMA ExtractedSays ==
  ASSUME NEW body, NEW role, NEW segments \in Seq(Segment(body)),
         [role |-> role, segments |-> segments] \in Message(body)
  PROVE  /\ Extracted(role, segments) \in Seq(Message(body))
         /\ \A p : Has(segments, p) => Says(Extracted(role, segments), p, role)
<1> DEFINE m == [role |-> role, segments |-> segments]
           one == <<m>>
<1>1. Extracted(role, segments) = one  BY DEF Extracted
<1>2. m.role = role /\ m.segments = segments /\ m \in Message(body)  OBVIOUS
<1> HIDE DEF m
<1>3. one \in Seq(Message(body)) /\ m \in ToSet(one)  BY <1>2 DEF ToSet
<1> HIDE DEF one
<1> QED  BY <1>1, <1>2, <1>3 DEF Says

\* Two lists of messages say what either of them says.
LEMMA SaysConcat ==
  ASSUME NEW S, NEW a \in Seq(S), NEW b \in Seq(S)
  PROVE  /\ a \o b \in Seq(S)
         /\ \A p, role : Says(a, p, role) \/ Says(b, p, role) => Says(a \o b, p, role)
<1>1. a \o b \in Seq(S) /\ ToSet(a \o b) = ToSet(a) \cup ToSet(b)  BY ConcatHolds
<1> QED  BY <1>1 DEF Says

(* The messages of a body of /v1/chat/completions, each with its role.     *)
LEMMA ExtractOpenaiSays ==
  ASSUME NEW body
  PROVE  LET extracted == ExtractChat(body, "chat")
         IN  /\ extracted \in Seq(Message(body))
             /\ \A n \in DOMAIN Index : \A p :
                  LET here == Item(<<"messages">>, n)
                  IN  Exists(body, here) /\ Has(OpenaiSegments(body, here), p)
                      => Says(extracted, p, RoleOf(body, here))
<1> DEFINE At(n) == Item(<<"messages">>, n)
           Piece(n) == Extracted(RoleOf(body, At(n)), OpenaiSegments(body, At(n)))
           f == [n \in DOMAIN Index |-> IF Exists(body, At(n)) THEN Piece(n) ELSE <<>>]
           all == FlattenSeq(f)
<1>1. "chat" # "messages"  OBVIOUS
<1>2. ASSUME NEW here
      PROVE  ExtractMessage(body, here, "chat")
               = Extracted(RoleOf(body, here), OpenaiSegments(body, here))
  BY <1>1 DEF ExtractMessage, OpenaiSegments, OpenaiContent, ToolCalls, Content, Each
<1>3. ExtractChat(body, "chat") = <<>> \o all
  BY <1>1, <1>2 DEF ExtractChat, Each
<1>4. ASSUME NEW n \in DOMAIN Index
      PROVE  /\ Piece(n) \in Seq(Message(body))
             /\ \A p : Has(OpenaiSegments(body, At(n)), p) => Says(Piece(n), p, RoleOf(body, At(n)))
  <2>1. OpenaiSegments(body, At(n)) \in Seq(Segment(body))  BY OpenaiSegmentsHas
  <2>2. RoleOf(body, At(n)) \in ItemsRoles(body, <<"messages">>)  BY DEF ItemsRoles
  <2> HIDE DEF At
  <2>3. [role |-> RoleOf(body, At(n)), segments |-> OpenaiSegments(body, At(n))] \in Message(body)
    BY <2>1, <2>2 DEF Message, Speakers
  <2> QED  BY <2>1, <2>3, ExtractedSays
<1> HIDE DEF At, Piece
<1>5. \A n \in DOMAIN Index : f[n] \in Seq(Message(body))  BY <1>4, EmptySeq
<1>6. /\ f = [n \in DOMAIN Index |-> f[n]]
      /\ \A n \in DOMAIN Index : Exists(body, At(n)) => f[n] = Piece(n)
  OBVIOUS
<1> HIDE DEF f
<1>7. /\ all \in Seq(Message(body))
      /\ \A n \in DOMAIN Index : \A p, role : Says(f[n], p, role) => Says(all, p, role)
  BY <1>5, <1>6, EachHas DEF Says
<1> HIDE DEF all
<1>8. ExtractChat(body, "chat") = all  BY <1>3, <1>7, ConcatEmptySeq
<1>9. \A n \in DOMAIN Index : \A p :
        Exists(body, At(n)) /\ Has(OpenaiSegments(body, At(n)), p)
        => Says(all, p, RoleOf(body, At(n)))
  BY <1>4, <1>6, <1>7
<1> QED  BY <1>7, <1>8, <1>9 DEF At

-----------------------------------------------------------------------------
(* The rows of the tables.                                                 *)
LEMMA MessageRole ==
  ASSUME NEW c, NEW T, NEW p \in Seq(T), Len(p) > 2, p[1] = "messages"
  PROVE  RoleAt(c, p) = RoleOf(c.body, Upto(p, 2))
<1>1. Len(p) \in Nat  BY LenProperties
<1>2. p # <<"input">>  BY <1>1
<1> QED  BY <1>2 DEF RoleAt, RoleOf, Upto

(* What a row says of a place that fits it.                                *)
LEMMA RowFacts ==
  ASSUME NEW body, NEW p, NEW path, NEW types, Fits(body, p, Row(path, types))
  PROVE  /\ path[Len(path)] # "**" => Len(p) = Len(path)
         /\ path[Len(path)] = "**" => Len(p) >= Len(path) - 1
         /\ \A i \in 1..Len(path) : /\ path[i] = "*" => p[i] \in ToSet(Index)
                                    /\ path[i] \notin {"*", "**"} => p[i] = path[i]
         /\ \A t \in types : \E type \in t[2] : HasType(body, Upto(p, t[1]), type)
<1> DEFINE row == Row(path, types)
<1>1. row.path = path /\ row.types = types  BY DEF Row
<1>2. Fits(body, p, row)  OBVIOUS
<1> HIDE DEF row
<1>3. /\ IF path[Len(path)] = "**" THEN Len(p) >= Len(path) - 1 ELSE Len(p) = Len(path)
      /\ \A i \in 1..Len(path) : CASE path[i] = "**" -> TRUE
                                    [] path[i] = "*"  -> p[i] \in ToSet(Index)
                                    [] OTHER          -> path[i] = p[i]
      /\ \A t \in types : \E type \in t[2] : HasType(body, Upto(p, t[1]), type)
  BY <1>1, <1>2 DEF Fits, Upto
<1>4. "*" # "**"  OBVIOUS
<1> QED  BY <1>3, <1>4

(* A row is the way to a place: its tokens are keys, or indices of items.  *)
Way(body, p, path, types) ==
  /\ p[1] = path[1] /\ Upto(p, 1) = <<path[1]>>
  /\ path[Len(path)] # "**" => Len(p) = Len(path) /\ Upto(p, Len(path)) = p
  /\ path[Len(path)] = "**" => Len(p) >= Len(path) - 1
  /\ \A n, m \in 1..Len(path) :
       m = n + 1 =>
         /\ path[m] \notin {"*", "**"} => Append(Upto(p, n), path[m]) = Upto(p, m)
         /\ path[m] = "*" =>
              \E i \in DOMAIN Index : Item(Upto(p, n), i) = Upto(p, m) /\ Exists(body, Upto(p, m))
  /\ \A n, m, k \in 1..Len(path) :
       m = n + 1 /\ k = m + 1 /\ {path[m], path[k]} \cap {"*", "**"} = {}
       => Upto(p, n) \o <<path[m], path[k]>> = Upto(p, k)
  /\ \A t \in types : \E type \in t[2] : HasType(body, Upto(p, t[1]), type)

\* A place that fits a row lies on its way, token by token.
LEMMA RowWay ==
  ASSUME NEW T, NEW body, NEW p \in DOMAIN body, p \in Seq(T), NEW path, NEW types,
         Fits(body, p, Row(path, types)), Len(path) \in Nat, 1 \in 1..Len(path),
         path[1] \notin {"*", "**"}, Len(path) > 1 \/ path[Len(path)] # "**"
  PROVE  Way(body, p, path, types)
<1>1. Len(p) \in Nat  BY LenProperties
<1>2. Len(p) > 0 /\ p[1] = path[1]  BY <1>1, RowFacts
<1>3. Upto(p, 1) = <<p[1]>> /\ Upto(p, Len(p)) = p  BY <1>2, UptoEnds
<1>4. ASSUME NEW n \in 1..Len(path), NEW m \in 1..Len(path), m = n + 1, path[m] # "**"
      PROVE  /\ path[m] # "*" => Append(Upto(p, n), path[m]) = Upto(p, m)
             /\ path[m] = "*" =>
                  \E i \in DOMAIN Index : Item(Upto(p, n), i) = Upto(p, m) /\ Exists(body, Upto(p, m))
  <2>1. n \in Nat /\ n < Len(p)  BY <1>1, <1>4, RowFacts
  <2>2. /\ path[m] = "*" => p[n+1] \in ToSet(Index)
        /\ path[m] # "*" => p[n+1] = path[m]
    BY <1>4, RowFacts
  <2>3. CASE path[m] = "*"  BY <1>4, <2>1, <2>2, <2>3, UptoItem
  <2>4. CASE path[m] # "*"  BY <1>4, <2>1, <2>2, <2>4, UptoNext
  <2> QED  BY <2>3, <2>4
<1>5. ASSUME NEW n \in 1..Len(path), NEW m \in 1..Len(path), NEW k \in 1..Len(path),
             m = n + 1, k = m + 1, {path[m], path[k]} \cap {"*", "**"} = {}
      PROVE  Upto(p, n) \o <<path[m], path[k]>> = Upto(p, k)
  <2>a. path[m] \notin {"*", "**"} /\ path[k] \notin {"*", "**"}  BY <1>5
  <2>1. n \in Nat /\ n < Len(p) /\ m \in 1..Len(p) /\ k \in 1..Len(p)
    <3>1. path[Len(path)] = "**" => k # Len(path)  BY <2>a
    <3>2. Len(p) = Len(path) \/ (Len(p) >= Len(path) - 1 /\ k # Len(path))
      BY <3>1, RowFacts
    <3> QED  BY <1>1, <1>5, <3>2
  <2>2. p[m] = path[m] /\ p[k] = path[k]  BY <2>a, RowFacts
  <2>3. path[m] \in T /\ path[k] \in T  BY <2>1, <2>2, ElementOfSeq
  <2>4. Upto(p, n) \in Seq(T)  BY <2>1, UptoNext
  <2>5. Append(Upto(p, n), path[m]) = Upto(p, m) /\ Append(Upto(p, m), path[k]) = Upto(p, k)
    BY <1>4, <1>5, <2>a
  <2>6. Upto(p, n) \o <<path[m], path[k]>> = Append(Append(Upto(p, n), path[m]), path[k])
    BY <2>3, <2>4, ConcatTwo
  <2> QED  BY <2>5, <2>6
<1> QED  BY <1>2, <1>3, <1>4, <1>5, RowFacts DEF Way

(* The parts of a content, by their types.                                 *)
LEMMA OpenaiPartHas ==
  ASSUME NEW body, NEW here
  PROVE  /\ /\ HasType(body, here, "text") \/ HasType(body, here, "")
            /\ IsString(body, Append(here, "text"))
            => Has(OpenaiPart(body, here), Append(here, "text"))
         /\ HasType(body, here, "refusal") /\ IsString(body, Append(here, "refusal"))
            => Has(OpenaiPart(body, here), Append(here, "refusal"))
<1> DEFINE Type(type) == IsWord(body, Append(here, "type"), type)
<1>1. ASSUME HasType(body, here, "text") \/ HasType(body, here, "")
      PROVE  OpenaiPart(body, here) = TextAt(body, Append(here, "text"))
  <2>1. ~IsString(body, Append(here, "type")) \/ Type("text")  BY <1>1 DEF HasType
  <2>2. ~Type("refusal") /\ ~Type("image_url")  BY <2>1, OneType, WordIsString
  <2> QED  BY <2>1, <2>2 DEF OpenaiPart
<1>2. ASSUME HasType(body, here, "refusal")
      PROVE  OpenaiPart(body, here) = TextAt(body, Append(here, "refusal"))
  <2>1. Type("refusal")  BY <1>2 DEF HasType
  <2>2. IsString(body, Append(here, "type")) /\ ~Type("text") /\ ~Type("image_url")
    BY <2>1, OneType, WordIsString
  <2> QED  BY <2>1, <2>2 DEF OpenaiPart
<1> QED  BY <1>1, <1>2, TextAtHas

(* Every place of the chat-completions table is extracted.                 *)
LEMMA OpenaiCovers ==
  ASSUME NEW c, IsDocument(c.body), NEW p \in Listing(c.body, OpenaiTable)
  PROVE  Says(ExtractChat(c.body, "chat"), p, RoleAt(c, p))
<1> DEFINE T == ToSet(p)
           body == c.body
           msg == Upto(p, 2)
           content == Append(msg, "content")
<1>1. p \in DOMAIN body /\ p \in Seq(T) /\ IsString(body, p) /\ Len(p) \in Nat
  BY LenProperties DEF Listing, IsDocument
<1>2. PICK row \in OpenaiTable : Fits(body, p, row)  BY DEF Listing
<1> HIDE DEF T, body
<1>3. ASSUME Len(p) > 2, p[1] = "messages", Upto(p, 1) = <<"messages">>,
             \E i \in DOMAIN Index : Item(Upto(p, 1), i) = msg /\ Exists(body, msg),
             Has(OpenaiSegments(body, msg), p)
      PROVE  Says(ExtractChat(body, "chat"), p, RoleAt(c, p))
  <2>1. RoleAt(c, p) = RoleOf(body, msg)  BY <1>1, <1>3, MessageRole DEF body
  <2> HIDE DEF msg
  <2> QED  BY <1>3, <2>1, ExtractOpenaiSays
<1>4. \A n \in DOMAIN Index : \A q :
        Exists(body, Item(content, n)) /\ Has(OpenaiPart(body, Item(content, n)), q)
        => Has(OpenaiSegments(body, msg), q)
  <2> HIDE DEF msg
  <2> QED  BY OpenaiContentHas, OpenaiSegmentsHas
<1>5. CASE row = Row(<<"messages", "*", "content">>, {})
  <2> DEFINE path == <<"messages", "*", "content">>
             types == {}
  <2>1. /\ Len(path) = 3 /\ path[1] = "messages" /\ path[2] = "*" /\ path[3] = "content"
        /\ 1 \in 1..3 /\ 2 \in 1..3 /\ 3 \in 1..3 /\ 2 = 1 + 1 /\ 3 = 2 + 1
    OBVIOUS
  <2>3. Fits(body, p, Row(path, types))  BY <1>2, <1>5
  <2> HIDE DEF path, types
  <2>4. Way(body, p, path, types)
    <3>1. Len(path) \in Nat /\ 1 \in 1..Len(path) /\ path[1] \notin {"*", "**"}
          /\ (Len(path) > 1 \/ path[Len(path)] # "**")
      BY <2>1
    <3> QED  BY <1>1, <2>3, <3>1, RowWay
  <2>5. /\ p[1] = "messages" /\ Upto(p, 1) = <<"messages">> /\ Len(p) = 3 /\ Upto(p, 3) = p
        /\ \E i \in DOMAIN Index : Item(Upto(p, 1), i) = Upto(p, 2) /\ Exists(body, Upto(p, 2))
        /\ Append(Upto(p, 2), "content") = Upto(p, 3)
    BY SMTT(30), <2>1, <2>4 DEF Way
  <2>7. IsString(body, content) => Has(OpenaiContent(body, msg), content)
    <3> HIDE DEF msg
    <3> QED  BY OpenaiContentHas
  <2>8. Has(OpenaiSegments(body, msg), p)  BY <1>1, <2>5, <2>7, OpenaiSegmentsHas
  <2>9. Len(p) > 2  BY <2>5
  <2> QED  BY <1>3, <2>5, <2>8, <2>9 DEF body
<1>6. CASE row = Row(<<"messages", "*", "content", "*", "text">>, {<<4, {"text", ""}>>})
  <2> DEFINE path == <<"messages", "*", "content", "*", "text">>
             types == {<<4, {"text", ""}>>}
  <2>1. /\ Len(path) = 5 /\ path[1] = "messages" /\ path[2] = "*" /\ path[3] = "content"
        /\ path[4] = "*" /\ path[5] = "text" /\ 1 \in 1..5 /\ 2 \in 1..5 /\ 3 \in 1..5
        /\ 4 \in 1..5 /\ 5 \in 1..5 /\ 2 = 1 + 1 /\ 3 = 2 + 1 /\ 4 = 3 + 1 /\ 5 = 4 + 1
    OBVIOUS
  <2>2. /\ <<4, {"text", ""}>> \in types  OBVIOUS
  <2>3. Fits(body, p, Row(path, types))  BY <1>2, <1>6
  <2> HIDE DEF path, types
  <2>4. Way(body, p, path, types)
    <3>1. Len(path) \in Nat /\ 1 \in 1..Len(path) /\ path[1] \notin {"*", "**"}
          /\ (Len(path) > 1 \/ path[Len(path)] # "**")
      BY <2>1
    <3> QED  BY <1>1, <2>3, <3>1, RowWay
  <2>5. /\ p[1] = "messages" /\ Upto(p, 1) = <<"messages">> /\ Len(p) = 5 /\ Upto(p, 5) = p
        /\ \E i \in DOMAIN Index : Item(Upto(p, 1), i) = Upto(p, 2) /\ Exists(body, Upto(p, 2))
        /\ Append(Upto(p, 2), "content") = Upto(p, 3)
        /\ \E i \in DOMAIN Index : Item(Upto(p, 3), i) = Upto(p, 4) /\ Exists(body, Upto(p, 4))
        /\ Append(Upto(p, 4), "text") = Upto(p, 5)
    BY SMTT(30), <2>1, <2>4 DEF Way
  <2>6. /\ HasType(body, Upto(p, 4), "text") \/ HasType(body, Upto(p, 4), "")
    <3>1. \A t \in types : \E type \in t[2] : HasType(body, Upto(p, t[1]), type)
      BY <2>4 DEF Way
    <3>2. \E type \in {"text", ""} : HasType(body, Upto(p, 4), type)  BY <2>2, <3>1
    <3> QED  BY <3>2
  <2>7. Has(OpenaiPart(body, Upto(p, 4)), p)  BY <1>1, <2>5, <2>6, OpenaiPartHas
  <2>8. Has(OpenaiSegments(body, msg), p)
    <3> HIDE DEF msg
    <3> QED  BY <1>4, <2>5, <2>7 DEF msg
  <2>9. Len(p) > 2  BY <2>5
  <2> QED  BY <1>3, <2>5, <2>8, <2>9 DEF body
<1>7. CASE row = Row(<<"messages", "*", "content", "*", "refusal">>, {<<4, {"refusal"}>>})
  <2> DEFINE path == <<"messages", "*", "content", "*", "refusal">>
             types == {<<4, {"refusal"}>>}
  <2>1. /\ Len(path) = 5 /\ path[1] = "messages" /\ path[2] = "*" /\ path[3] = "content"
        /\ path[4] = "*" /\ path[5] = "refusal" /\ 1 \in 1..5 /\ 2 \in 1..5 /\ 3 \in 1..5
        /\ 4 \in 1..5 /\ 5 \in 1..5 /\ 2 = 1 + 1 /\ 3 = 2 + 1 /\ 4 = 3 + 1 /\ 5 = 4 + 1
    OBVIOUS
  <2>2. /\ <<4, {"refusal"}>> \in types  OBVIOUS
  <2>3. Fits(body, p, Row(path, types))  BY <1>2, <1>7
  <2> HIDE DEF path, types
  <2>4. Way(body, p, path, types)
    <3>1. Len(path) \in Nat /\ 1 \in 1..Len(path) /\ path[1] \notin {"*", "**"}
          /\ (Len(path) > 1 \/ path[Len(path)] # "**")
      BY <2>1
    <3> QED  BY <1>1, <2>3, <3>1, RowWay
  <2>5. /\ p[1] = "messages" /\ Upto(p, 1) = <<"messages">> /\ Len(p) = 5 /\ Upto(p, 5) = p
        /\ \E i \in DOMAIN Index : Item(Upto(p, 1), i) = Upto(p, 2) /\ Exists(body, Upto(p, 2))
        /\ Append(Upto(p, 2), "content") = Upto(p, 3)
        /\ \E i \in DOMAIN Index : Item(Upto(p, 3), i) = Upto(p, 4) /\ Exists(body, Upto(p, 4))
        /\ Append(Upto(p, 4), "refusal") = Upto(p, 5)
    BY SMTT(30), <2>1, <2>4 DEF Way
  <2>6. /\ HasType(body, Upto(p, 4), "refusal")
    <3>1. \A t \in types : \E type \in t[2] : HasType(body, Upto(p, t[1]), type)
      BY <2>4 DEF Way
    <3>2. \E type \in {"refusal"} : HasType(body, Upto(p, 4), type)  BY <2>2, <3>1
    <3> QED  BY <3>2
  <2>7. Has(OpenaiPart(body, Upto(p, 4)), p)  BY <1>1, <2>5, <2>6, OpenaiPartHas
  <2>8. Has(OpenaiSegments(body, msg), p)
    <3> HIDE DEF msg
    <3> QED  BY <1>4, <2>5, <2>7 DEF msg
  <2>9. Len(p) > 2  BY <2>5
  <2> QED  BY <1>3, <2>5, <2>8, <2>9 DEF body
<1>8. CASE row = Row(<<"messages", "*", "refusal">>, {})
  <2> DEFINE path == <<"messages", "*", "refusal">>
             types == {}
  <2>1. /\ Len(path) = 3 /\ path[1] = "messages" /\ path[2] = "*" /\ path[3] = "refusal"
        /\ 1 \in 1..3 /\ 2 \in 1..3 /\ 3 \in 1..3 /\ 2 = 1 + 1 /\ 3 = 2 + 1
    OBVIOUS
  <2>3. Fits(body, p, Row(path, types))  BY <1>2, <1>8
  <2> HIDE DEF path, types
  <2>4. Way(body, p, path, types)
    <3>1. Len(path) \in Nat /\ 1 \in 1..Len(path) /\ path[1] \notin {"*", "**"}
          /\ (Len(path) > 1 \/ path[Len(path)] # "**")
      BY <2>1
    <3> QED  BY <1>1, <2>3, <3>1, RowWay
  <2>5. /\ p[1] = "messages" /\ Upto(p, 1) = <<"messages">> /\ Len(p) = 3 /\ Upto(p, 3) = p
        /\ \E i \in DOMAIN Index : Item(Upto(p, 1), i) = Upto(p, 2) /\ Exists(body, Upto(p, 2))
        /\ Append(Upto(p, 2), "refusal") = Upto(p, 3)
    BY SMTT(30), <2>1, <2>4 DEF Way
  <2>8. Has(OpenaiSegments(body, msg), p)  BY <1>1, <2>5, OpenaiSegmentsHas
  <2>9. Len(p) > 2  BY <2>5
  <2> QED  BY <1>3, <2>5, <2>8, <2>9 DEF body
<1>9. CASE row = Row(<<"messages", "*", "tool_calls", "*", "function", "arguments">>, {})
  <2> DEFINE path == <<"messages", "*", "tool_calls", "*", "function", "arguments">>
             types == {}
  <2>1. /\ Len(path) = 6 /\ path[1] = "messages" /\ path[2] = "*" /\ path[3] = "tool_calls"
        /\ path[4] = "*" /\ path[5] = "function" /\ path[6] = "arguments" /\ 1 \in 1..6
        /\ 2 \in 1..6 /\ 3 \in 1..6 /\ 4 \in 1..6 /\ 5 \in 1..6 /\ 6 \in 1..6 /\ 2 = 1 + 1
        /\ 3 = 2 + 1 /\ 4 = 3 + 1 /\ 5 = 4 + 1 /\ 6 = 5 + 1
    OBVIOUS
  <2>3. Fits(body, p, Row(path, types))  BY <1>2, <1>9
  <2> HIDE DEF path, types
  <2>4. Way(body, p, path, types)
    <3>1. Len(path) \in Nat /\ 1 \in 1..Len(path) /\ path[1] \notin {"*", "**"}
          /\ (Len(path) > 1 \/ path[Len(path)] # "**")
      BY <2>1
    <3> QED  BY <1>1, <2>3, <3>1, RowWay
  <2>5. /\ p[1] = "messages" /\ Upto(p, 1) = <<"messages">> /\ Len(p) = 6 /\ Upto(p, 6) = p
        /\ \E i \in DOMAIN Index : Item(Upto(p, 1), i) = Upto(p, 2) /\ Exists(body, Upto(p, 2))
        /\ Append(Upto(p, 2), "tool_calls") = Upto(p, 3)
        /\ \E i \in DOMAIN Index : Item(Upto(p, 3), i) = Upto(p, 4) /\ Exists(body, Upto(p, 4))
        /\ Append(Upto(p, 4), "function") = Upto(p, 5)
        /\ Append(Upto(p, 5), "arguments") = Upto(p, 6)
        /\ Upto(p, 4) \o <<"function", "arguments">> = Upto(p, 6)
    BY SMTT(30), <2>1, <2>4 DEF Way
  <2>7. Has(ToolCalls(body, msg), p)
    <3> HIDE DEF msg
    <3> QED  BY <1>1, <2>5, ToolCallsHas DEF msg
  <2>8. Has(OpenaiSegments(body, msg), p)
    <3> HIDE DEF msg
    <3> QED  BY <2>7, OpenaiSegmentsHas
  <2>9. Len(p) > 2  BY <2>5
  <2> QED  BY <1>3, <2>5, <2>8, <2>9 DEF body
<1>10. CASE row = Row(<<"messages", "*", "function_call", "arguments">>, {})
  <2> DEFINE path == <<"messages", "*", "function_call", "arguments">>
             types == {}
  <2>1. /\ Len(path) = 4 /\ path[1] = "messages" /\ path[2] = "*"
        /\ path[3] = "function_call" /\ path[4] = "arguments" /\ 1 \in 1..4 /\ 2 \in 1..4
        /\ 3 \in 1..4 /\ 4 \in 1..4 /\ 2 = 1 + 1 /\ 3 = 2 + 1 /\ 4 = 3 + 1
    OBVIOUS
  <2>3. Fits(body, p, Row(path, types))  BY <1>2, <1>10
  <2> HIDE DEF path, types
  <2>4. Way(body, p, path, types)
    <3>1. Len(path) \in Nat /\ 1 \in 1..Len(path) /\ path[1] \notin {"*", "**"}
          /\ (Len(path) > 1 \/ path[Len(path)] # "**")
      BY <2>1
    <3> QED  BY <1>1, <2>3, <3>1, RowWay
  <2>5. /\ p[1] = "messages" /\ Upto(p, 1) = <<"messages">> /\ Len(p) = 4 /\ Upto(p, 4) = p
        /\ \E i \in DOMAIN Index : Item(Upto(p, 1), i) = Upto(p, 2) /\ Exists(body, Upto(p, 2))
        /\ Append(Upto(p, 2), "function_call") = Upto(p, 3)
        /\ Append(Upto(p, 3), "arguments") = Upto(p, 4)
        /\ Upto(p, 2) \o <<"function_call", "arguments">> = Upto(p, 4)
    BY SMTT(30), <2>1, <2>4 DEF Way
  <2>8. Has(OpenaiSegments(body, msg), p)  BY <1>1, <2>5, OpenaiSegmentsHas
  <2>9. Len(p) > 2  BY <2>5
  <2> QED  BY <1>3, <2>5, <2>8, <2>9 DEF body
<1> QED  BY <1>2, <1>5, <1>6, <1>7, <1>8, <1>9, <1>10 DEF OpenaiTable, body

-----------------------------------------------------------------------------
(* What is nothing has nothing.                                            *)
LEMMA HasNothing == ASSUME NEW p PROVE ~Has(<<>>, p)
<1>1. ToSet(<<>>) = {}  BY DEF ToSet
<1> QED  BY <1>1 DEF Has

\* A block of text has its text.
LEMMA TextBlockHas ==
  ASSUME NEW body, NEW here, HasType(body, here, "text"), IsString(body, Append(here, "text"))
  PROVE  Has(TextBlock(body, here), Append(here, "text"))
BY TextAtHas DEF TextBlock, HasType

(* The blocks of a message of /v1/messages, by their types.                *)
LEMMA AnthropicBlockHas ==
  ASSUME NEW body, IsFiniteSet(DOMAIN body), NEW here
  PROVE  LET segments == AnthropicBlock(body, here)
             content == Append(here, "content")
             data == here \o <<"source", "data">>
         IN  /\ HasType(body, here, "text") /\ IsString(body, Append(here, "text"))
                => Has(segments, Append(here, "text"))
             /\ HasType(body, here, "tool_use") =>
                  \A p \in DOMAIN body : IsPrefix(Append(here, "input"), p) /\ IsString(body, p)
                                         => Has(segments, p)
             /\ HasType(body, here, "tool_result") =>
                  /\ IsString(body, content) => Has(segments, content)
                  /\ \A n \in DOMAIN Index : \A p :
                       Exists(body, Item(content, n)) /\ Has(TextBlock(body, Item(content, n)), p)
                       => Has(segments, p)
             /\ /\ HasType(body, here, "document") /\ IsString(body, data)
                /\ IsWord(body, here \o <<"source", "type">>, "text")
                => Has(segments, data)
<1> DEFINE segments == AnthropicBlock(body, here)
           content == Append(here, "content")
           data == here \o <<"source", "data">>
           Type(type) == IsWord(body, Append(here, "type"), type)
<1>1. \A type \in {"text", "tool_use", "tool_result", "document"} :
        HasType(body, here, type) => Type(type)
  BY DEF HasType
<1>2. \A a, b : Type(a) /\ Type(b) => a = b  BY OneType
<1> HIDE DEF Type
<1>3. ASSUME Type("text")
      PROVE  segments = TextAt(body, Append(here, "text"))
  <2>1. ~Type("tool_use") /\ ~Type("tool_result") /\ ~Type("document")  BY <1>2, <1>3
  <2> QED  BY <1>3, <2>1 DEF AnthropicBlock, Type
<1>4. ASSUME Type("tool_use")
      PROVE  segments = Strings(body, Append(here, "input"))
  <2>1. ~Type("text") /\ ~Type("tool_result") /\ ~Type("document")  BY <1>2, <1>4
  <2> QED  BY <1>4, <2>1 DEF AnthropicBlock, Type
<1>5. ASSUME Type("tool_result")
      PROVE  segments = TextAt(body, content) \o Blocks(body, content)
  <2>1. ~Type("text") /\ ~Type("tool_use") /\ ~Type("document")  BY <1>2, <1>5
  <2> QED  BY <1>5, <2>1 DEF AnthropicBlock, Type, Blocks, Each
<1>6. ASSUME Type("document"), IsWord(body, here \o <<"source", "type">>, "text")
      PROVE  segments = TextAt(body, data)
  <2>1. ~Type("text") /\ ~Type("tool_use") /\ ~Type("tool_result")  BY <1>2, <1>6
  <2> QED  BY <1>6, <2>1 DEF AnthropicBlock, Type
<1>7. /\ TextAt(body, content) \in Seq(Segment(body)) /\ Blocks(body, content) \in Seq(Segment(body))
      /\ IsString(body, content) => Has(TextAt(body, content), content)
      /\ \A n \in DOMAIN Index : \A p :
           Exists(body, Item(content, n)) /\ Has(TextBlock(body, Item(content, n)), p)
           => Has(Blocks(body, content), p)
  <2> HIDE DEF content
  <2> QED  BY TextAtHas, BlocksHas
<1> HIDE DEF segments, content, data
<1>8. HasType(body, here, "text") /\ IsString(body, Append(here, "text"))
      => Has(segments, Append(here, "text"))
  BY <1>1, <1>3, TextAtHas
<1>9. HasType(body, here, "tool_use") =>
        \A p \in DOMAIN body : IsPrefix(Append(here, "input"), p) /\ IsString(body, p)
                               => Has(segments, p)
  BY <1>1, <1>4, StringsHas
<1>10. HasType(body, here, "tool_result") =>
         /\ IsString(body, content) => Has(segments, content)
         /\ \A n \in DOMAIN Index : \A p :
              Exists(body, Item(content, n)) /\ Has(TextBlock(body, Item(content, n)), p)
              => Has(segments, p)
  <2>1. \A p : Has(TextAt(body, content), p) \/ Has(Blocks(body, content), p)
               => Has(TextAt(body, content) \o Blocks(body, content), p)
    BY <1>7, HasConcat
  <2> QED  BY <1>1, <1>5, <1>7, <2>1
<1>11. /\ HasType(body, here, "document") /\ IsString(body, data)
       /\ IsWord(body, here \o <<"source", "type">>, "text")
       => Has(segments, data)
  BY <1>1, <1>6, TextAtHas
<1> QED  BY <1>8, <1>9, <1>10, <1>11 DEF segments, content, data

(* The top-level system text, if there is any.                             *)
LEMMA AnthropicSystemSays ==
  ASSUME NEW body
  PROVE  LET extracted == AnthropicSystem(body)
         IN  /\ extracted \in Seq(Message(body))
             /\ IsString(body, <<"system">>) => Says(extracted, <<"system">>, "system")
             /\ \A n \in DOMAIN Index : \A p :
                  LET here == Item(<<"system">>, n)
                  IN  Exists(body, here) /\ Has(TextBlock(body, here), p)
                      => Says(extracted, p, "system")
<1> DEFINE system == <<"system">>
           a == TextAt(body, system)
           b == Blocks(body, system)
           segments == a \o b
<1>1. AnthropicSystem(body) = IF segments = <<>> THEN <<>> ELSE Extracted("system", segments)
  BY DEF AnthropicSystem, Blocks, Each
<1> HIDE DEF system
<1>2. /\ a \in Seq(Segment(body)) /\ b \in Seq(Segment(body))
      /\ IsString(body, system) => Has(a, system)
      /\ \A n \in DOMAIN Index : \A p :
           Exists(body, Item(system, n)) /\ Has(TextBlock(body, Item(system, n)), p) => Has(b, p)
  BY TextAtHas, BlocksHas
<1> HIDE DEF a, b
<1>3. segments \in Seq(Segment(body)) /\ \A p : Has(a, p) \/ Has(b, p) => Has(segments, p)
  BY <1>2, HasConcat
<1> HIDE DEF segments
<1>4. [role |-> "system", segments |-> segments] \in Message(body)  BY <1>3 DEF Message, Speakers
<1>5. /\ Extracted("system", segments) \in Seq(Message(body))
      /\ \A p : Has(segments, p) => Says(Extracted("system", segments), p, "system")
  BY <1>3, <1>4, ExtractedSays
<1>6. AnthropicSystem(body) \in Seq(Message(body))  BY <1>1, <1>5, EmptySeq
<1>7. \A p : Has(segments, p) => Says(AnthropicSystem(body), p, "system")
  BY <1>1, <1>5, HasNothing
<1> QED  BY <1>2, <1>3, <1>6, <1>7 DEF system

(* The messages of a body of /v1/messages, each with its role.             *)
LEMMA ExtractAnthropicSays ==
  ASSUME NEW body, IsFiniteSet(DOMAIN body)
  PROVE  LET extracted == ExtractChat(body, "messages")
         IN  /\ extracted \in Seq(Message(body))
             /\ \A p, role : Says(AnthropicSystem(body), p, role) => Says(extracted, p, role)
             /\ \A n \in DOMAIN Index : \A p :
                  LET here == Item(<<"messages">>, n)
                  IN  Exists(body, here) /\ Has(AnthropicContent(body, here), p)
                      => Says(extracted, p, RoleOf(body, here))
<1> DEFINE At(n) == Item(<<"messages">>, n)
           Piece(n) == Extracted(RoleOf(body, At(n)), AnthropicContent(body, At(n)))
           f == [n \in DOMAIN Index |-> IF Exists(body, At(n)) THEN Piece(n) ELSE <<>>]
           rest == FlattenSeq(f)
           system == AnthropicSystem(body)
           all == system \o rest
<1>1. ASSUME NEW here
      PROVE  ExtractMessage(body, here, "messages")
               = Extracted(RoleOf(body, here), AnthropicContent(body, here))
  BY DEF ExtractMessage, AnthropicContent, Content, Each
<1>2. ExtractChat(body, "messages") = all  BY <1>1 DEF ExtractChat, Each
<1>3. ASSUME NEW n \in DOMAIN Index
      PROVE  /\ Piece(n) \in Seq(Message(body))
             /\ \A p : Has(AnthropicContent(body, At(n)), p) => Says(Piece(n), p, RoleOf(body, At(n)))
  <2>1. AnthropicContent(body, At(n)) \in Seq(Segment(body))  BY AnthropicContentHas
  <2>2. RoleOf(body, At(n)) \in ItemsRoles(body, <<"messages">>)  BY DEF ItemsRoles
  <2> HIDE DEF At
  <2>3. [role |-> RoleOf(body, At(n)), segments |-> AnthropicContent(body, At(n))] \in Message(body)
    BY <2>1, <2>2 DEF Message, Speakers
  <2> QED  BY <2>1, <2>3, ExtractedSays
<1> HIDE DEF At, Piece
<1>4. \A n \in DOMAIN Index : f[n] \in Seq(Message(body))  BY <1>3, EmptySeq
<1>5. /\ f = [n \in DOMAIN Index |-> f[n]]
      /\ \A n \in DOMAIN Index : Exists(body, At(n)) => f[n] = Piece(n)
  OBVIOUS
<1> HIDE DEF f
<1>6. /\ rest \in Seq(Message(body))
      /\ \A n \in DOMAIN Index : \A p, role : Says(f[n], p, role) => Says(rest, p, role)
  BY <1>4, <1>5, EachHas DEF Says
<1>7. system \in Seq(Message(body))  BY AnthropicSystemSays
<1> HIDE DEF rest, system
<1>8. /\ all \in Seq(Message(body))
      /\ \A p, role : Says(system, p, role) \/ Says(rest, p, role) => Says(all, p, role)
  BY <1>6, <1>7, SaysConcat
<1> HIDE DEF all
<1>9. \A n \in DOMAIN Index : \A p :
        Exists(body, At(n)) /\ Has(AnthropicContent(body, At(n)), p)
        => Says(all, p, RoleOf(body, At(n)))
  BY <1>3, <1>5, <1>6, <1>8
<1> QED  BY <1>2, <1>8, <1>9 DEF At, system

(* Every place of the messages table is extracted, from whoever says it.   *)
LEMMA AnthropicCovers ==
  ASSUME NEW c, IsDocument(c.body), NEW p \in Listing(c.body, AnthropicTable)
  PROVE  Says(ExtractChat(c.body, "messages"), p, RoleAt(c, p))
<1> DEFINE T == ToSet(p) \cup {"source", "type"}
           body == c.body
           msg == Upto(p, 2)
           content == Append(msg, "content")
           block == Upto(p, 4)
<1>1. p \in DOMAIN body /\ p \in Seq(T) /\ IsString(body, p) /\ Len(p) \in Nat
  <2>1. p \in DOMAIN body /\ p \in Seq(ToSet(p)) /\ IsString(body, p)  BY DEF Listing, IsDocument
  <2>2. ToSet(p) \subseteq T  OBVIOUS
  <2> QED  BY <2>1, <2>2, SeqMonotonic, LenProperties
<1>2. PICK row \in AnthropicTable : Fits(body, p, row)  BY DEF Listing
<1>a. IsFiniteSet(DOMAIN body) /\ "source" \in T /\ "type" \in T  BY DEF IsDocument
<1> HIDE DEF T, body
<1>3. ASSUME Len(p) > 2, p[1] = "messages", Upto(p, 1) = <<"messages">>,
             \E i \in DOMAIN Index : Item(Upto(p, 1), i) = msg /\ Exists(body, msg),
             Has(AnthropicContent(body, msg), p)
      PROVE  Says(ExtractChat(body, "messages"), p, RoleAt(c, p))
  <2>1. RoleAt(c, p) = RoleOf(body, msg)  BY <1>1, <1>3, MessageRole DEF body
  <2> HIDE DEF msg
  <2> QED  BY <1>3, <1>a, <2>1, ExtractAnthropicSays
<1>4. ASSUME Len(p) > 4, p[1] = "messages", Upto(p, 1) = <<"messages">>,
             \E i \in DOMAIN Index : Item(Upto(p, 1), i) = msg /\ Exists(body, msg),
             \E i \in DOMAIN Index : Item(content, i) = block /\ Exists(body, block),
             Has(AnthropicBlock(body, block), p)
      PROVE  Says(ExtractChat(body, "messages"), p, RoleAt(c, p))
  <2>1. Has(AnthropicContent(body, msg), p)
    <3> HIDE DEF msg, block
    <3> QED  BY <1>4, <1>a, AnthropicContentHas
  <2>2. Len(p) > 2  BY <1>1, <1>4
  <2> QED  BY <1>3, <1>4, <2>1, <2>2
<1>b. ASSUME p[1] = "system", Says(AnthropicSystem(body), p, "system")
      PROVE  Says(ExtractChat(body, "messages"), p, RoleAt(c, p))
  <2>1. RoleAt(c, p) = "system"
    <3>1. p # <<"input">>  BY <1>1, <1>b
    <3> QED  BY <1>b, <3>1 DEF RoleAt
  <2> QED  BY <1>a, <1>b, <2>1, ExtractAnthropicSays
<1>5. CASE row = Row(<<"system">>, {})
  <2> DEFINE path == <<"system">>
             types == {}
  <2>1. /\ Len(path) = 1 /\ path[1] = "system" /\ 1 \in 1..1
    OBVIOUS
  <2>3. Fits(body, p, Row(path, types))  BY <1>2, <1>5
  <2> HIDE DEF path, types
  <2>4. Way(body, p, path, types)
    <3>1. Len(path) \in Nat /\ 1 \in 1..Len(path) /\ path[1] \notin {"*", "**"}
          /\ (Len(path) > 1 \/ path[Len(path)] # "**")
      BY <2>1
    <3> QED  BY <1>1, <2>3, <3>1, RowWay
  <2>5. /\ p[1] = "system" /\ Upto(p, 1) = <<"system">> /\ Len(p) = 1 /\ Upto(p, 1) = p
    BY SMTT(30), <2>1, <2>4 DEF Way
  <2>7. Says(AnthropicSystem(body), p, "system")  BY <1>1, <2>5, AnthropicSystemSays
  <2> QED  BY <1>b, <2>5, <2>7 DEF body
<1>6. CASE row = Row(<<"system", "*", "text">>, {<<2, {"text"}>>})
  <2> DEFINE path == <<"system", "*", "text">>
             types == {<<2, {"text"}>>}
  <2>1. /\ Len(path) = 3 /\ path[1] = "system" /\ path[2] = "*" /\ path[3] = "text"
        /\ 1 \in 1..3 /\ 2 \in 1..3 /\ 3 \in 1..3 /\ 2 = 1 + 1 /\ 3 = 2 + 1
    OBVIOUS
  <2>2. /\ <<2, {"text"}>> \in types  OBVIOUS
  <2>3. Fits(body, p, Row(path, types))  BY <1>2, <1>6
  <2> HIDE DEF path, types
  <2>4. Way(body, p, path, types)
    <3>1. Len(path) \in Nat /\ 1 \in 1..Len(path) /\ path[1] \notin {"*", "**"}
          /\ (Len(path) > 1 \/ path[Len(path)] # "**")
      BY <2>1
    <3> QED  BY <1>1, <2>3, <3>1, RowWay
  <2>5. /\ p[1] = "system" /\ Upto(p, 1) = <<"system">> /\ Len(p) = 3 /\ Upto(p, 3) = p
        /\ \E i \in DOMAIN Index : Item(Upto(p, 1), i) = Upto(p, 2) /\ Exists(body, Upto(p, 2))
        /\ Append(Upto(p, 2), "text") = Upto(p, 3)
    BY SMTT(30), <2>1, <2>4 DEF Way
  <2>6. /\ HasType(body, Upto(p, 2), "text")
    <3>1. \A t \in types : \E type \in t[2] : HasType(body, Upto(p, t[1]), type)
      BY <2>4 DEF Way
    <3>2. \E type \in {"text"} : HasType(body, Upto(p, 2), type)  BY <2>2, <3>1
    <3> QED  BY <3>2
  <2>7. Has(TextBlock(body, Upto(p, 2)), p)  BY <1>1, <2>5, <2>6, TextBlockHas
  <2>8. Says(AnthropicSystem(body), p, "system")  BY <2>5, <2>7, AnthropicSystemSays
  <2> QED  BY <1>b, <2>5, <2>8 DEF body
<1>7. CASE row = Row(<<"messages", "*", "content">>, {})
  <2> DEFINE path == <<"messages", "*", "content">>
             types == {}
  <2>1. /\ Len(path) = 3 /\ path[1] = "messages" /\ path[2] = "*" /\ path[3] = "content"
        /\ 1 \in 1..3 /\ 2 \in 1..3 /\ 3 \in 1..3 /\ 2 = 1 + 1 /\ 3 = 2 + 1
    OBVIOUS
  <2>3. Fits(body, p, Row(path, types))  BY <1>2, <1>7
  <2> HIDE DEF path, types
  <2>4. Way(body, p, path, types)
    <3>1. Len(path) \in Nat /\ 1 \in 1..Len(path) /\ path[1] \notin {"*", "**"}
          /\ (Len(path) > 1 \/ path[Len(path)] # "**")
      BY <2>1
    <3> QED  BY <1>1, <2>3, <3>1, RowWay
  <2>5. /\ p[1] = "messages" /\ Upto(p, 1) = <<"messages">> /\ Len(p) = 3 /\ Upto(p, 3) = p
        /\ \E i \in DOMAIN Index : Item(Upto(p, 1), i) = Upto(p, 2) /\ Exists(body, Upto(p, 2))
        /\ Append(Upto(p, 2), "content") = Upto(p, 3)
    BY SMTT(30), <2>1, <2>4 DEF Way
  <2>7. Has(AnthropicContent(body, msg), p)  BY <1>1, <1>a, <2>5, AnthropicContentHas
  <2>8. Len(p) > 2  BY <2>5
  <2> QED  BY <1>3, <2>5, <2>7, <2>8 DEF body
<1>8. CASE row = Row(<<"messages", "*", "content", "*", "text">>, {<<4, {"text"}>>})
  <2> DEFINE path == <<"messages", "*", "content", "*", "text">>
             types == {<<4, {"text"}>>}
  <2>1. /\ Len(path) = 5 /\ path[1] = "messages" /\ path[2] = "*" /\ path[3] = "content"
        /\ path[4] = "*" /\ path[5] = "text" /\ 1 \in 1..5 /\ 2 \in 1..5 /\ 3 \in 1..5
        /\ 4 \in 1..5 /\ 5 \in 1..5 /\ 2 = 1 + 1 /\ 3 = 2 + 1 /\ 4 = 3 + 1 /\ 5 = 4 + 1
    OBVIOUS
  <2>2. /\ <<4, {"text"}>> \in types  OBVIOUS
  <2>3. Fits(body, p, Row(path, types))  BY <1>2, <1>8
  <2> HIDE DEF path, types
  <2>4. Way(body, p, path, types)
    <3>1. Len(path) \in Nat /\ 1 \in 1..Len(path) /\ path[1] \notin {"*", "**"}
          /\ (Len(path) > 1 \/ path[Len(path)] # "**")
      BY <2>1
    <3> QED  BY <1>1, <2>3, <3>1, RowWay
  <2>5. /\ p[1] = "messages" /\ Upto(p, 1) = <<"messages">> /\ Len(p) = 5 /\ Upto(p, 5) = p
        /\ \E i \in DOMAIN Index : Item(Upto(p, 1), i) = Upto(p, 2) /\ Exists(body, Upto(p, 2))
        /\ Append(Upto(p, 2), "content") = Upto(p, 3)
        /\ \E i \in DOMAIN Index : Item(Upto(p, 3), i) = Upto(p, 4) /\ Exists(body, Upto(p, 4))
        /\ Append(Upto(p, 4), "text") = Upto(p, 5)
    BY SMTT(30), <2>1, <2>4 DEF Way
  <2>6. /\ HasType(body, Upto(p, 4), "text")
    <3>1. \A t \in types : \E type \in t[2] : HasType(body, Upto(p, t[1]), type)
      BY <2>4 DEF Way
    <3>2. \E type \in {"text"} : HasType(body, Upto(p, 4), type)  BY <2>2, <3>1
    <3> QED  BY <3>2
  <2>7. Has(AnthropicBlock(body, block), p)  BY <1>1, <1>a, <2>5, <2>6, AnthropicBlockHas
  <2>8. Len(p) > 4  BY <2>5
  <2> QED  BY <1>4, <2>5, <2>7, <2>8 DEF body
<1>9. CASE row = Row(<<"messages", "*", "content", "*", "input", "**">>, {<<4, {"tool_use"}>>})
  <2> DEFINE path == <<"messages", "*", "content", "*", "input", "**">>
             types == {<<4, {"tool_use"}>>}
  <2>1. /\ Len(path) = 6 /\ path[1] = "messages" /\ path[2] = "*" /\ path[3] = "content"
        /\ path[4] = "*" /\ path[5] = "input" /\ path[6] = "**" /\ 1 \in 1..6 /\ 2 \in 1..6
        /\ 3 \in 1..6 /\ 4 \in 1..6 /\ 5 \in 1..6 /\ 6 \in 1..6 /\ 2 = 1 + 1 /\ 3 = 2 + 1
        /\ 4 = 3 + 1 /\ 5 = 4 + 1 /\ 6 = 5 + 1
    OBVIOUS
  <2>2. /\ <<4, {"tool_use"}>> \in types  OBVIOUS
  <2>3. Fits(body, p, Row(path, types))  BY <1>2, <1>9
  <2> HIDE DEF path, types
  <2>4. Way(body, p, path, types)
    <3>1. Len(path) \in Nat /\ 1 \in 1..Len(path) /\ path[1] \notin {"*", "**"}
          /\ (Len(path) > 1 \/ path[Len(path)] # "**")
      BY <2>1
    <3> QED  BY <1>1, <2>3, <3>1, RowWay
  <2>5. /\ p[1] = "messages" /\ Upto(p, 1) = <<"messages">> /\ Len(p) >= 5
        /\ \E i \in DOMAIN Index : Item(Upto(p, 1), i) = Upto(p, 2) /\ Exists(body, Upto(p, 2))
        /\ Append(Upto(p, 2), "content") = Upto(p, 3)
        /\ \E i \in DOMAIN Index : Item(Upto(p, 3), i) = Upto(p, 4) /\ Exists(body, Upto(p, 4))
        /\ Append(Upto(p, 4), "input") = Upto(p, 5)
    BY SMTT(30), <2>1, <2>4 DEF Way
  <2>6. /\ HasType(body, Upto(p, 4), "tool_use")
    <3>1. \A t \in types : \E type \in t[2] : HasType(body, Upto(p, t[1]), type)
      BY <2>4 DEF Way
    <3>2. \E type \in {"tool_use"} : HasType(body, Upto(p, 4), type)  BY <2>2, <3>1
    <3> QED  BY <3>2
  <2>7. Has(AnthropicBlock(body, block), p)
    <3>1. IsPrefix(Upto(p, 5), p)  BY <1>1, <2>5, UptoPrefix
    <3> QED  BY <1>1, <1>a, <2>5, <2>6, <3>1, AnthropicBlockHas
  <2>8. Len(p) > 4  BY <2>5
  <2> QED  BY <1>4, <2>5, <2>7, <2>8 DEF body
<1>10. CASE row = Row(<<"messages", "*", "content", "*", "content">>, {<<4, {"tool_result"}>>})
  <2> DEFINE path == <<"messages", "*", "content", "*", "content">>
             types == {<<4, {"tool_result"}>>}
  <2>1. /\ Len(path) = 5 /\ path[1] = "messages" /\ path[2] = "*" /\ path[3] = "content"
        /\ path[4] = "*" /\ path[5] = "content" /\ 1 \in 1..5 /\ 2 \in 1..5 /\ 3 \in 1..5
        /\ 4 \in 1..5 /\ 5 \in 1..5 /\ 2 = 1 + 1 /\ 3 = 2 + 1 /\ 4 = 3 + 1 /\ 5 = 4 + 1
    OBVIOUS
  <2>2. /\ <<4, {"tool_result"}>> \in types  OBVIOUS
  <2>3. Fits(body, p, Row(path, types))  BY <1>2, <1>10
  <2> HIDE DEF path, types
  <2>4. Way(body, p, path, types)
    <3>1. Len(path) \in Nat /\ 1 \in 1..Len(path) /\ path[1] \notin {"*", "**"}
          /\ (Len(path) > 1 \/ path[Len(path)] # "**")
      BY <2>1
    <3> QED  BY <1>1, <2>3, <3>1, RowWay
  <2>5. /\ p[1] = "messages" /\ Upto(p, 1) = <<"messages">> /\ Len(p) = 5 /\ Upto(p, 5) = p
        /\ \E i \in DOMAIN Index : Item(Upto(p, 1), i) = Upto(p, 2) /\ Exists(body, Upto(p, 2))
        /\ Append(Upto(p, 2), "content") = Upto(p, 3)
        /\ \E i \in DOMAIN Index : Item(Upto(p, 3), i) = Upto(p, 4) /\ Exists(body, Upto(p, 4))
        /\ Append(Upto(p, 4), "content") = Upto(p, 5)
    BY SMTT(30), <2>1, <2>4 DEF Way
  <2>6. /\ HasType(body, Upto(p, 4), "tool_result")
    <3>1. \A t \in types : \E type \in t[2] : HasType(body, Upto(p, t[1]), type)
      BY <2>4 DEF Way
    <3>2. \E type \in {"tool_result"} : HasType(body, Upto(p, 4), type)  BY <2>2, <3>1
    <3> QED  BY <3>2
  <2>7. Has(AnthropicBlock(body, block), p)  BY <1>1, <1>a, <2>5, <2>6, AnthropicBlockHas
  <2>8. Len(p) > 4  BY <2>5
  <2> QED  BY <1>4, <2>5, <2>7, <2>8 DEF body
<1>11. CASE row = Row(<<"messages", "*", "content", "*", "content", "*", "text">>,
                    {<<4, {"tool_result"}>>, <<6, {"text"}>>})
  <2> DEFINE path == <<"messages", "*", "content", "*", "content", "*", "text">>
             types == {<<4, {"tool_result"}>>, <<6, {"text"}>>}
  <2>1. /\ Len(path) = 7 /\ path[1] = "messages" /\ path[2] = "*" /\ path[3] = "content"
        /\ path[4] = "*" /\ path[5] = "content" /\ path[6] = "*" /\ path[7] = "text"
        /\ 1 \in 1..7 /\ 2 \in 1..7 /\ 3 \in 1..7 /\ 4 \in 1..7 /\ 5 \in 1..7 /\ 6 \in 1..7
        /\ 7 \in 1..7 /\ 2 = 1 + 1 /\ 3 = 2 + 1 /\ 4 = 3 + 1 /\ 5 = 4 + 1 /\ 6 = 5 + 1
        /\ 7 = 6 + 1
    OBVIOUS
  <2>2. /\ <<4, {"tool_result"}>> \in types /\ <<6, {"text"}>> \in types  OBVIOUS
  <2>3. Fits(body, p, Row(path, types))  BY <1>2, <1>11
  <2> HIDE DEF path, types
  <2>4. Way(body, p, path, types)
    <3>1. Len(path) \in Nat /\ 1 \in 1..Len(path) /\ path[1] \notin {"*", "**"}
          /\ (Len(path) > 1 \/ path[Len(path)] # "**")
      BY <2>1
    <3> QED  BY <1>1, <2>3, <3>1, RowWay
  <2>5. /\ p[1] = "messages" /\ Upto(p, 1) = <<"messages">> /\ Len(p) = 7 /\ Upto(p, 7) = p
        /\ \E i \in DOMAIN Index : Item(Upto(p, 1), i) = Upto(p, 2) /\ Exists(body, Upto(p, 2))
        /\ Append(Upto(p, 2), "content") = Upto(p, 3)
        /\ \E i \in DOMAIN Index : Item(Upto(p, 3), i) = Upto(p, 4) /\ Exists(body, Upto(p, 4))
        /\ Append(Upto(p, 4), "content") = Upto(p, 5)
        /\ \E i \in DOMAIN Index : Item(Upto(p, 5), i) = Upto(p, 6) /\ Exists(body, Upto(p, 6))
        /\ Append(Upto(p, 6), "text") = Upto(p, 7)
    BY SMTT(30), <2>1, <2>4 DEF Way
  <2>6. /\ HasType(body, Upto(p, 4), "tool_result")
        /\ HasType(body, Upto(p, 6), "text")
    <3>1. \A t \in types : \E type \in t[2] : HasType(body, Upto(p, t[1]), type)
      BY <2>4 DEF Way
    <3>2. \E type \in {"tool_result"} : HasType(body, Upto(p, 4), type)  BY <2>2, <3>1
    <3>3. \E type \in {"text"} : HasType(body, Upto(p, 6), type)  BY <2>2, <3>1
    <3> QED  BY <3>2, <3>3
  <2>7. Has(AnthropicBlock(body, block), p)
    <3>1. Has(TextBlock(body, Upto(p, 6)), p)  BY <1>1, <2>5, <2>6, TextBlockHas
    <3> HIDE DEF block
    <3> QED  BY <1>a, <2>5, <2>6, <3>1, AnthropicBlockHas DEF block
  <2>8. Len(p) > 4  BY <2>5
  <2> QED  BY <1>4, <2>5, <2>7, <2>8 DEF body
<1>12. CASE row = Row(<<"messages", "*", "content", "*", "source", "data">>,
                    {<<4, {"document"}>>, <<5, {"text"}>>})
  <2> DEFINE path == <<"messages", "*", "content", "*", "source", "data">>
             types == {<<4, {"document"}>>, <<5, {"text"}>>}
  <2>1. /\ Len(path) = 6 /\ path[1] = "messages" /\ path[2] = "*" /\ path[3] = "content"
        /\ path[4] = "*" /\ path[5] = "source" /\ path[6] = "data" /\ 1 \in 1..6
        /\ 2 \in 1..6 /\ 3 \in 1..6 /\ 4 \in 1..6 /\ 5 \in 1..6 /\ 6 \in 1..6 /\ 2 = 1 + 1
        /\ 3 = 2 + 1 /\ 4 = 3 + 1 /\ 5 = 4 + 1 /\ 6 = 5 + 1
    OBVIOUS
  <2>2. /\ <<4, {"document"}>> \in types /\ <<5, {"text"}>> \in types  OBVIOUS
  <2>3. Fits(body, p, Row(path, types))  BY <1>2, <1>12
  <2> HIDE DEF path, types
  <2>4. Way(body, p, path, types)
    <3>1. Len(path) \in Nat /\ 1 \in 1..Len(path) /\ path[1] \notin {"*", "**"}
          /\ (Len(path) > 1 \/ path[Len(path)] # "**")
      BY <2>1
    <3> QED  BY <1>1, <2>3, <3>1, RowWay
  <2>5. /\ p[1] = "messages" /\ Upto(p, 1) = <<"messages">> /\ Len(p) = 6 /\ Upto(p, 6) = p
        /\ \E i \in DOMAIN Index : Item(Upto(p, 1), i) = Upto(p, 2) /\ Exists(body, Upto(p, 2))
        /\ Append(Upto(p, 2), "content") = Upto(p, 3)
        /\ \E i \in DOMAIN Index : Item(Upto(p, 3), i) = Upto(p, 4) /\ Exists(body, Upto(p, 4))
        /\ Append(Upto(p, 4), "source") = Upto(p, 5)
        /\ Append(Upto(p, 5), "data") = Upto(p, 6)
        /\ Upto(p, 4) \o <<"source", "data">> = Upto(p, 6)
    BY SMTT(30), <2>1, <2>4 DEF Way
  <2>6. /\ HasType(body, Upto(p, 4), "document")
        /\ HasType(body, Upto(p, 5), "text")
    <3>1. \A t \in types : \E type \in t[2] : HasType(body, Upto(p, t[1]), type)
      BY <2>4 DEF Way
    <3>2. \E type \in {"document"} : HasType(body, Upto(p, 4), type)  BY <2>2, <3>1
    <3>3. \E type \in {"text"} : HasType(body, Upto(p, 5), type)  BY <2>2, <3>1
    <3> QED  BY <3>2, <3>3
  <2>7. Has(AnthropicBlock(body, block), p)
    <3>1. block \in Seq(T)  BY <1>1, <2>5, UptoNext
    <3>2. block \o <<"source", "type">> = Append(Append(block, "source"), "type")
      BY <1>a, <3>1, ConcatTwo
    <3>3. IsWord(body, block \o <<"source", "type">>, "text")  BY <2>5, <2>6, <3>2 DEF HasType
    <3> HIDE DEF block
    <3> QED  BY <1>1, <1>a, <2>5, <2>6, <3>3, AnthropicBlockHas DEF block
  <2>8. Len(p) > 4  BY <2>5
  <2> QED  BY <1>4, <2>5, <2>7, <2>8 DEF body
<1> QED  BY <1>2, <1>5, <1>6, <1>7, <1>8, <1>9, <1>10, <1>11, <1>12 DEF AnthropicTable, body

-----------------------------------------------------------------------------
(* The parts of a message of /v1/responses, by their types.                *)
LEMMA ResponsesPartHas ==
  ASSUME NEW body, NEW here
  PROVE  /\ /\ \E type \in {"input_text", "output_text", "text"} : HasType(body, here, type)
            /\ IsString(body, Append(here, "text"))
            => Has(ResponsesPart(body, here), Append(here, "text"))
         /\ HasType(body, here, "refusal") /\ IsString(body, Append(here, "refusal"))
            => Has(ResponsesPart(body, here), Append(here, "refusal"))
<1> DEFINE Type(type) == IsWord(body, Append(here, "type"), type)
<1>1. \A a, b : Type(a) /\ Type(b) => a = b  BY OneType
<1>2. \A type \in {"input_text", "output_text", "text", "refusal"} :
        HasType(body, here, type) => Type(type)
  BY DEF HasType
<1>3. ASSUME \E type \in {"input_text", "output_text", "text"} : Type(type)
      PROVE  ResponsesPart(body, here) = TextAt(body, Append(here, "text"))
  <2>1. ~Type("refusal") /\ ~Type("input_image")
    <3> HIDE DEF Type
    <3> QED  BY <1>1, <1>3
  <2> QED  BY <1>3, <2>1 DEF ResponsesPart
<1>4. ASSUME Type("refusal")
      PROVE  ResponsesPart(body, here) = TextAt(body, Append(here, "refusal"))
  <2>1. ~Type("input_text") /\ ~Type("output_text") /\ ~Type("text") /\ ~Type("input_image")
    <3> HIDE DEF Type
    <3> QED  BY <1>1, <1>4
  <2> QED  BY <1>4, <2>1 DEF ResponsesPart
<1> HIDE DEF Type
<1> QED  BY <1>2, <1>3, <1>4, TextAtHas

\* The texts of a tool's output.
OutputTexts(body, here) ==
  Each(body, Append(here, "output"), LAMBDA part : TextAt(body, Append(part, "text")))

\* The outputs of a call have their texts.
LEMMA OutputTextsHas ==
  ASSUME NEW body, NEW here
  PROVE  /\ OutputTexts(body, here) \in Seq(Segment(body))
         /\ \A n \in DOMAIN Index :
              LET part == Item(Append(here, "output"), n)
              IN  Exists(body, part) /\ IsString(body, Append(part, "text"))
                  => Has(OutputTexts(body, here), Append(part, "text"))
<1> DEFINE output == Append(here, "output")
           Text(n) == Append(Item(output, n), "text")
           f == [n \in DOMAIN Index |->
                   IF Exists(body, Item(output, n)) THEN TextAt(body, Text(n)) ELSE <<>>]
<1>1. OutputTexts(body, here) = FlattenSeq(f)  BY DEF OutputTexts, Each
<1> HIDE DEF output, Text
<1>2. \A n \in DOMAIN Index : f[n] \in Seq(Segment(body))  BY TextAtHas, EmptySeq
<1>3. /\ f = [n \in DOMAIN Index |-> f[n]]
      /\ \A n \in DOMAIN Index : Exists(body, Item(output, n)) => f[n] = TextAt(body, Text(n))
  OBVIOUS
<1> HIDE DEF f
<1>4. /\ FlattenSeq(f) \in Seq(Segment(body))
      /\ \A n \in DOMAIN Index : \A p : Has(f[n], p) => Has(FlattenSeq(f), p)
  BY <1>2, <1>3, EachHas DEF Has
<1>5. \A n \in DOMAIN Index :
        Exists(body, Item(output, n)) /\ IsString(body, Text(n)) => Has(OutputTexts(body, here), Text(n))
  BY <1>1, <1>3, <1>4, TextAtHas
<1> QED  BY <1>1, <1>4, <1>5 DEF output, Text

(* An item of the input, by its type, and who says it.                     *)
LEMMA ResponsesItemType ==
  ASSUME NEW body, NEW n \in DOMAIN Index
  PROVE  ResponsesItem(body, Item(<<"input">>, n)) \in Seq(Message(body))
<1> DEFINE here == Item(<<"input">>, n)
           message == Extracted(RoleOf(body, here), ResponsesContent(body, here))
           call == Extracted("assistant", TextAt(body, Append(here, "arguments")))
           texts == TextAt(body, Append(here, "output")) \o OutputTexts(body, here)
           result == Extracted("tool", texts)
<1>1. RoleOf(body, here) \in ItemsRoles(body, <<"input">>)  BY DEF ItemsRoles
<1>2. ResponsesItem(body, here) \in {message, call, result, <<>>}
  BY DEF ResponsesItem, ResponsesContent, OutputTexts, Content, Each
<1> HIDE DEF here
<1>3. /\ ResponsesContent(body, here) \in Seq(Segment(body))
      /\ TextAt(body, Append(here, "arguments")) \in Seq(Segment(body))
      /\ texts \in Seq(Segment(body))
  BY ResponsesContentHas, TextAtHas, OutputTextsHas, HasConcat
<1> HIDE DEF texts
<1>4. \A role \in {"assistant", "tool", RoleOf(body, here)} : \A segments \in Seq(Segment(body)) :
        [role |-> role, segments |-> segments] \in Message(body)
  BY <1>1 DEF Message, Speakers
<1>5. message \in Seq(Message(body)) /\ call \in Seq(Message(body)) /\ result \in Seq(Message(body))
  BY <1>3, <1>4, ExtractedSays
<1> HIDE DEF message, call, result
<1> QED  BY <1>2, <1>5, EmptySeq DEF here

\* What an item of the input says, by its type.
LEMMA ResponsesItemSays ==
  ASSUME NEW body, NEW n \in DOMAIN Index
  PROVE  LET here == Item(<<"input">>, n)
             said == ResponsesItem(body, here)
             output == Append(here, "output")
         IN  /\ HasType(body, here, "message") \/ HasType(body, here, "") =>
                  \A p : Has(ResponsesContent(body, here), p) => Says(said, p, RoleOf(body, here))
             /\ HasType(body, here, "function_call") /\ IsString(body, Append(here, "arguments"))
                => Says(said, Append(here, "arguments"), "assistant")
             /\ HasType(body, here, "function_call_output") =>
                  /\ IsString(body, output) => Says(said, output, "tool")
                  /\ \A p : Has(OutputTexts(body, here), p) => Says(said, p, "tool")
<1> DEFINE here == Item(<<"input">>, n)
           said == ResponsesItem(body, here)
           output == Append(here, "output")
           Type(type) == IsWord(body, Append(here, "type"), type)
           texts == TextAt(body, output) \o OutputTexts(body, here)
<1>1. \A a, b : Type(a) /\ Type(b) => a = b  BY OneType
<1>2. /\ \A type \in {"message", "function_call", "function_call_output"} :
           /\ HasType(body, here, type) => Type(type)
           /\ Type(type) => IsString(body, Append(here, "type"))
      /\ HasType(body, here, "") => ~IsString(body, Append(here, "type"))
  BY WordIsString DEF HasType
<1>3. RoleOf(body, here) \in ItemsRoles(body, <<"input">>)  BY DEF ItemsRoles
<1> HIDE DEF here
<1>4. ASSUME HasType(body, here, "message") \/ HasType(body, here, "")
      PROVE  said = Extracted(RoleOf(body, here), ResponsesContent(body, here))
  <2>1. /\ ~Type("function_call") /\ ~Type("function_call_output")
        /\ IsMessage(body, here)
    <3>1. ~IsString(body, Append(here, "type")) \/ Type("message")  BY <1>2, <1>4
    <3>2. ~Type("function_call") /\ ~Type("function_call_output")
      <4> HIDE DEF Type
      <4> QED  BY <1>1, <1>2, <3>1
    <3> QED  BY <3>1, <3>2 DEF IsMessage
  <2> QED  BY <2>1 DEF ResponsesItem, ResponsesContent, Content, Each
<1>5. ASSUME HasType(body, here, "function_call")
      PROVE  said = Extracted("assistant", TextAt(body, Append(here, "arguments")))
  <2>1. /\ Type("function_call") /\ ~Type("message") /\ ~Type("function_call_output")
        /\ IsString(body, Append(here, "type"))
    <3> HIDE DEF Type
    <3> QED  BY <1>1, <1>2, <1>5
  <2>2. ~IsMessage(body, here)  BY <2>1 DEF IsMessage
  <2> QED  BY <2>1, <2>2 DEF ResponsesItem
<1>6. ASSUME HasType(body, here, "function_call_output")
      PROVE  said = Extracted("tool", texts)
  <2>1. /\ Type("function_call_output") /\ ~Type("message") /\ ~Type("function_call")
        /\ IsString(body, Append(here, "type"))
    <3> HIDE DEF Type
    <3> QED  BY <1>1, <1>2, <1>6
  <2>2. ~IsMessage(body, here)  BY <2>1 DEF IsMessage
  <2> QED  BY <2>1, <2>2 DEF ResponsesItem, OutputTexts, Each
<1> HIDE DEF said, output
<1>7. /\ ResponsesContent(body, here) \in Seq(Segment(body))
      /\ TextAt(body, Append(here, "arguments")) \in Seq(Segment(body))
      /\ texts \in Seq(Segment(body))
      /\ IsString(body, output) => Has(texts, output)
      /\ \A p : Has(OutputTexts(body, here), p) => Has(texts, p)
  BY ResponsesContentHas, TextAtHas, OutputTextsHas, HasConcat
<1> HIDE DEF texts
<1>8. \A role \in {"assistant", "tool", RoleOf(body, here)} : \A segments \in Seq(Segment(body)) :
        [role |-> role, segments |-> segments] \in Message(body)
  BY <1>3 DEF Message, Speakers
<1>9. \A role \in {"assistant", "tool", RoleOf(body, here)} : \A segments \in Seq(Segment(body)) :
        \A p : Has(segments, p) => Says(Extracted(role, segments), p, role)
  BY <1>8, ExtractedSays
<1>10. HasType(body, here, "message") \/ HasType(body, here, "") =>
         \A p : Has(ResponsesContent(body, here), p) => Says(said, p, RoleOf(body, here))
  BY <1>4, <1>7, <1>9
<1>11. HasType(body, here, "function_call") /\ IsString(body, Append(here, "arguments"))
       => Says(said, Append(here, "arguments"), "assistant")
  BY <1>5, <1>7, <1>9, TextAtHas
<1>12. HasType(body, here, "function_call_output") =>
         /\ IsString(body, output) => Says(said, output, "tool")
         /\ \A p : Has(OutputTexts(body, here), p) => Says(said, p, "tool")
  BY <1>6, <1>7, <1>9
<1> QED  BY <1>10, <1>11, <1>12 DEF here, said, output

(* The messages of a body of /v1/responses, each with its role.            *)
LEMMA ExtractResponsesSays ==
  ASSUME NEW body
  PROVE  LET extracted == ExtractResponses(body)
         IN  /\ extracted \in Seq(Message(body))
             /\ IsString(body, <<"instructions">>) => Says(extracted, <<"instructions">>, "system")
             /\ IsString(body, <<"input">>) => Says(extracted, <<"input">>, "user")
             /\ \A n \in DOMAIN Index : \A p, role :
                  LET here == Item(<<"input">>, n)
                  IN  Exists(body, here) /\ Says(ResponsesItem(body, here), p, role)
                      => Says(extracted, p, role)
<1> DEFINE At(n) == Item(<<"input">>, n)
           instructions == <<"instructions">>
           input == <<"input">>
           f == [n \in DOMAIN Index |->
                   IF Exists(body, At(n)) THEN ResponsesItem(body, At(n)) ELSE <<>>]
           own == TextAt(body, instructions)
           users == TextAt(body, input)
           a == IF own = <<>> THEN <<>> ELSE Extracted("system", own)
           b == IF IsString(body, input) THEN Extracted("user", users) ELSE <<>>
           rest == FlattenSeq(f)
           all == a \o b \o rest
<1>1. ExtractResponses(body) = all  BY DEF ExtractResponses, Each
<1>2. \A n \in DOMAIN Index : f[n] \in Seq(Message(body))  BY ResponsesItemType, EmptySeq
<1>3. /\ f = [n \in DOMAIN Index |-> f[n]]
      /\ \A n \in DOMAIN Index : Exists(body, At(n)) => f[n] = ResponsesItem(body, At(n))
  OBVIOUS
<1> HIDE DEF f, At, instructions, input
<1>4. /\ rest \in Seq(Message(body))
      /\ \A n \in DOMAIN Index : \A p, role : Says(f[n], p, role) => Says(rest, p, role)
  BY <1>2, <1>3, EachHas DEF Says
<1>5. /\ own \in Seq(Segment(body)) /\ users \in Seq(Segment(body))
      /\ IsString(body, instructions) => Has(own, instructions)
      /\ IsString(body, input) => Has(users, input)
  BY TextAtHas
<1> HIDE DEF rest, own, users
<1>6. \A role \in {"system", "user"} : \A segments \in Seq(Segment(body)) :
        [role |-> role, segments |-> segments] \in Message(body)
  BY DEF Message, Speakers
<1>7. \A role \in {"system", "user"} : \A segments \in Seq(Segment(body)) :
        /\ Extracted(role, segments) \in Seq(Message(body))
        /\ \A p : Has(segments, p) => Says(Extracted(role, segments), p, role)
  BY <1>6, ExtractedSays
<1>8. /\ a \in Seq(Message(body))
      /\ IsString(body, instructions) => Says(a, instructions, "system")
  BY <1>5, <1>7, EmptySeq, HasNothing
<1>9. /\ b \in Seq(Message(body))
      /\ IsString(body, input) => Says(b, input, "user")
  BY <1>5, <1>7, EmptySeq
<1> HIDE DEF a, b
<1>10. /\ a \o b \in Seq(Message(body))
       /\ \A p, role : Says(a, p, role) \/ Says(b, p, role) => Says(a \o b, p, role)
  BY <1>8, <1>9, SaysConcat
<1>11. /\ a \o b \o rest \in Seq(Message(body))
       /\ \A p, role : Says(a \o b, p, role) \/ Says(rest, p, role) => Says(a \o b \o rest, p, role)
  BY <1>4, <1>10, SaysConcat
<1>12. /\ all \in Seq(Message(body))
       /\ \A p, role : Says(a, p, role) \/ Says(b, p, role) \/ Says(rest, p, role)
                       => Says(all, p, role)
  BY <1>10, <1>11
<1> HIDE DEF all
<1>13. \A n \in DOMAIN Index : \A p, role :
         Exists(body, At(n)) /\ Says(ResponsesItem(body, At(n)), p, role) => Says(all, p, role)
  BY <1>3, <1>4, <1>12
<1>14. /\ IsString(body, instructions) => Says(all, instructions, "system")
       /\ IsString(body, input) => Says(all, input, "user")
  BY <1>8, <1>9, <1>12
<1> QED  BY <1>1, <1>12, <1>13, <1>14 DEF At, instructions, input

(* Who says what an item of the input has.                                 *)
LEMMA ItemRole ==
  ASSUME NEW c, NEW T, NEW p \in Seq(T), Len(p) > 1, p[1] = "input"
  PROVE  LET item == Upto(p, 2)
         IN  /\ HasType(c.body, item, "message") \/ HasType(c.body, item, "")
                => RoleAt(c, p) = RoleOf(c.body, item)
             /\ HasType(c.body, item, "function_call") => RoleAt(c, p) = "assistant"
             /\ HasType(c.body, item, "function_call_output") => RoleAt(c, p) = "tool"
<1> DEFINE item == Upto(p, 2)
           Type(type) == HasType(c.body, item, type)
           type == Append(item, "type")
<1>1. p # <<"input">> /\ p[1] \notin {"system", "instructions"}
  <2>1. Len(<<"input">>) = 1  OBVIOUS
  <2>2. Len(p) \in Nat  BY LenProperties
  <2> QED  BY <2>1, <2>2
<1>2. \A a, b : IsWord(c.body, type, a) /\ IsWord(c.body, type, b) => a = b  BY OneType
<1>3. \A word \in {"function_call", "function_call_output", "message"} :
        IsWord(c.body, type, word) => IsString(c.body, type)
  BY WordIsString
<1>4. /\ Type("message") \/ Type("") => ~Type("function_call") /\ ~Type("function_call_output")
      /\ Type("function_call") => ~Type("function_call_output")
  <2>1. /\ \A word \in {"function_call", "function_call_output", "message"} :
             Type(word) <=> IsWord(c.body, type, word)
        /\ Type("") <=> ~IsString(c.body, type)
    BY DEF HasType
  <2> HIDE DEF Type, type
  <2> QED  BY <1>2, <1>3, <2>1
<1>5. RoleAt(c, p) = CASE Type("function_call") -> "assistant"
                       [] Type("function_call_output") -> "tool"
                       [] OTHER -> RoleOf(c.body, item)
  BY <1>1, <1>4 DEF RoleAt, RoleOf, Upto
<1> HIDE DEF Type
<1>6. /\ Type("message") \/ Type("") => RoleAt(c, p) = RoleOf(c.body, item)
      /\ Type("function_call") => RoleAt(c, p) = "assistant"
      /\ Type("function_call_output") => RoleAt(c, p) = "tool"
  BY <1>4, <1>5
<1> QED  BY <1>6 DEF Type

(* Every place of the responses table is extracted, from whoever says it.  *)
LEMMA ResponsesCovers ==
  ASSUME NEW c, IsDocument(c.body), NEW p \in Listing(c.body, ResponsesTable)
  PROVE  Says(ExtractResponses(c.body), p, RoleAt(c, p))
<1> DEFINE T == ToSet(p)
           body == c.body
           item == Upto(p, 2)
           content == Append(item, "content")
<1>1. p \in DOMAIN body /\ p \in Seq(T) /\ IsString(body, p) /\ Len(p) \in Nat
  BY LenProperties DEF Listing, IsDocument
<1>2. PICK row \in ResponsesTable : Fits(body, p, row)  BY DEF Listing
<1>r. Len(p) > 1 /\ p[1] = "input" =>
        /\ HasType(body, item, "message") \/ HasType(body, item, "")
           => RoleAt(c, p) = RoleOf(body, item)
        /\ HasType(body, item, "function_call") => RoleAt(c, p) = "assistant"
        /\ HasType(body, item, "function_call_output") => RoleAt(c, p) = "tool"
  BY <1>1, ItemRole
<1> HIDE DEF T, body
<1>3. ASSUME Len(p) > 1, p[1] = "input", Upto(p, 1) = <<"input">>,
             \E i \in DOMAIN Index : Item(Upto(p, 1), i) = item /\ Exists(body, item),
             Says(ResponsesItem(body, item), p, RoleAt(c, p))
      PROVE  Says(ExtractResponses(body), p, RoleAt(c, p))
  <2> HIDE DEF item
  <2> QED  BY <1>3, ExtractResponsesSays
<1>4. ASSUME Len(p) > 1, p[1] = "input", Upto(p, 1) = <<"input">>,
             \E i \in DOMAIN Index : Item(Upto(p, 1), i) = item /\ Exists(body, item),
             HasType(body, item, "message") \/ HasType(body, item, ""),
             Has(ResponsesContent(body, item), p)
      PROVE  Says(ExtractResponses(body), p, RoleAt(c, p))
  <2>1. RoleAt(c, p) = RoleOf(body, item)  BY <1>r, <1>4
  <2>2. Says(ResponsesItem(body, item), p, RoleOf(body, item))
    <3> HIDE DEF item
    <3> QED  BY <1>4, ResponsesItemSays
  <2> QED  BY <1>3, <1>4, <2>1, <2>2
<1>5. \A n \in DOMAIN Index : \A q :
        Exists(body, Item(content, n)) /\ Has(ResponsesPart(body, Item(content, n)), q)
        => Has(ResponsesContent(body, item), q)
  <2> HIDE DEF item
  <2> QED  BY ResponsesContentHas
<1>6. CASE row = Row(<<"instructions">>, {})
  <2> DEFINE path == <<"instructions">>
             types == {}
  <2>1. /\ Len(path) = 1 /\ path[1] = "instructions" /\ 1 \in 1..1
    OBVIOUS
  <2>3. Fits(body, p, Row(path, types))  BY <1>2, <1>6
  <2> HIDE DEF path, types
  <2>4. Way(body, p, path, types)
    <3>1. Len(path) \in Nat /\ 1 \in 1..Len(path) /\ path[1] \notin {"*", "**"}
          /\ (Len(path) > 1 \/ path[Len(path)] # "**")
      BY <2>1
    <3> QED  BY <1>1, <2>3, <3>1, RowWay
  <2>5. /\ p[1] = "instructions" /\ Upto(p, 1) = <<"instructions">> /\ Len(p) = 1 /\ Upto(p, 1) = p
    BY SMTT(30), <2>1, <2>4 DEF Way
  <2>7. RoleAt(c, p) = "system"
    <3>1. p # <<"input">>  BY <1>1, <2>5
    <3> QED  BY <2>5, <3>1 DEF RoleAt
  <2> QED  BY <1>1, <2>5, <2>7, ExtractResponsesSays DEF body
<1>7. CASE row = Row(<<"input">>, {})
  <2> DEFINE path == <<"input">>
             types == {}
  <2>1. /\ Len(path) = 1 /\ path[1] = "input" /\ 1 \in 1..1
    OBVIOUS
  <2>3. Fits(body, p, Row(path, types))  BY <1>2, <1>7
  <2> HIDE DEF path, types
  <2>4. Way(body, p, path, types)
    <3>1. Len(path) \in Nat /\ 1 \in 1..Len(path) /\ path[1] \notin {"*", "**"}
          /\ (Len(path) > 1 \/ path[Len(path)] # "**")
      BY <2>1
    <3> QED  BY <1>1, <2>3, <3>1, RowWay
  <2>5. /\ p[1] = "input" /\ Upto(p, 1) = <<"input">> /\ Len(p) = 1 /\ Upto(p, 1) = p
    BY SMTT(30), <2>1, <2>4 DEF Way
  <2>7. p = <<"input">> /\ p[1] \notin {"system", "instructions"}  BY <2>5
  <2>8. RoleAt(c, p) = "user"
    <3>1. Len(p) = 1  BY <2>5
    <3> QED  BY <2>7, <3>1 DEF RoleAt
  <2> QED  BY <1>1, <2>5, <2>8, ExtractResponsesSays DEF body
<1>8. CASE row = Row(<<"input", "*", "content">>, {<<2, {"message", ""}>>})
  <2> DEFINE path == <<"input", "*", "content">>
             types == {<<2, {"message", ""}>>}
  <2>1. /\ Len(path) = 3 /\ path[1] = "input" /\ path[2] = "*" /\ path[3] = "content"
        /\ 1 \in 1..3 /\ 2 \in 1..3 /\ 3 \in 1..3 /\ 2 = 1 + 1 /\ 3 = 2 + 1
    OBVIOUS
  <2>2. /\ <<2, {"message", ""}>> \in types  OBVIOUS
  <2>3. Fits(body, p, Row(path, types))  BY <1>2, <1>8
  <2> HIDE DEF path, types
  <2>4. Way(body, p, path, types)
    <3>1. Len(path) \in Nat /\ 1 \in 1..Len(path) /\ path[1] \notin {"*", "**"}
          /\ (Len(path) > 1 \/ path[Len(path)] # "**")
      BY <2>1
    <3> QED  BY <1>1, <2>3, <3>1, RowWay
  <2>5. /\ p[1] = "input" /\ Upto(p, 1) = <<"input">> /\ Len(p) = 3 /\ Upto(p, 3) = p
        /\ \E i \in DOMAIN Index : Item(Upto(p, 1), i) = Upto(p, 2) /\ Exists(body, Upto(p, 2))
        /\ Append(Upto(p, 2), "content") = Upto(p, 3)
    BY SMTT(30), <2>1, <2>4 DEF Way
  <2>6. /\ HasType(body, Upto(p, 2), "message") \/ HasType(body, Upto(p, 2), "")
    <3>1. \A t \in types : \E type \in t[2] : HasType(body, Upto(p, t[1]), type)
      BY <2>4 DEF Way
    <3>2. \E type \in {"message", ""} : HasType(body, Upto(p, 2), type)  BY <2>2, <3>1
    <3> QED  BY <3>2
  <2>7. Has(ResponsesContent(body, item), p)  BY <1>1, <2>5, ResponsesContentHas
  <2>8. Len(p) > 1  BY <2>5
  <2> QED  BY <1>4, <2>5, <2>6, <2>7, <2>8 DEF body
<1>9. CASE row = Row(<<"input", "*", "content", "*", "text">>,
                    {<<2, {"message", ""}>>, <<4, {"input_text", "output_text", "text"}>>})
  <2> DEFINE path == <<"input", "*", "content", "*", "text">>
             types == {<<2, {"message", ""}>>, <<4, {"input_text", "output_text", "text"}>>}
  <2>1. /\ Len(path) = 5 /\ path[1] = "input" /\ path[2] = "*" /\ path[3] = "content"
        /\ path[4] = "*" /\ path[5] = "text" /\ 1 \in 1..5 /\ 2 \in 1..5 /\ 3 \in 1..5
        /\ 4 \in 1..5 /\ 5 \in 1..5 /\ 2 = 1 + 1 /\ 3 = 2 + 1 /\ 4 = 3 + 1 /\ 5 = 4 + 1
    OBVIOUS
  <2>2. /\ <<2, {"message", ""}>> \in types
        /\ <<4, {"input_text", "output_text", "text"}>> \in types  OBVIOUS
  <2>3. Fits(body, p, Row(path, types))  BY <1>2, <1>9
  <2> HIDE DEF path, types
  <2>4. Way(body, p, path, types)
    <3>1. Len(path) \in Nat /\ 1 \in 1..Len(path) /\ path[1] \notin {"*", "**"}
          /\ (Len(path) > 1 \/ path[Len(path)] # "**")
      BY <2>1
    <3> QED  BY <1>1, <2>3, <3>1, RowWay
  <2>5. /\ p[1] = "input" /\ Upto(p, 1) = <<"input">> /\ Len(p) = 5 /\ Upto(p, 5) = p
        /\ \E i \in DOMAIN Index : Item(Upto(p, 1), i) = Upto(p, 2) /\ Exists(body, Upto(p, 2))
        /\ Append(Upto(p, 2), "content") = Upto(p, 3)
        /\ \E i \in DOMAIN Index : Item(Upto(p, 3), i) = Upto(p, 4) /\ Exists(body, Upto(p, 4))
        /\ Append(Upto(p, 4), "text") = Upto(p, 5)
    BY SMTT(30), <2>1, <2>4 DEF Way
  <2>6. /\ HasType(body, Upto(p, 2), "message") \/ HasType(body, Upto(p, 2), "")
        /\ \/ HasType(body, Upto(p, 4), "input_text")
           \/ HasType(body, Upto(p, 4), "output_text")
           \/ HasType(body, Upto(p, 4), "text")
    <3>1. \A t \in types : \E type \in t[2] : HasType(body, Upto(p, t[1]), type)
      BY <2>4 DEF Way
    <3>2. \E type \in {"message", ""} : HasType(body, Upto(p, 2), type)  BY <2>2, <3>1
    <3>3. \E type \in {"input_text", "output_text", "text"} : HasType(body, Upto(p, 4), type)  BY <2>2, <3>1
    <3> QED  BY <3>2, <3>3
  <2>7. Has(ResponsesPart(body, Upto(p, 4)), p)  BY <1>1, <2>5, <2>6, ResponsesPartHas
  <2>8. Has(ResponsesContent(body, item), p)
    <3> HIDE DEF item
    <3> QED  BY <1>5, <2>5, <2>7 DEF item
  <2>9. Len(p) > 1  BY <2>5
  <2> QED  BY <1>4, <2>5, <2>6, <2>8, <2>9 DEF body
<1>10. CASE row = Row(<<"input", "*", "content", "*", "refusal">>,
                    {<<2, {"message", ""}>>, <<4, {"refusal"}>>})
  <2> DEFINE path == <<"input", "*", "content", "*", "refusal">>
             types == {<<2, {"message", ""}>>, <<4, {"refusal"}>>}
  <2>1. /\ Len(path) = 5 /\ path[1] = "input" /\ path[2] = "*" /\ path[3] = "content"
        /\ path[4] = "*" /\ path[5] = "refusal" /\ 1 \in 1..5 /\ 2 \in 1..5 /\ 3 \in 1..5
        /\ 4 \in 1..5 /\ 5 \in 1..5 /\ 2 = 1 + 1 /\ 3 = 2 + 1 /\ 4 = 3 + 1 /\ 5 = 4 + 1
    OBVIOUS
  <2>2. /\ <<2, {"message", ""}>> \in types /\ <<4, {"refusal"}>> \in types  OBVIOUS
  <2>3. Fits(body, p, Row(path, types))  BY <1>2, <1>10
  <2> HIDE DEF path, types
  <2>4. Way(body, p, path, types)
    <3>1. Len(path) \in Nat /\ 1 \in 1..Len(path) /\ path[1] \notin {"*", "**"}
          /\ (Len(path) > 1 \/ path[Len(path)] # "**")
      BY <2>1
    <3> QED  BY <1>1, <2>3, <3>1, RowWay
  <2>5. /\ p[1] = "input" /\ Upto(p, 1) = <<"input">> /\ Len(p) = 5 /\ Upto(p, 5) = p
        /\ \E i \in DOMAIN Index : Item(Upto(p, 1), i) = Upto(p, 2) /\ Exists(body, Upto(p, 2))
        /\ Append(Upto(p, 2), "content") = Upto(p, 3)
        /\ \E i \in DOMAIN Index : Item(Upto(p, 3), i) = Upto(p, 4) /\ Exists(body, Upto(p, 4))
        /\ Append(Upto(p, 4), "refusal") = Upto(p, 5)
    BY SMTT(30), <2>1, <2>4 DEF Way
  <2>6. /\ HasType(body, Upto(p, 2), "message") \/ HasType(body, Upto(p, 2), "")
        /\ HasType(body, Upto(p, 4), "refusal")
    <3>1. \A t \in types : \E type \in t[2] : HasType(body, Upto(p, t[1]), type)
      BY <2>4 DEF Way
    <3>2. \E type \in {"message", ""} : HasType(body, Upto(p, 2), type)  BY <2>2, <3>1
    <3>3. \E type \in {"refusal"} : HasType(body, Upto(p, 4), type)  BY <2>2, <3>1
    <3> QED  BY <3>2, <3>3
  <2>7. Has(ResponsesPart(body, Upto(p, 4)), p)  BY <1>1, <2>5, <2>6, ResponsesPartHas
  <2>8. Has(ResponsesContent(body, item), p)
    <3> HIDE DEF item
    <3> QED  BY <1>5, <2>5, <2>7 DEF item
  <2>9. Len(p) > 1  BY <2>5
  <2> QED  BY <1>4, <2>5, <2>6, <2>8, <2>9 DEF body
<1>11. CASE row = Row(<<"input", "*", "arguments">>, {<<2, {"function_call"}>>})
  <2> DEFINE path == <<"input", "*", "arguments">>
             types == {<<2, {"function_call"}>>}
  <2>1. /\ Len(path) = 3 /\ path[1] = "input" /\ path[2] = "*" /\ path[3] = "arguments"
        /\ 1 \in 1..3 /\ 2 \in 1..3 /\ 3 \in 1..3 /\ 2 = 1 + 1 /\ 3 = 2 + 1
    OBVIOUS
  <2>2. /\ <<2, {"function_call"}>> \in types  OBVIOUS
  <2>3. Fits(body, p, Row(path, types))  BY <1>2, <1>11
  <2> HIDE DEF path, types
  <2>4. Way(body, p, path, types)
    <3>1. Len(path) \in Nat /\ 1 \in 1..Len(path) /\ path[1] \notin {"*", "**"}
          /\ (Len(path) > 1 \/ path[Len(path)] # "**")
      BY <2>1
    <3> QED  BY <1>1, <2>3, <3>1, RowWay
  <2>5. /\ p[1] = "input" /\ Upto(p, 1) = <<"input">> /\ Len(p) = 3 /\ Upto(p, 3) = p
        /\ \E i \in DOMAIN Index : Item(Upto(p, 1), i) = Upto(p, 2) /\ Exists(body, Upto(p, 2))
        /\ Append(Upto(p, 2), "arguments") = Upto(p, 3)
    BY SMTT(30), <2>1, <2>4 DEF Way
  <2>6. /\ HasType(body, Upto(p, 2), "function_call")
    <3>1. \A t \in types : \E type \in t[2] : HasType(body, Upto(p, t[1]), type)
      BY <2>4 DEF Way
    <3>2. \E type \in {"function_call"} : HasType(body, Upto(p, 2), type)  BY <2>2, <3>1
    <3> QED  BY <3>2
  <2>7. Says(ResponsesItem(body, item), p, "assistant")
    <3> HIDE DEF item
    <3> QED  BY <1>1, <2>5, <2>6, ResponsesItemSays DEF item
  <2>8. Len(p) > 1  BY <2>5
  <2>9. RoleAt(c, p) = "assistant"  BY <1>r, <2>5, <2>6, <2>8
  <2> QED  BY <1>3, <2>5, <2>7, <2>8, <2>9 DEF body
<1>12. CASE row = Row(<<"input", "*", "output">>, {<<2, {"function_call_output"}>>})
  <2> DEFINE path == <<"input", "*", "output">>
             types == {<<2, {"function_call_output"}>>}
  <2>1. /\ Len(path) = 3 /\ path[1] = "input" /\ path[2] = "*" /\ path[3] = "output"
        /\ 1 \in 1..3 /\ 2 \in 1..3 /\ 3 \in 1..3 /\ 2 = 1 + 1 /\ 3 = 2 + 1
    OBVIOUS
  <2>2. /\ <<2, {"function_call_output"}>> \in types  OBVIOUS
  <2>3. Fits(body, p, Row(path, types))  BY <1>2, <1>12
  <2> HIDE DEF path, types
  <2>4. Way(body, p, path, types)
    <3>1. Len(path) \in Nat /\ 1 \in 1..Len(path) /\ path[1] \notin {"*", "**"}
          /\ (Len(path) > 1 \/ path[Len(path)] # "**")
      BY <2>1
    <3> QED  BY <1>1, <2>3, <3>1, RowWay
  <2>5. /\ p[1] = "input" /\ Upto(p, 1) = <<"input">> /\ Len(p) = 3 /\ Upto(p, 3) = p
        /\ \E i \in DOMAIN Index : Item(Upto(p, 1), i) = Upto(p, 2) /\ Exists(body, Upto(p, 2))
        /\ Append(Upto(p, 2), "output") = Upto(p, 3)
    BY SMTT(30), <2>1, <2>4 DEF Way
  <2>6. /\ HasType(body, Upto(p, 2), "function_call_output")
    <3>1. \A t \in types : \E type \in t[2] : HasType(body, Upto(p, t[1]), type)
      BY <2>4 DEF Way
    <3>2. \E type \in {"function_call_output"} : HasType(body, Upto(p, 2), type)  BY <2>2, <3>1
    <3> QED  BY <3>2
  <2>7. Says(ResponsesItem(body, item), p, "tool")
    <3> HIDE DEF item
    <3> QED  BY <1>1, <2>5, <2>6, ResponsesItemSays DEF item
  <2>8. Len(p) > 1  BY <2>5
  <2>9. RoleAt(c, p) = "tool"  BY <1>r, <2>5, <2>6, <2>8
  <2> QED  BY <1>3, <2>5, <2>7, <2>8, <2>9 DEF body
<1>13. CASE row = Row(<<"input", "*", "output", "*", "text">>, {<<2, {"function_call_output"}>>})
  <2> DEFINE path == <<"input", "*", "output", "*", "text">>
             types == {<<2, {"function_call_output"}>>}
  <2>1. /\ Len(path) = 5 /\ path[1] = "input" /\ path[2] = "*" /\ path[3] = "output"
        /\ path[4] = "*" /\ path[5] = "text" /\ 1 \in 1..5 /\ 2 \in 1..5 /\ 3 \in 1..5
        /\ 4 \in 1..5 /\ 5 \in 1..5 /\ 2 = 1 + 1 /\ 3 = 2 + 1 /\ 4 = 3 + 1 /\ 5 = 4 + 1
    OBVIOUS
  <2>2. /\ <<2, {"function_call_output"}>> \in types  OBVIOUS
  <2>3. Fits(body, p, Row(path, types))  BY <1>2, <1>13
  <2> HIDE DEF path, types
  <2>4. Way(body, p, path, types)
    <3>1. Len(path) \in Nat /\ 1 \in 1..Len(path) /\ path[1] \notin {"*", "**"}
          /\ (Len(path) > 1 \/ path[Len(path)] # "**")
      BY <2>1
    <3> QED  BY <1>1, <2>3, <3>1, RowWay
  <2>5. /\ p[1] = "input" /\ Upto(p, 1) = <<"input">> /\ Len(p) = 5 /\ Upto(p, 5) = p
        /\ \E i \in DOMAIN Index : Item(Upto(p, 1), i) = Upto(p, 2) /\ Exists(body, Upto(p, 2))
        /\ Append(Upto(p, 2), "output") = Upto(p, 3)
        /\ \E i \in DOMAIN Index : Item(Upto(p, 3), i) = Upto(p, 4) /\ Exists(body, Upto(p, 4))
        /\ Append(Upto(p, 4), "text") = Upto(p, 5)
    BY SMTT(30), <2>1, <2>4 DEF Way
  <2>6. /\ HasType(body, Upto(p, 2), "function_call_output")
    <3>1. \A t \in types : \E type \in t[2] : HasType(body, Upto(p, t[1]), type)
      BY <2>4 DEF Way
    <3>2. \E type \in {"function_call_output"} : HasType(body, Upto(p, 2), type)  BY <2>2, <3>1
    <3> QED  BY <3>2
  <2>7. Says(ResponsesItem(body, item), p, "tool")
    <3> HIDE DEF item
    <3>1. Has(OutputTexts(body, Upto(p, 2)), p)
      <4> DEFINE part == Upto(p, 4)
      <4> HIDE DEF part
      <4> QED  BY <1>1, <2>5, OutputTextsHas DEF part
    <3> QED  BY <2>5, <2>6, <3>1, ResponsesItemSays DEF item
  <2>8. Len(p) > 1  BY <2>5
  <2>9. RoleAt(c, p) = "tool"  BY <1>r, <2>5, <2>6, <2>8
  <2> QED  BY <1>3, <2>5, <2>7, <2>8, <2>9 DEF body
<1> QED  BY <1>2, <1>6, <1>7, <1>8, <1>9, <1>10, <1>11, <1>12, <1>13 DEF ResponsesTable, body

-----------------------------------------------------------------------------
(* The texts of a request: each word that someone says is in the text that  *)
(* the stages look at.                                                     *)
Piece(W) == [image : BOOLEAN, text : Seq(W)]
Turns(R, W) == Seq([role : R, parts : Seq(Piece(W))])

\* What is said, but for images.
SpokenWords(parts) == UNION {ToSet(q.text) : q \in {p \in ToSet(parts) : ~p.image}}
Spoken(messages)   == UNION {SpokenWords(messages[i].parts) : i \in DOMAIN messages}

(* Newlines between texts leave nothing out, and nothing else is added.     *)
LEMMA JoinHolds ==
  ASSUME NEW W, "\n" \in W, NEW texts \in Seq(Seq(W))
  PROVE  /\ Join(texts) \in Seq(W)
         /\ \A i \in DOMAIN texts : ToSet(texts[i]) \subseteq ToSet(Join(texts))
         /\ \A x \in ToSet(Join(texts)) : x = "\n" \/ \E i \in DOMAIN texts : x \in ToSet(texts[i])
<1> DEFINE newline == <<"\n">>
           f == [i \in DOMAIN texts |-> IF i = 1 THEN texts[i] ELSE newline \o texts[i]]
<1>1. Join(texts) = FlattenSeq(f)  BY DEF Join
<1>2. newline \in Seq(W) /\ ToSet(newline) = {"\n"}  BY DEF ToSet
<1>3. Len(texts) \in Nat /\ DOMAIN texts = 1..Len(texts) /\ \A i \in DOMAIN texts : texts[i] \in Seq(W)
  BY LenProperties, ElementOfSeq
<1> HIDE DEF newline
<1>4. ASSUME NEW i \in DOMAIN texts
      PROVE  /\ f[i] \in Seq(W) /\ ToSet(texts[i]) \subseteq ToSet(f[i])
             /\ ToSet(f[i]) \subseteq ToSet(texts[i]) \cup {"\n"}
  <2>1. /\ newline \o texts[i] \in Seq(W)
        /\ ToSet(newline \o texts[i]) = ToSet(newline) \cup ToSet(texts[i])
    BY <1>2, <1>3, ConcatHolds
  <2> QED  BY <1>2, <1>3, <2>1
<1>5. f \in [1..Len(texts) -> Seq(W)] /\ DOMAIN f = DOMAIN texts  BY <1>3, <1>4
<1> HIDE DEF f
<1>6. f \in Seq(Seq(W))  BY <1>3, <1>5, FunctionIsSequence
<1>7. \A x : x \in ToSet(FlattenSeq(f)) <=> \E i \in DOMAIN f : x \in ToSet(f[i])
  BY <1>6, FlattenHolds
<1> QED  BY <1>1, <1>4, <1>5, <1>6, <1>7, FlattenType

(* A message's texts, those of its parts that are no images.               *)
LEMMA TextsHold ==
  ASSUME NEW W, NEW message, message.parts \in Seq(Piece(W))
  PROVE  /\ Texts(message) \in Seq(Seq(W))
         /\ \A i \in DOMAIN Texts(message) :
              ToSet(Texts(message)[i]) \subseteq SpokenWords(message.parts)
         /\ \A w \in SpokenWords(message.parts) :
              \E i \in DOMAIN Texts(message) : w \in ToSet(Texts(message)[i])
<1> DEFINE parts == message.parts
           wanted == {p \in ToSet(parts) : ~p.image}
           texts == Only(parts, wanted)
           all == [i \in DOMAIN texts |-> texts[i].text]
<1>1. Texts(message) = all  BY DEF Texts
<1> HIDE DEF wanted
<1>2. texts \in Seq(Piece(W)) /\ ToSet(texts) = ToSet(parts) \cap wanted
  BY OnlyType, OnlyHolds
<1> HIDE DEF texts
<1>3. /\ Len(texts) \in Nat /\ DOMAIN texts = 1..Len(texts)
      /\ \A i \in DOMAIN texts : texts[i] \in Piece(W)
  BY <1>2, LenProperties, ElementOfSeq
<1>4. \A i \in DOMAIN texts : texts[i].text \in Seq(W)  BY <1>3 DEF Piece
<1>5. all \in [1..Len(texts) -> Seq(W)]  BY <1>3, <1>4
<1>6. all \in Seq(Seq(W)) /\ DOMAIN all = DOMAIN texts /\ \A i \in DOMAIN all : all[i] = texts[i].text
  BY <1>3, <1>5, FunctionIsSequence
<1>7. ToSet(texts) = {p \in ToSet(parts) : ~p.image}  BY <1>2 DEF wanted
<1> HIDE DEF all, parts
<1>8. ASSUME NEW i \in DOMAIN all PROVE ToSet(all[i]) \subseteq SpokenWords(parts)
  <2>1. texts[i] \in ToSet(texts)  BY <1>6 DEF ToSet
  <2> QED  BY <1>6, <1>7, <2>1 DEF SpokenWords
<1>9. ASSUME NEW w \in SpokenWords(parts) PROVE \E i \in DOMAIN all : w \in ToSet(all[i])
  <2>1. PICK q \in ToSet(texts) : w \in ToSet(q.text)  BY <1>7 DEF SpokenWords
  <2>2. PICK i \in DOMAIN texts : texts[i] = q  BY DEF ToSet
  <2> QED  BY <1>6, <2>1, <2>2
<1> QED  BY <1>1, <1>6, <1>8, <1>9 DEF parts

\* A message's text has the words of its pieces, and line breaks.
LEMMA AsTextHolds ==
  ASSUME NEW W, "\n" \in W, NEW message, message.parts \in Seq(Piece(W))
  PROVE  /\ AsText(message) \in Seq(W)
         /\ SpokenWords(message.parts) \subseteq ToSet(AsText(message))
         /\ ToSet(AsText(message)) \subseteq SpokenWords(message.parts) \cup {"\n"}
<1> DEFINE texts == Texts(message)
<1>1. AsText(message) = Join(texts)  BY DEF AsText, Texts
<1>2. /\ texts \in Seq(Seq(W))
      /\ \A i \in DOMAIN texts : ToSet(texts[i]) \subseteq SpokenWords(message.parts)
      /\ \A w \in SpokenWords(message.parts) : \E i \in DOMAIN texts : w \in ToSet(texts[i])
  BY TextsHold
<1> HIDE DEF texts
<1>3. /\ Join(texts) \in Seq(W)
      /\ \A i \in DOMAIN texts : ToSet(texts[i]) \subseteq ToSet(Join(texts))
      /\ \A x \in ToSet(Join(texts)) : x = "\n" \/ \E i \in DOMAIN texts : x \in ToSet(texts[i])
  BY <1>2, JoinHolds
<1> QED  BY <1>1, <1>2, <1>3

\* The text of all messages has all their words, and line breaks.
LEMMA AllTextHolds ==
  ASSUME NEW R, NEW W, "\n" \in W, NEW messages \in Turns(R, W)
  PROVE  /\ AllText(messages) \in Seq(W)
         /\ Spoken(messages) \subseteq ToSet(AllText(messages))
         /\ ToSet(AllText(messages)) \subseteq Spoken(messages) \cup {"\n"}
<1> DEFINE f == [i \in DOMAIN messages |-> AsText(messages[i])]
<1>1. AllText(messages) = Join(f)  BY DEF AllText
<1>2. /\ Len(messages) \in Nat /\ DOMAIN messages = 1..Len(messages)
      /\ \A i \in DOMAIN messages : messages[i].parts \in Seq(Piece(W))
  <2> DEFINE Turn == [role : R, parts : Seq(Piece(W))]
  <2>1. messages \in Seq(Turn)  BY DEF Turns
  <2>2. \A m \in Turn : m.parts \in Seq(Piece(W))  OBVIOUS
  <2> HIDE DEF Turn
  <2> QED  BY <2>1, <2>2, LenProperties, ElementOfSeq
<1>3. \A i \in DOMAIN messages :
        /\ AsText(messages[i]) \in Seq(W)
        /\ SpokenWords(messages[i].parts) \subseteq ToSet(AsText(messages[i]))
        /\ ToSet(AsText(messages[i])) \subseteq SpokenWords(messages[i].parts) \cup {"\n"}
  BY <1>2, AsTextHolds
<1>4. f \in [1..Len(messages) -> Seq(W)]  BY <1>2, <1>3
<1>5. f \in Seq(Seq(W)) /\ DOMAIN f = DOMAIN messages /\ \A i \in DOMAIN f : f[i] = AsText(messages[i])
  BY <1>2, <1>4, FunctionIsSequence
<1> HIDE DEF f
<1>6. /\ Join(f) \in Seq(W)
      /\ \A i \in DOMAIN f : ToSet(f[i]) \subseteq ToSet(Join(f))
      /\ \A x \in ToSet(Join(f)) : x = "\n" \/ \E i \in DOMAIN f : x \in ToSet(f[i])
  BY <1>5, JoinHolds
<1>7. Spoken(messages) \subseteq ToSet(Join(f))  BY <1>3, <1>5, <1>6 DEF Spoken
<1>8. ToSet(Join(f)) \subseteq Spoken(messages) \cup {"\n"}
  <2> SUFFICES ASSUME NEW x \in ToSet(Join(f)), x # "\n" PROVE x \in Spoken(messages)  OBVIOUS
  <2>1. PICK i \in DOMAIN f : x \in ToSet(f[i])  BY <1>6
  <2>2. i \in DOMAIN messages /\ x \in SpokenWords(messages[i].parts)  BY <1>3, <1>5, <2>1
  <2> QED  BY <2>2 DEF Spoken
<1> QED  BY <1>1, <1>6, <1>7, <1>8

-----------------------------------------------------------------------------
(* The passes of a redactor over a word.                                   *)
\* Its entities are in a sequence.
Ordered(pii) == Len(pii.entities) \in Nat /\ DOMAIN pii.entities = 1..Len(pii.entities)

\* What the recursive function in After says of itself, of the first n.
Passes(f, pii, word, n) ==
  f = [i \in 0..n |-> IF i = 0 THEN word
                      ELSE IF Hits(pii, pii.entities[i], f[i - 1])
                        THEN Replaced(pii, pii.entities[i], f[i - 1])
                        ELSE f[i - 1]]

\* One more pass can be told.
LEMMA PassesExtended ==
  ASSUME NEW pii, NEW word, NEW n \in Nat, NEW f, Passes(f, pii, word, n)
  PROVE  \E g : Passes(g, pii, word, n + 1)
<1> DEFINE next(h, i) == IF i = 0 THEN word
                         ELSE IF Hits(pii, pii.entities[i], h[i - 1])
                           THEN Replaced(pii, pii.entities[i], h[i - 1])
                           ELSE h[i - 1]
           g == [i \in 0..n+1 |-> next(f, i)]
           h == [i \in 0..n+1 |-> next(g, i)]
<1>1. f = [i \in 0..n |-> next(f, i)]  BY DEF Passes
<1>2. \A x, y, i : x[i - 1] = y[i - 1] => next(x, i) = next(y, i)  OBVIOUS
<1>3. \A x, y : next(x, 0) = next(y, 0)  OBVIOUS
<1> HIDE DEF next
<1>4. ASSUME NEW i \in 0..n PROVE g[i] = f[i]
  <2>1. f[i] = next(f, i)  BY <1>1, Zenon
  <2>2. i \in 0..n+1  OBVIOUS
  <2> QED  BY <2>1, <2>2
<1>5. ASSUME NEW i \in 0..n+1 PROVE g[i] = h[i]
  <2>1. g[i] = next(f, i)  OBVIOUS
  <2> HIDE DEF g
  <2>2. h[i] = next(g, i)  OBVIOUS
  <2>3. CASE i = 0  BY <1>3, <2>1, <2>2, <2>3
  <2>4. CASE i # 0
    <3>1. i - 1 \in 0..n  BY <2>4
    <3>2. g[i - 1] = f[i - 1]  BY <1>4, <3>1
    <3> QED  BY <1>2, <2>1, <2>2, <3>2
  <2> QED  BY <2>3, <2>4
<1>6. g = [i \in 0..n+1 |-> g[i]]  OBVIOUS
<1>7. h = [i \in 0..n+1 |-> h[i]]
  <2> HIDE DEF g
  <2> QED  OBVIOUS
<1>8. g = h
  <2> HIDE DEF g, h
  <2> QED  BY <1>5, <1>6, <1>7
<1>9. Passes(g, pii, word, n + 1)
  <2> HIDE DEF g
  <2> QED  BY <1>8 DEF Passes, next
<1> QED  BY <1>9

\* All passes can.
LEMMA PassesExist ==
  ASSUME NEW pii, NEW word, NEW n \in Nat
  PROVE  \E f : Passes(f, pii, word, n)
<1> DEFINE N == {m \in Nat : \E f : Passes(f, pii, word, m)}
<1>1. 0 \in N
  <2> DEFINE f == [i \in 0..0 |-> word]
  <2>1. f = [i \in 0..0 |-> IF i = 0 THEN word
                            ELSE IF Hits(pii, pii.entities[i], f[i - 1])
                              THEN Replaced(pii, pii.entities[i], f[i - 1])
                              ELSE f[i - 1]]
    OBVIOUS
  <2>2. Passes(f, pii, word, 0)
    <3> HIDE DEF f
    <3> QED  BY <2>1 DEF Passes
  <2> QED  BY <2>2
<1>2. ASSUME NEW m \in Nat, m \in N PROVE m + 1 \in N
  <2>1. PICK f : Passes(f, pii, word, m)  BY <1>2
  <2>2. \E g : Passes(g, pii, word, m + 1)  BY <2>1, PassesExtended
  <2> QED  BY <2>2
<1> HIDE DEF N
<1>3. n \in N  BY <1>1, <1>2, Induction
<1> QED  BY <1>3 DEF N

\* What After is: the word, and then pass by pass.
LEMMA AfterPasses ==
  ASSUME NEW pii, Ordered(pii), NEW word
  PROVE  /\ After(pii, word)[0] = word
         /\ \A n \in 1..Len(pii.entities) :
              After(pii, word)[n] = IF Hits(pii, pii.entities[n], After(pii, word)[n - 1])
                                    THEN Replaced(pii, pii.entities[n], After(pii, word)[n - 1])
                                    ELSE After(pii, word)[n - 1]
<1> DEFINE N == Len(pii.entities)
           F == CHOOSE f : f = [i \in 0..N |-> IF i = 0 THEN word
                                  ELSE IF Hits(pii, pii.entities[i], f[i - 1])
                                    THEN Replaced(pii, pii.entities[i], f[i - 1])
                                    ELSE f[i - 1]]
<1>1. N \in Nat  BY DEF Ordered
<1>2. \E f : f = [i \in 0..N |-> IF i = 0 THEN word
                                  ELSE IF Hits(pii, pii.entities[i], f[i - 1])
                                    THEN Replaced(pii, pii.entities[i], f[i - 1])
                                    ELSE f[i - 1]]
  <2> HIDE DEF N
  <2>1. PICK g : Passes(g, pii, word, N)  BY <1>1, PassesExist
  <2> QED  BY <2>1 DEF Passes
<1>3. F = [i \in 0..N |-> IF i = 0 THEN word
                          ELSE IF Hits(pii, pii.entities[i], F[i - 1])
                            THEN Replaced(pii, pii.entities[i], F[i - 1])
                            ELSE F[i - 1]]
  BY <1>2
<1>4. After(pii, word) = F  BY DEF After
<1> HIDE DEF F
<1>5. \A i \in 0..N : F[i] = IF i = 0 THEN word
                             ELSE IF Hits(pii, pii.entities[i], F[i - 1])
                               THEN Replaced(pii, pii.entities[i], F[i - 1])
                               ELSE F[i - 1]
  BY <1>3, Zenon
<1> HIDE DEF N
<1>6. F[0] = word  BY <1>1, <1>5
<1>7. ASSUME NEW n \in 1..N
      PROVE  F[n] = IF Hits(pii, pii.entities[n], F[n - 1])
                    THEN Replaced(pii, pii.entities[n], F[n - 1]) ELSE F[n - 1]
  <2>1. n \in 0..N /\ n # 0  BY <1>1
  <2> QED  BY <1>5, <2>1, Zenon
<1> QED  BY <1>4, <1>6, <1>7 DEF N

\* After n passes nothing has matched a word, or the m-th did first, and what
\* is there now is what that one made, or was made of it.
Struck(pii, word, m) ==
  /\ m \in DOMAIN pii.entities /\ Hits(pii, pii.entities[m], word)
  /\ \A l \in 1..(m - 1) : ~Hits(pii, pii.entities[l], word)

Spared(pii, word, n) ==
  /\ After(pii, word)[n] = word
  /\ \A l \in 1..n : ~Hits(pii, pii.entities[l], word)

Reworked(pii, word, n) ==
  \E m \in 1..n :
    LET made == Replaced(pii, pii.entities[m], word)
    IN  /\ Struck(pii, word, m)
        /\ After(pii, word)[m - 1] = word
        /\ After(pii, word)[n] \in Made(pii)
        /\ After(pii, word)[n] = made \/ \E e \in ToSet(pii.entities) : Hits(pii, e, made)

\* What a pass makes of a word that it matches is made.
LEMMA ReplacedIsMade ==
  ASSUME NEW pii, NEW e \in ToSet(pii.entities), NEW w, Hits(pii, e, w)
  PROVE  Replaced(pii, e, w) \in Made(pii)
<1>1. w \in PiiWords[e]  BY DEF Hits
<1> QED  BY <1>1 DEF Made

\* It is so after each pass.
LEMMA SparedOrReworked ==
  ASSUME NEW pii, Ordered(pii), NEW word
  PROVE  \A n \in 0..Len(pii.entities) : Spared(pii, word, n) \/ Reworked(pii, word, n)
<1> DEFINE N == Len(pii.entities)
           T == {n \in Nat : n <= N => Spared(pii, word, n) \/ Reworked(pii, word, n)}
           now(n) == After(pii, word)[n]
           entity(n) == pii.entities[n]
<1>1. N \in Nat /\ DOMAIN pii.entities = 1..N  BY DEF Ordered
<1>2. /\ now(0) = word
      /\ \A n \in 1..N : now(n) = IF Hits(pii, entity(n), now(n - 1))
                                 THEN Replaced(pii, entity(n), now(n - 1)) ELSE now(n - 1)
  BY AfterPasses
<1>3. \A n \in 1..N : entity(n) \in ToSet(pii.entities)  BY <1>1 DEF ToSet
<1>4. 0 \in T
  <2>1. \A l \in 1..0 : FALSE  OBVIOUS
  <2> QED  BY <1>2, <2>1 DEF Spared
<1>5. ASSUME NEW n \in Nat, n \in T PROVE n + 1 \in T
  <2> SUFFICES ASSUME n + 1 <= N
               PROVE  Spared(pii, word, n + 1) \/ Reworked(pii, word, n + 1)
    OBVIOUS
  <2>1. PICK x \in 1..N : x = n + 1 /\ x - 1 = n  BY <1>1
  <2>2. now(x) = IF Hits(pii, entity(x), now(n)) THEN Replaced(pii, entity(x), now(n)) ELSE now(n)
    BY <1>2, <2>1
  <2>3. n <= N  BY <1>1
  <2>4. Spared(pii, word, n) \/ Reworked(pii, word, n)  BY <1>5, <2>3
  <2> HIDE DEF T, N
  <2>5. CASE Spared(pii, word, n)
    <3>1. now(n) = word /\ \A l \in 1..n : ~Hits(pii, entity(l), word)  BY <2>5 DEF Spared
    <3>2. CASE Hits(pii, entity(x), word)
      <4>1. Struck(pii, word, x)  BY <1>1, <2>1, <3>1, <3>2 DEF Struck
      <4>2. now(x) = Replaced(pii, entity(x), word)  BY <2>2, <3>1, <3>2
      <4>3. now(x) \in Made(pii)  BY <1>3, <3>2, <4>2, ReplacedIsMade
      <4>4. x \in 1..x /\ now(x - 1) = word  BY <2>1, <3>1
      <4>5. Reworked(pii, word, x)  BY <4>1, <4>2, <4>3, <4>4 DEF Reworked
      <4> QED  BY <2>1, <4>5
    <3>3. CASE ~Hits(pii, entity(x), word)
      <4>1. now(x) = word  BY <2>2, <3>1, <3>3
      <4>2. \A l \in 1..x : l \in 1..n \/ l = x  BY <2>1
      <4>3. \A l \in 1..x : ~Hits(pii, entity(l), word)  BY <3>1, <3>3, <4>2
      <4>4. Spared(pii, word, x)  BY <4>1, <4>3 DEF Spared
      <4> QED  BY <2>1, <4>4
    <3> QED  BY <3>2, <3>3
  <2>6. CASE Reworked(pii, word, n)
    <3>1. PICK m \in 1..n :
            /\ Struck(pii, word, m) /\ now(m - 1) = word /\ now(n) \in Made(pii)
            /\ \/ now(n) = Replaced(pii, entity(m), word)
               \/ \E e \in ToSet(pii.entities) : Hits(pii, e, Replaced(pii, entity(m), word))
      BY <2>6 DEF Reworked
    <3> DEFINE made == Replaced(pii, entity(m), word)
    <3>2. m \in 1..x  BY <2>1
    <3>3. /\ now(x) \in Made(pii)
          /\ now(x) = made \/ \E e \in ToSet(pii.entities) : Hits(pii, e, made)
      <4>1. CASE Hits(pii, entity(x), now(n))
        <5>1. now(x) \in Made(pii)  BY <1>3, <2>2, <4>1, ReplacedIsMade
        <5>2. now(n) = made => \E e \in ToSet(pii.entities) : Hits(pii, e, made)
          BY <1>3, <4>1
        <5> QED  BY <3>1, <5>1, <5>2
      <4>2. CASE ~Hits(pii, entity(x), now(n))
        <5>1. now(x) = now(n)  BY <2>2, <4>2
        <5> QED  BY <3>1, <5>1
      <4> QED  BY <4>1, <4>2
    <3>4. Reworked(pii, word, x)  BY <3>1, <3>2, <3>3 DEF Reworked
    <3> QED  BY <2>1, <3>4
  <2> QED  BY <2>4, <2>5, <2>6
<1> HIDE DEF T
<1>6. \A n \in Nat : n \in T  BY <1>4, <1>5, Induction
<1> QED  BY <1>1, <1>6 DEF T

\* A word when all passes are done.
Final(pii, word) == After(pii, word)[Len(pii.entities)]

\* What matches is what hits.
LEMMA MatchingHits ==
  ASSUME NEW pii
  PROVE  \A w : Matching(pii, w) = {e \in ToSet(pii.entities) : Hits(pii, e, w)}
BY DEF Matching, Hits

(* The passes leave a word that nothing matches and record nothing; they    *)
(* redact a word that something matches, and record the first entity that   *)
(* does; whatever else they record matches what a pass has made.           *)
LEMMA WordRedacted ==
  ASSUME NEW pii, Ordered(pii), NEW word
  PROVE  /\ Redacted(pii, word, Final(pii, word))
         /\ Matching(pii, word) # {} => Final(pii, word) \in Made(pii)
         /\ Matching(pii, word) = {} <=> Finds(pii, word) = {}
         /\ Foremost(pii, word) \subseteq Finds(pii, word)
         /\ Foremost(pii, word) = {} <=> Matching(pii, word) = {}
         /\ Finds(pii, word) \subseteq
              Foremost(pii, word) \cup UNION {Matching(pii, w) : w \in Made(pii)}
<1> DEFINE N == Len(pii.entities)
           now(n) == After(pii, word)[n]
           entity(n) == pii.entities[n]
           M == Matching(pii, word)
<1>1. N \in Nat /\ DOMAIN pii.entities = 1..N  BY DEF Ordered
<1>2. \A w : Matching(pii, w) = {e \in ToSet(pii.entities) : Hits(pii, e, w)}  BY MatchingHits
<1>3. \A n \in 1..N : entity(n) \in ToSet(pii.entities)  BY <1>1 DEF ToSet
<1>4. \A e \in ToSet(pii.entities) : \E n \in 1..N : entity(n) = e  BY <1>1 DEF ToSet
<1>5. Finds(pii, word) = {entity(n) : n \in {k \in 1..N : Hits(pii, entity(k), now(k - 1))}}
  BY <1>1 DEF Finds
<1>6. Foremost(pii, word) =
        {e \in M : \E n \in 1..N : entity(n) = e /\ \A m \in 1..(n - 1) : entity(m) \notin M}
  BY <1>1 DEF Foremost
<1>7. \A n \in 0..N : Spared(pii, word, n) \/ Reworked(pii, word, n)  BY SparedOrReworked
<1>8. ASSUME Spared(pii, word, N)
      PROVE  M = {} /\ Final(pii, word) = word /\ Finds(pii, word) = {}
  <2>1. now(N) = word /\ \A l \in 1..N : ~Hits(pii, entity(l), word)  BY <1>8 DEF Spared
  <2>2. M = {}  BY <1>2, <1>4, <2>1
  <2>3. ASSUME NEW k \in 1..N, Hits(pii, entity(k), now(k - 1)) PROVE FALSE
    <3>1. k - 1 \in 0..N  BY <1>1
    <3>2. CASE Spared(pii, word, k - 1)
      <4>1. now(k - 1) = word  BY <3>2 DEF Spared
      <4> QED  BY <2>1, <2>3, <4>1
    <3>3. CASE Reworked(pii, word, k - 1)
      <4>1. PICK m \in 1..(k - 1) : Struck(pii, word, m)  BY <3>3 DEF Reworked
      <4>2. m \in 1..N  BY <1>1
      <4> QED  BY <2>1, <4>1, <4>2 DEF Struck
    <3> QED  BY <1>7, <3>1, <3>2, <3>3
  <2> QED  BY <1>5, <2>1, <2>2, <2>3 DEF Final
<1>9. ASSUME Reworked(pii, word, N)
      PROVE  /\ M # {} /\ Redacted(pii, word, Final(pii, word)) /\ Final(pii, word) \in Made(pii)
             /\ \E e \in Foremost(pii, word) : e \in Finds(pii, word)
  <2>1. PICK m \in 1..N :
          /\ Struck(pii, word, m) /\ now(m - 1) = word /\ now(N) \in Made(pii)
          /\ \/ now(N) = Replaced(pii, entity(m), word)
             \/ \E e \in ToSet(pii.entities) : Hits(pii, e, Replaced(pii, entity(m), word))
    BY <1>9 DEF Reworked
  <2>2. /\ Hits(pii, entity(m), word)
        /\ \A l \in 1..(m - 1) : ~Hits(pii, entity(l), word)
    BY <2>1 DEF Struck
  <2>3. entity(m) \in M  BY <1>2, <1>3, <2>2
  <2>4. Redacted(pii, word, Final(pii, word))
    BY <1>2, <2>1, <2>3 DEF Redacted, Final
  <2>5. entity(m) \in Foremost(pii, word)  BY <1>2, <1>6, <2>2, <2>3
  <2>6. entity(m) \in Finds(pii, word)  BY <1>5, <2>1, <2>2
  <2> QED  BY <2>1, <2>3, <2>4, <2>5, <2>6 DEF Final
<1>10. N \in 0..N  BY <1>1
<1>11. \A e, f \in Foremost(pii, word) : e = f
  <2> SUFFICES ASSUME NEW e \in Foremost(pii, word), NEW f \in Foremost(pii, word) PROVE e = f
    OBVIOUS
  <2>1. PICK i \in 1..N : entity(i) = e /\ e \in M /\ \A m \in 1..(i - 1) : entity(m) \notin M
    BY <1>6
  <2>2. PICK j \in 1..N : entity(j) = f /\ f \in M /\ \A m \in 1..(j - 1) : entity(m) \notin M
    BY <1>6
  <2>3. i = j
    <3>1. ~(i < j)
      <4>1. i < j => i \in 1..(j - 1)  BY <1>1
      <4> QED  BY <2>1, <2>2, <4>1
    <3>2. ~(j < i)
      <4>1. j < i => j \in 1..(i - 1)  BY <1>1
      <4> QED  BY <2>1, <2>2, <4>1
    <3> QED  BY <1>1, <3>1, <3>2
  <2> QED  BY <2>1, <2>2, <2>3
<1>12. ASSUME NEW e \in Finds(pii, word)
       PROVE  e \in Foremost(pii, word) \/ \E w \in Made(pii) : e \in Matching(pii, w)
  <2>1. PICK k \in 1..N : e = entity(k) /\ Hits(pii, entity(k), now(k - 1))  BY <1>5
  <2>2. k - 1 \in 0..N  BY <1>1
  <2>3. CASE Spared(pii, word, k - 1)
    <3>1. now(k - 1) = word /\ \A l \in 1..(k - 1) : ~Hits(pii, entity(l), word)
      BY <2>3 DEF Spared
    <3> QED  BY <1>2, <1>3, <1>6, <2>1, <3>1
  <2>4. CASE Reworked(pii, word, k - 1)
    <3>1. now(k - 1) \in Made(pii)  BY <2>4 DEF Reworked
    <3> QED  BY <1>2, <1>3, <2>1, <3>1
  <2> QED  BY <1>7, <2>2, <2>3, <2>4
<1> HIDE DEF N, now, entity
<1>13. Foremost(pii, word) \subseteq M  BY <1>6
<1>14. M = {} => Redacted(pii, word, word)  BY DEF Redacted
<1>15. Spared(pii, word, N) \/ Reworked(pii, word, N)  BY <1>7, <1>10
<1>16. Finds(pii, word) \subseteq
         Foremost(pii, word) \cup UNION {Matching(pii, w) : w \in Made(pii)}
  BY <1>12
<1> HIDE DEF M
<1>17. CASE Spared(pii, word, N)  BY <1>8, <1>13, <1>14, <1>16, <1>17 DEF M
<1>18. CASE Reworked(pii, word, N)
  <2>1. Foremost(pii, word) \subseteq Finds(pii, word)  BY <1>9, <1>11, <1>18
  <2>2. Finds(pii, word) # {} /\ Foremost(pii, word) # {}  BY <1>9, <1>18
  <2> QED  BY <1>9, <1>16, <1>18, <2>1, <2>2 DEF M
<1> QED  BY <1>15, <1>17, <1>18

(* What the redactor makes of a text: a word that nothing matches, or one   *)
(* that it makes.                                                          *)
\* What it makes of the n-th word of a text.
LEMMA RedactTextAt ==
  ASSUME NEW pii, Ordered(pii), NEW text, NEW n \in DOMAIN text
  PROVE  LET new == RedactText(pii, text)
         IN  /\ new[n] = Final(pii, text[n])
             /\ Redacted(pii, text[n], new[n])
             /\ \/ new[n] \in Made(pii)
                \/ new[n] = text[n] /\ Matching(pii, text[n]) = {}
<1>1. RedactText(pii, text)[n] = Final(pii, text[n])  BY DEF RedactText, Final
<1>2. /\ Redacted(pii, text[n], Final(pii, text[n]))
      /\ Matching(pii, text[n]) # {} => Final(pii, text[n]) \in Made(pii)
  BY WordRedacted
<1> QED  BY <1>1, <1>2 DEF Redacted

\* Of a redacted text each word is made, or was there and nothing matches it.
LEMMA RedactTextHolds ==
  ASSUME NEW W, NEW pii, Ordered(pii), Made(pii) \subseteq W, NEW text \in Seq(W)
  PROVE  /\ RedactText(pii, text) \in Seq(W)
         /\ \A w \in ToSet(RedactText(pii, text)) :
              w \in Made(pii) \/ (w \in ToSet(text) /\ Matching(pii, w) = {})
<1> DEFINE new == RedactText(pii, text)
<1>1. Len(text) \in Nat /\ DOMAIN text = 1..Len(text) /\ \A i \in DOMAIN text : text[i] \in W
  BY LenProperties, ElementOfSeq
<1>2. new = [i \in DOMAIN text |-> new[i]] /\ DOMAIN new = DOMAIN text  BY DEF RedactText
<1>3. ASSUME NEW i \in DOMAIN text
      PROVE  new[i] \in Made(pii) \/ (new[i] = text[i] /\ Matching(pii, text[i]) = {})
  BY RedactTextAt
<1> HIDE DEF new
<1>4. DOMAIN new = 1..Len(text) /\ \A i \in 1..Len(text) : new[i] \in W
  BY <1>1, <1>2, <1>3
<1>5. new \in [1..Len(text) -> W]  BY <1>1, <1>2, <1>4
<1>6. \A w \in ToSet(new) :
        w \in Made(pii) \/ (w \in ToSet(text) /\ Matching(pii, w) = {})
  BY <1>1, <1>3, <1>4 DEF ToSet
<1> QED  BY <1>1, <1>5, <1>6, FunctionIsSequence DEF new

\* The same of the pieces of a message.
LEMMA RedactPartsHolds ==
  ASSUME NEW W, NEW pii, Ordered(pii), Made(pii) \subseteq W, NEW parts \in Seq(Piece(W))
  PROVE  /\ RedactParts(pii, parts) \in Seq(Piece(W))
         /\ \A w \in SpokenWords(RedactParts(pii, parts)) :
              w \in Made(pii) \/ (w \in SpokenWords(parts) /\ Matching(pii, w) = {})
<1> DEFINE new == RedactParts(pii, parts)
<1>1. Len(parts) \in Nat /\ DOMAIN parts = 1..Len(parts) /\ \A i \in DOMAIN parts : parts[i] \in Piece(W)
  BY LenProperties, ElementOfSeq
<1>2. ASSUME NEW i \in DOMAIN parts
      PROVE  /\ new[i] \in Piece(W) /\ new[i].image = parts[i].image
             /\ new[i].text = RedactText(pii, parts[i].text)
             /\ parts[i].text \in Seq(W)
  <2>1. parts[i].text \in Seq(W)  BY <1>1 DEF Piece
  <2>2. RedactText(pii, parts[i].text) \in Seq(W)  BY <2>1, RedactTextHolds
  <2>3. new[i] = [parts[i] EXCEPT !.text = RedactText(pii, parts[i].text)]
    BY DEF RedactParts
  <2> QED  BY <1>1, <2>1, <2>2, <2>3 DEF Piece
<1>3. new = [i \in DOMAIN parts |-> new[i]] /\ DOMAIN new = DOMAIN parts  BY DEF RedactParts
<1> HIDE DEF new
<1>4. new \in [1..Len(parts) -> Piece(W)]  BY <1>1, <1>2, <1>3
<1>5. ASSUME NEW w \in SpokenWords(new)
      PROVE  w \in Made(pii) \/ (w \in SpokenWords(parts) /\ Matching(pii, w) = {})
  <2>1. PICK q \in ToSet(new) : ~q.image /\ w \in ToSet(q.text)  BY DEF SpokenWords
  <2>2. PICK i \in DOMAIN parts : new[i] = q  BY <1>3, <2>1 DEF ToSet
  <2>3. w \in Made(pii) \/ (w \in ToSet(parts[i].text) /\ Matching(pii, w) = {})
    BY <1>2, <2>1, <2>2, RedactTextHolds
  <2>4. parts[i] \in ToSet(parts) /\ ~parts[i].image  BY <1>2, <2>1, <2>2 DEF ToSet
  <2> QED  BY <2>3, <2>4 DEF SpokenWords
<1> QED  BY <1>1, <1>4, <1>5, FunctionIsSequence DEF new

\* The same of all messages, which keep their roles.
LEMMA RedactRequestHolds ==
  ASSUME NEW R, NEW W, NEW pii, Ordered(pii), Made(pii) \subseteq W, NEW messages \in Turns(R, W)
  PROVE  /\ RedactRequest(pii, messages) \in Turns(R, W)
         /\ \A w \in Spoken(RedactRequest(pii, messages)) :
              w \in Made(pii) \/ (w \in Spoken(messages) /\ Matching(pii, w) = {})
<1> DEFINE new == RedactRequest(pii, messages)
           Turn == [role : R, parts : Seq(Piece(W))]
<1>1. /\ Len(messages) \in Nat /\ DOMAIN messages = 1..Len(messages)
      /\ \A i \in DOMAIN messages : messages[i] \in Turn
  BY LenProperties, ElementOfSeq DEF Turns
<1>2. ASSUME NEW i \in DOMAIN messages
      PROVE  /\ new[i] \in Turn /\ messages[i].parts \in Seq(Piece(W))
             /\ new[i].parts = RedactParts(pii, messages[i].parts)
  <2>1. messages[i].parts \in Seq(Piece(W))  BY <1>1
  <2>2. RedactParts(pii, messages[i].parts) \in Seq(Piece(W))  BY <2>1, RedactPartsHolds
  <2>3. new[i] = [messages[i] EXCEPT !.parts = RedactParts(pii, messages[i].parts)]
    BY DEF RedactRequest
  <2> QED  BY <1>1, <2>1, <2>2, <2>3
<1>3. new = [i \in DOMAIN messages |-> new[i]] /\ DOMAIN new = DOMAIN messages
  BY DEF RedactRequest
<1> HIDE DEF new
<1>4. new \in [1..Len(messages) -> Turn]  BY <1>1, <1>2, <1>3
<1>5. ASSUME NEW w \in Spoken(new)
      PROVE  w \in Made(pii) \/ (w \in Spoken(messages) /\ Matching(pii, w) = {})
  <2>1. PICK i \in DOMAIN messages : w \in SpokenWords(new[i].parts)  BY <1>3 DEF Spoken
  <2>2. w \in Made(pii) \/ (w \in SpokenWords(messages[i].parts) /\ Matching(pii, w) = {})
    BY <1>2, <2>1, RedactPartsHolds
  <2> QED  BY <2>2 DEF Spoken
<1> HIDE DEF Turn
<1>6. new \in Seq(Turn)  BY <1>1, <1>4, FunctionIsSequence
<1> QED  BY <1>5, <1>6 DEF new, Turn, Turns

-----------------------------------------------------------------------------
(* What is parsed of a body of any API: its messages, and among them every  *)
(* place of its table, from whoever says it.                               *)
LEMMA ParseCovers ==
  ASSUME NEW c, IsDocument(c.body), ScannedApi(c.path) # "none"
  PROVE  LET extracted == ParseApiBody(c.body, ScannedApi(c.path))
         IN  /\ extracted \in Seq(Message(c.body))
             /\ \A p \in ScannedPlaces(c) : Says(extracted, p, RoleAt(c, p))
<1>1. ScannedApi(c.path) \in {"chat", "messages", "responses"}  BY DEF ScannedApi
<1>2. CASE ScannedApi(c.path) = "chat"
  <2>1. ScannedPlaces(c) = Listing(c.body, OpenaiTable)  BY <1>2 DEF ScannedPlaces
  <2>2. ParseApiBody(c.body, "chat") = ExtractChat(c.body, "chat")  BY DEF ParseApiBody
  <2> QED  BY <1>2, <2>1, <2>2, ExtractOpenaiSays, OpenaiCovers
<1>3. CASE ScannedApi(c.path) = "messages"
  <2>1. ScannedPlaces(c) = Listing(c.body, AnthropicTable)  BY <1>3 DEF ScannedPlaces
  <2>2. ParseApiBody(c.body, "messages") = ExtractChat(c.body, "messages")  BY DEF ParseApiBody
  <2>3. IsFiniteSet(DOMAIN c.body)  BY DEF IsDocument
  <2> QED  BY <1>3, <2>1, <2>2, <2>3, ExtractAnthropicSays, AnthropicCovers
<1>4. CASE ScannedApi(c.path) = "responses"
  <2>1. ScannedPlaces(c) = Listing(c.body, ResponsesTable)  BY <1>4 DEF ScannedPlaces
  <2>2. ParseApiBody(c.body, "responses") = ExtractResponses(c.body)  BY DEF ParseApiBody
  <2> QED  BY <1>4, <2>1, <2>2, ExtractResponsesSays, ResponsesCovers
<1> QED  BY <1>1, <1>2, <1>3, <1>4

(* The message that the stages get, and where its texts came from.         *)
LEMMA FinishType ==
  ASSUME NEW W, NEW body, \A p \in DOMAIN body : body[p] \in Seq(W), NEW m \in Message(body)
  PROVE  Finish(m) \in [role : Speakers(body), parts : Seq(Piece(W))]
<1> DEFINE segments == m.segments
           texts == [i \in DOMAIN segments |->
                       [image |-> segments[i].image, text |-> segments[i].text]]
           blank == [image |-> FALSE, text |-> <<>>]
           none == <<blank>>
           parts == IF segments = <<>> THEN none ELSE texts
<1>1. m.role \in Speakers(body) /\ segments \in Seq(Segment(body))  BY DEF Message
<1>2. /\ Len(segments) \in Nat /\ DOMAIN segments = 1..Len(segments)
      /\ \A i \in DOMAIN segments : segments[i] \in Segment(body)
  BY <1>1, LenProperties, ElementOfSeq
<1>3. \A s \in Segment(body) : s.image \in BOOLEAN /\ s.text \in Seq(W)
  BY EmptySeq DEF Segment
<1>4. \A i \in DOMAIN segments : texts[i] \in Piece(W)  BY <1>2, <1>3 DEF Piece
<1>5. texts \in [1..Len(segments) -> Piece(W)]  BY <1>2, <1>4
<1>6. blank \in Piece(W)  BY EmptySeq DEF Piece
<1> HIDE DEF blank
<1>7. none \in Seq(Piece(W))  BY <1>6
<1>8. Finish(m) = [role |-> m.role, parts |-> parts]  BY DEF Finish, none, blank
<1> HIDE DEF segments, texts, none
<1>9. parts \in Seq(Piece(W))  BY <1>2, <1>5, <1>7, FunctionIsSequence
<1> HIDE DEF parts
<1> QED  BY <1>1, <1>8, <1>9

\* A message's pointers are those of its segments.
LEMMA PointersHold ==
  ASSUME NEW body, NEW m \in Message(body)
  PROVE  /\ Pointers(m) \in Seq({<<>>} \cup DOMAIN body)
         /\ \A p : Has(m.segments, p) => p \in ToSet(Pointers(m))
<1> DEFINE segments == m.segments
           wanted == {s \in ToSet(segments) : ~s.image}
           texts == Only(segments, wanted)
           all == [i \in DOMAIN texts |-> texts[i].at]
<1>1. Pointers(m) = all  BY DEF Pointers
<1>2. segments \in Seq(Segment(body))  BY DEF Message
<1> HIDE DEF wanted, segments
<1>3. texts \in Seq(Segment(body)) /\ ToSet(texts) = ToSet(segments) \cap wanted
  BY <1>2, OnlyType, OnlyHolds
<1> HIDE DEF texts
<1>4. /\ Len(texts) \in Nat /\ DOMAIN texts = 1..Len(texts)
      /\ \A i \in DOMAIN texts : texts[i] \in Segment(body)
  BY <1>3, LenProperties, ElementOfSeq
<1>5. \A i \in DOMAIN texts : texts[i].at \in {<<>>} \cup DOMAIN body  BY <1>4 DEF Segment
<1>6. all \in [1..Len(texts) -> {<<>>} \cup DOMAIN body]  BY <1>4, <1>5
<1>7. /\ all \in Seq({<<>>} \cup DOMAIN body) /\ DOMAIN all = DOMAIN texts
      /\ \A i \in DOMAIN texts : all[i] = texts[i].at
  BY <1>4, <1>6, FunctionIsSequence
<1> HIDE DEF all
<1>8. ASSUME NEW p, Has(segments, p) PROVE p \in ToSet(all)
  <2>1. PICK s \in ToSet(segments) : ~s.image /\ s.at = p  BY <1>8 DEF Has
  <2>2. s \in ToSet(texts)  BY <1>3, <2>1 DEF wanted
  <2>3. PICK i \in DOMAIN texts : texts[i] = s  BY <2>2 DEF ToSet
  <2> QED  BY <1>7, <2>1, <2>3 DEF ToSet
<1> QED  BY <1>1, <1>7, <1>8 DEF segments

(* What the stages get of a request, and the places it came from.          *)
LEMMA ParsedHolds ==
  ASSUME NEW W, NEW body, \A p \in DOMAIN body : body[p] \in Seq(W),
         NEW extracted \in Seq(Message(body))
  PROVE  LET messages == [i \in DOMAIN extracted |-> Finish(extracted[i])]
             places == [i \in DOMAIN extracted |-> Pointers(extracted[i])]
         IN  /\ messages \in Turns(Speakers(body), W)
             /\ places \in Seq(Seq({<<>>} \cup DOMAIN body))
             /\ \A p, role : Says(extracted, p, role)
                             => \E i \in DOMAIN places : p \in ToSet(places[i])
<1> DEFINE Turn == [role : Speakers(body), parts : Seq(Piece(W))]
           Place == {<<>>} \cup DOMAIN body
           messages == [i \in DOMAIN extracted |-> Finish(extracted[i])]
           places == [i \in DOMAIN extracted |-> Pointers(extracted[i])]
<1>1. /\ Len(extracted) \in Nat /\ DOMAIN extracted = 1..Len(extracted)
      /\ \A i \in DOMAIN extracted : extracted[i] \in Message(body)
  BY LenProperties, ElementOfSeq
<1>2. ASSUME NEW i \in DOMAIN extracted
      PROVE  /\ Finish(extracted[i]) \in Turn /\ Pointers(extracted[i]) \in Seq(Place)
             /\ \A p : Has(extracted[i].segments, p) => p \in ToSet(Pointers(extracted[i]))
  BY <1>1, FinishType, PointersHold
<1> HIDE DEF Turn, Place
<1>3. messages \in [1..Len(extracted) -> Turn] /\ places \in [1..Len(extracted) -> Seq(Place)]
  BY <1>1, <1>2
<1>4. messages \in Seq(Turn) /\ places \in Seq(Seq(Place))  BY <1>1, <1>3, FunctionIsSequence
<1>5. ASSUME NEW p, NEW role, Says(extracted, p, role)
      PROVE  \E i \in DOMAIN places : p \in ToSet(places[i])
  <2>1. PICK m \in ToSet(extracted) : Has(m.segments, p)  BY <1>5 DEF Says
  <2>2. PICK i \in DOMAIN extracted : extracted[i] = m  BY DEF ToSet
  <2>3. i \in DOMAIN places /\ places[i] = Pointers(extracted[i])  BY <2>2
  <2> QED  BY <1>2, <2>1, <2>2, <2>3
<1> QED  BY <1>4, <1>5 DEF Turn, Turns, Place

-----------------------------------------------------------------------------
(* The stages                                                              *)
\* A pipeline: its stages in a sequence, a redactor with its entities in one,
\* a policy with a rule at least.
ArePipeline(s) ==
  /\ Len(s) \in Nat /\ DOMAIN s = 1..Len(s)
  /\ \A k \in DOMAIN s : s[k].id = "pii_redactor" => Ordered(s[k])
  /\ \A k \in DOMAIN s : s[k].id = "policy" => \E n \in Nat \ {0} : DOMAIN s[k].rules = 1..n

\* A pipeline that was built has stages of the known kinds.
LEMMA BuiltStages ==
  ASSUME NEW v \in Usable
  PROVE  ArePipeline(StagesOf[v])
<1> DEFINE c == Loaded(v)
           ids == Only(c.pipeline.request_stages, StagesOn(c))
           built == [i \in DOMAIN ids |-> Stage(c, ids[i])]
<1>1. StagesOf[v] = built  BY DEF StagesOf, BuiltPipeline
<1>2. v \in Readable  BY DEF Usable, LoadFails
<1>3. /\ c.pipeline.request_stages \in Seq(STRING)
      /\ c.policy.rules \in Seq(ToSet(c.policy.rules))
      /\ c.stages.pii_redactor.entities \in Seq(STRING)
  BY <1>2, SchemaAssumption
<1> HIDE DEF c
<1>4. ids \in Seq(STRING) /\ ToSet(ids) \subseteq StagesOn(c)  BY <1>3, OnlyType, OnlyHolds
<1> HIDE DEF ids
<1>5. /\ Len(ids) \in Nat /\ DOMAIN ids = 1..Len(ids)
      /\ \A i \in DOMAIN ids : ids[i] \in StagesOn(c)
  BY <1>4, LenProperties DEF ToSet
<1>6. Len(built) = Len(ids) /\ DOMAIN built = 1..Len(built)
  <2>1. built \in [1..Len(ids) -> {built[i] : i \in DOMAIN ids}]  BY <1>5
  <2> HIDE DEF built
  <2> QED  BY <1>5, <2>1, FunctionIsSequence
<1>8. ASSUME NEW k \in DOMAIN built, built[k].id = "pii_redactor"
      PROVE  Ordered(built[k])
  <2>1. k \in DOMAIN ids /\ built[k] = Stage(c, ids[k])  OBVIOUS
  <2>2. ids[k] = "pii_redactor"
    <3>1. ids[k] \in RequestStages  BY <1>5, <2>1 DEF StagesOn
    <3>2. Stage(c, ids[k]).id = ids[k]
      BY <3>1 DEF Stage, RegexStage, PiiStage, PolicyStage, OnnxStage, RequestStages
    <3> QED  BY <1>8, <2>1, <3>2
  <2>3. built[k].entities = c.stages.pii_redactor.entities
    BY <2>1, <2>2 DEF Stage, PiiStage, PiiRedactor
  <2> QED  BY <1>3, <2>3, LenProperties DEF Ordered
<1>7. ASSUME NEW k \in DOMAIN built, built[k].id = "policy"
      PROVE  \E n \in Nat \ {0} : DOMAIN built[k].rules = 1..n
  <2>1. k \in DOMAIN ids /\ built[k] = Stage(c, ids[k])  OBVIOUS
  <2>2. ids[k] = "policy"
    <3>1. ids[k] \in RequestStages  BY <1>5, <2>1 DEF StagesOn
    <3>2. Stage(c, ids[k]).id = ids[k]
      BY <3>1 DEF Stage, RegexStage, PiiStage, PolicyStage, OnnxStage, RequestStages
    <3> QED  BY <1>7, <2>1, <3>2
  <2>3. DOMAIN built[k].rules = DOMAIN c.policy.rules
    BY <2>1, <2>2 DEF Stage, PolicyStage
  <2>4. c.policy.rules # <<>>  BY <1>5, <2>1, <2>2 DEF StagesOn
  <2>5. Len(c.policy.rules) \in Nat \ {0}  BY <1>3, <2>4, EmptySeq, LenProperties
  <2> QED  BY <1>3, <2>3, <2>5, LenProperties
<1> HIDE DEF built
<1> QED  BY <1>1, <1>5, <1>6, <1>7, <1>8 DEF ArePipeline

(* A stage that stops a word that is said blocks, or takes the word out.   *)
LEMMA StoppedOrRedacted ==
  ASSUME NEW R, NEW W, "\n" \in W, NEW messages \in Turns(R, W), NEW s,
         s.id = "policy" => \E n \in Nat \ {0} : DOMAIN s.rules = 1..n,
         s.id = "pii_redactor" => Ordered(s),
         NEW w \in Spoken(messages), Stops(s, w), Evaluate(s, messages).kind # "block"
  PROVE  /\ s.id = "pii_redactor" /\ Matching(s, w) # {}
         /\ Evaluate(s, messages).kind = "redact"
         /\ Evaluate(s, messages).mutated = RedactRequest(s, messages)
<1>1. w \in ToSet(AllText(messages))  BY AllTextHolds
<1>2. \A code : Block(code).kind = "block"  BY DEF Block
<1>3. CASE s.id = "regex_injection"
  <2>1. s.block /\ w \in ToSet(s.rules)  BY <1>3 DEF Stops
  <2>2. Evaluate(s, messages) = Block("prompt_injection")
    BY <1>1, <1>3, <2>1 DEF Evaluate, EvaluateRules
  <2> QED  BY <1>2, <2>2
<1>4. CASE s.id = "policy"
  <2>1. /\ s.rules[1].enabled /\ s.rules[1].action = "block"
        /\ s.rules[1].condition.type = "ContentContains"
        /\ w \in s.rules[1].condition.keywords
    BY <1>4 DEF Stops
  <2>2. PICK n \in Nat \ {0} : DOMAIN s.rules = 1..n  BY <1>4
  <2> DEFINE matching == {i \in DOMAIN s.rules :
                            s.rules[i].enabled /\ RuleMatches(s.rules[i].condition, messages)}
             first == CHOOSE i \in matching : \A j \in matching : i <= j
  <2>3. RuleMatches(s.rules[1].condition, messages)
    <3>1. HasKeyword(AllText(messages), w)  BY <1>1 DEF HasKeyword
    <3> QED  BY <2>1, <3>1 DEF RuleMatches
  <2>4. 1 \in matching /\ \A j \in matching : j \in Nat /\ 1 <= j  BY <2>1, <2>2, <2>3
  <2>5. Evaluate(s, messages)
          = IF matching = {} THEN Allow
            ELSE IF s.rules[first].action = "block" THEN Block("policy_violation") ELSE Allow
    BY <1>4 DEF Evaluate, EvaluatePolicy
  <2> HIDE DEF matching
  <2>6. first \in matching /\ first <= 1  BY <2>4
  <2>7. first = 1  BY <2>4, <2>6
  <2> QED  BY <1>2, <2>1, <2>4, <2>5, <2>7
<1>5. CASE s.id = "pii_redactor"
  <2> DEFINE entities == EntitiesIn(s, messages)
  <2>1. s.action # "log_only" /\ Matching(s, w) # {}  BY <1>5 DEF Stops
  <2>2. Finds(s, w) # {}  BY <1>5, <2>1, WordRedacted
  <2>3. entities # {}
    <3>1. PICK i \in DOMAIN AllText(messages) : AllText(messages)[i] = w  BY <1>1 DEF ToSet
    <3> QED  BY <2>2, <3>1 DEF EntitiesIn
  <2>4. Evaluate(s, messages) = EvaluatePii(s, messages)  BY <1>5 DEF Evaluate
  <2> HIDE DEF entities
  <2>5. EvaluatePii(s, messages)
          = CASE entities = {} \/ s.action = "log_only" -> Allow
              [] entities # {} /\ s.action = "block"    -> Block("pii_detected")
              [] OTHER -> [kind |-> "redact", entities |-> entities,
                           mutated |-> RedactRequest(s, messages)]
    BY DEF EvaluatePii, entities
  <2>6. s.action # "block"
    <3> SUFFICES ASSUME s.action = "block" PROVE FALSE  OBVIOUS
    <3>1. EvaluatePii(s, messages) = Block("pii_detected")  BY <2>1, <2>3, <2>5
    <3> QED  BY <1>2, <2>4, <3>1
  <2>7. Evaluate(s, messages) = [kind |-> "redact", entities |-> entities,
                                 mutated |-> RedactRequest(s, messages)]
    BY <2>1, <2>3, <2>4, <2>5, <2>6
  <2> QED  BY <1>5, <2>1, <2>7
<1> QED  BY <1>3, <1>4, <1>5 DEF Stops

-----------------------------------------------------------------------------
(* The words of a request, at any moment: the client's, the redactor's and  *)
(* what is put between texts.                                              *)
Wording ==
  {"\n"} \cup Replacements \cup UNION {ToSet(client.body[p]) : p \in DOMAIN client.body}

(* While a request is screened, every place of its tables is among those    *)
(* that will be written, and what the stages that have run would stop is    *)
(* said no more.                                                           *)
ScreenedSoFar ==
  \A k \in DOMAIN stages : k < stage =>
    \A w \in Spoken(request) : Stops(stages[k], w) => w \in Replacements

Screened ==
  /\ stage \in Nat \ {0}
  /\ at \in {"routing", "admitting", "parsing"} => stage = 1
  /\ at \in {"screening", "writing"} =>
       /\ request \in Turns(Speakers(client.body), Wording)
       /\ pointers \in Seq(Seq({<<>>} \cup DOMAIN client.body))
       /\ \A p \in ScannedPlaces(client) : \E i \in DOMAIN pointers : p \in ToSet(pointers[i])
       /\ ScreenedSoFar
  /\ at = "writing" => stage > Len(stages)

\* The stages are the same as long as the file is.
LEMMA SettledStages ==
  ASSUME version' = version
  PROVE  stages' = stages /\ Replacements' = Replacements
BY DEF stages, Replacements

\* Only a POST to one of the three APIs is scanned.
LEMMA ScannedRoute ==
  ASSUME route = "scanned"
  PROVE  client.method = "POST" /\ ScannedApi(client.path) # "none"
BY DEF route, RouteOf

\* A client's body is a document, and its texts are of its own words.
LEMMA BodyWording ==
  ASSUME Routed
  PROVE  /\ IsDocument(client.body)
         /\ \A p \in DOMAIN client.body : client.body[p] \in Seq(Wording)
<1>1. IsDocument(client.body)  BY ExchangeAssumption DEF Routed
<1>2. ASSUME NEW p \in DOMAIN client.body PROVE client.body[p] \in Seq(Wording)
  <2>1. client.body[p] \in Seq(ToSet(client.body[p]))  BY <1>1 DEF IsDocument
  <2>2. ToSet(client.body[p]) \subseteq Wording  BY DEF Wording
  <2> QED  BY <2>1, <2>2, SeqMonotonic
<1> QED  BY <1>1, <1>2

(* Parsing leaves no place of the tables out.                              *)
LEMMA ParseScreened ==
  ASSUME Routed, Screened, Parse
  PROVE  Screened'
<1>1. version' = version /\ client' = client /\ stage' = stage /\ stage = 1
      /\ stages' = stages /\ Replacements' = Replacements /\ at = "parsing"
  BY SettledStages DEF Parse, Screened
<1>2. CASE at' = "done"  BY <1>1, <1>2 DEF Screened
<1>3. CASE at' # "done"
  <2> DEFINE extracted == ParseApiBody(client.body, api)
  <2>1. /\ request'  = [i \in DOMAIN extracted |-> Finish(extracted[i])]
        /\ pointers' = [i \in DOMAIN extracted |-> Pointers(extracted[i])]
        /\ at' = "screening"
    BY <1>3 DEF Parse, Refuse
  <2>2. IsDocument(client.body) /\ \A p \in DOMAIN client.body : client.body[p] \in Seq(Wording)
    BY BodyWording
  <2>3. ScannedApi(client.path) # "none"  BY <1>1, ScannedRoute DEF Routed
  <2>4. /\ extracted \in Seq(Message(client.body))
        /\ \A p \in ScannedPlaces(client) : Says(extracted, p, RoleAt(client, p))
    BY <2>2, <2>3, ParseCovers DEF api
  <2> HIDE DEF extracted
  <2>5. /\ request' \in Turns(Speakers(client.body), Wording)
        /\ pointers' \in Seq(Seq({<<>>} \cup DOMAIN client.body))
        /\ \A p, role : Says(extracted, p, role) => \E i \in DOMAIN pointers' : p \in ToSet(pointers'[i])
    BY <2>1, <2>2, <2>4, ParsedHolds
  <2>6. Wording' = Wording  BY <1>1 DEF Wording
  <2>7. ScreenedSoFar'
    <3>1. \A k \in DOMAIN stages' : ~(k < stage')
      <4>1. DOMAIN stages = 1..Len(stages) /\ Len(stages) \in Nat
        BY BuiltStages DEF Routed, stages, ArePipeline
      <4> QED  BY <1>1, <4>1
    <3> QED  BY <3>1 DEF ScreenedSoFar
  <2> QED  BY <1>1, <2>1, <2>4, <2>5, <2>6, <2>7 DEF Screened
<1> QED  BY <1>2, <1>3

(* What a stage makes of a request: nothing, or the redactor redacts it.    *)
LEMMA StageMakes ==
  ASSUME Routed, RunStage, at' # "done"
  PROVE  LET said == Evaluate(stages[stage], request)
         IN  /\ Continue
             /\ \/ said.kind \in {"allow", "tooLong"} /\ request' = request
                \/ /\ said.kind = "redact" /\ stages[stage].id = "pii_redactor"
                   /\ request' = RedactRequest(stages[stage], request)
             /\ said.kind = "tooLong" => stages[stage].onOversize # "block"
<1> DEFINE s == stages[stage]
           said == Evaluate(s, request)
<1>1. said.kind \in {"allow", "block", "redact", "tooLong"}
  BY DEF Evaluate, EvaluateRules, EvaluatePii, EvaluatePolicy, EvaluateOnnx, Allow, Block
<1>2. said.kind = "redact" => s.id = "pii_redactor" /\ said.mutated = RedactRequest(s, request)
  <2>1. Allow.kind = "allow" /\ \A code : Block(code).kind = "block"  BY DEF Allow, Block
  <2>2. EvaluateRules(s, request).kind # "redact"  BY <2>1 DEF EvaluateRules
  <2>3. EvaluatePolicy(s, request).kind # "redact"  BY <2>1 DEF EvaluatePolicy
  <2>4. EvaluateOnnx(s, request).kind # "redact"  BY <2>1 DEF EvaluateOnnx
  <2>5. EvaluatePii(s, request).kind = "redact"
        => EvaluatePii(s, request).mutated = RedactRequest(s, request)
    BY <2>1 DEF EvaluatePii
  <2> HIDE DEF s
  <2> QED  BY <2>2, <2>3, <2>4, <2>5 DEF Evaluate, said
<1>3. RunStage /\ at' # "done" =>
        /\ Continue
        /\ \/ said.kind \in {"allow", "tooLong"} /\ request' = request
           \/ said.kind = "redact" /\ request' = said.mutated
        /\ said.kind = "tooLong" => s.onOversize # "block"
  <2> HIDE DEF s
  <2> QED  BY <1>1 DEF RunStage, BlockWith, Refuse, said, s
<1> HIDE DEF s, said
<1>4. /\ Continue
      /\ \/ said.kind \in {"allow", "tooLong"} /\ request' = request
         \/ said.kind = "redact" /\ request' = said.mutated
      /\ said.kind = "tooLong" => s.onOversize # "block"
  BY <1>3
<1> QED  BY <1>2, <1>4 DEF s, said

(* A stage that has run has stopped what it stops, or taken it out.        *)
LEMMA StageScreened ==
  ASSUME Routed, Screened, RunStage \/ StageFails
  PROVE  Screened'
<1> DEFINE s == stages[stage]
           said == Evaluate(s, request)
           R == Speakers(client.body)
<1>1. /\ version' = version /\ client' = client /\ pointers' = pointers
      /\ at = "screening" /\ stage <= Len(stages)
  BY DEF RunStage, StageFails
<1>2. stages' = stages /\ Replacements' = Replacements /\ Wording' = Wording
  BY <1>1, SettledStages DEF Wording
<1>3. ArePipeline(stages)  BY BuiltStages DEF Routed, stages
<1>4. /\ stage \in Nat \ {0} /\ stage \in DOMAIN stages
      /\ request \in Turns(R, Wording) /\ ScreenedSoFar
  BY <1>1, <1>3 DEF Screened, ArePipeline
<1>5. CASE at' = "done"
  <2>1. stage' = stage
    <3>1. CASE StageFails  BY <1>1, <1>5, <3>1 DEF StageFails, Continue, BlockWith
    <3>2. CASE RunStage
      <4>1. said.kind \in {"allow", "block", "redact", "tooLong"}
        BY DEF Evaluate, EvaluateRules, EvaluatePii, EvaluatePolicy, EvaluateOnnx, Allow, Block
      <4> QED  BY <1>1, <1>5, <3>2, <4>1 DEF RunStage, Continue, BlockWith
    <3> QED  BY <3>1, <3>2
  <2> QED  BY <1>4, <1>5, <2>1 DEF Screened
<1>6. ASSUME at' # "done"
      PROVE  /\ Continue
             /\ \/ request' = request
                   /\ \A w \in Spoken(request) : ~Stops(s, w)
                \/ s.id = "pii_redactor" /\ request' = RedactRequest(s, request)
  <2>1. CASE StageFails
    <3>1. Continue /\ request' = request /\ s.id \in {"onnx_injection", "toxicity"}
      BY <1>6, <2>1 DEF StageFails, BlockWith, Refuse
    <3>2. \A w : ~Stops(s, w)  BY <3>1 DEF Stops
    <3> QED  BY <3>1, <3>2
  <2>2. CASE RunStage
    <3>1. said.kind \in {"allow", "block", "redact", "tooLong"}
      BY DEF Evaluate, EvaluateRules, EvaluatePii, EvaluatePolicy, EvaluateOnnx, Allow, Block
    <3>2. \A w \in Spoken(request) : Stops(s, w) /\ said.kind # "block" =>
            s.id = "pii_redactor" /\ said.kind = "redact"
      <4>1. "\n" \in Wording  BY DEF Wording
      <4>3. s.id = "pii_redactor" => Ordered(s)  BY <1>3, <1>4 DEF ArePipeline
      <4>2. s.id = "policy" => \E n \in Nat \ {0} : DOMAIN s.rules = 1..n
        BY <1>3, <1>4 DEF ArePipeline
      <4> HIDE DEF s, R
      <4> QED  BY <1>4, <4>1, <4>2, <4>3, StoppedOrRedacted DEF said
    <3>3. /\ Continue
          /\ \/ said.kind \in {"allow", "tooLong"} /\ request' = request
             \/ said.kind = "redact" /\ s.id = "pii_redactor" /\ request' = RedactRequest(s, request)
      BY <1>6, <2>2, StageMakes
    <3> HIDE DEF said
    <3> QED  BY <3>2, <3>3
  <2> QED  BY <2>1, <2>2
<1>7. CASE at' # "done"
  <2>1. stage' = stage + 1 /\ at' = at  BY <1>6, <1>7 DEF Continue
  <2>2. /\ request' \in Turns(R, Wording)
        /\ \A w \in Spoken(request') :
             w \in Replacements \/ (w \in Spoken(request) /\ ~Stops(s, w))
    <3>1. CASE request' = request /\ \A w \in Spoken(request) : ~Stops(s, w)
      BY <1>4, <3>1
    <3>2. CASE s.id = "pii_redactor" /\ request' = RedactRequest(s, request)
      <4>1. Made(s) \subseteq Replacements
        BY <1>4, <3>2 DEF Replacements
      <4>2. Made(s) \subseteq Wording
        <5> HIDE DEF s
        <5> QED  BY <4>1 DEF Wording
      <4>3. \A w : Matching(s, w) = {} => ~Stops(s, w)
        BY <3>2 DEF Stops
      <4>5. Ordered(s)  BY <1>3, <1>4, <3>2 DEF ArePipeline
      <4> HIDE DEF s, R
      <4>4. /\ RedactRequest(s, request) \in Turns(R, Wording)
            /\ \A w \in Spoken(RedactRequest(s, request)) :
                 w \in Made(s) \/ (w \in Spoken(request) /\ Matching(s, w) = {})
        BY <1>4, <4>2, <4>5, RedactRequestHolds
      <4> QED  BY <3>2, <4>1, <4>3, <4>4
    <3> QED  BY <1>6, <1>7, <3>1, <3>2
  <2>3. ScreenedSoFar'
    <3> SUFFICES ASSUME NEW k \in DOMAIN stages, k < stage + 1,
                        NEW w \in Spoken(request'), Stops(stages[k], w)
                 PROVE  w \in Replacements
      BY <1>2, <2>1 DEF ScreenedSoFar, Stops, Matching
    <3>1. k < stage \/ k = stage  BY <1>3, <1>4 DEF ArePipeline
    <3> QED  BY <1>4, <2>2, <3>1 DEF ScreenedSoFar
  <2>4. stage' \in Nat \ {0}  BY <1>4, <2>1
  <2> QED  BY <1>1, <1>2, <2>1, <2>2, <2>3, <2>4 DEF Screened
<1> QED  BY <1>5, <1>7

\* Every step keeps what the stages so far have let through.
LEMMA ScreenedStep ==
  ASSUME Routed, Screened, Next
  PROVE  Screened'
<1>1. version' = version /\ client' = client  BY SettledRoute
<1>2. stages' = stages /\ Replacements' = Replacements /\ Wording' = Wording
  BY <1>1, SettledStages DEF Wording
<1>3. ASSUME stage' = stage, at' \notin {"screening", "writing"},
             at' \in {"routing", "admitting", "parsing"} => at \in {"routing", "admitting", "parsing"}
      PROVE  Screened'
  BY <1>3 DEF Screened
<1>4. CASE Arrive
  <2>1. stage' = stage /\ at \in {"routing", "admitting", "parsing"} /\ at' \in {"done", "admitting"}
    BY <1>4 DEF Arrive, Refuse, runVars
  <2> QED  BY <1>3, <2>1
<1>5. CASE Admit
  <2>1. stage' = stage /\ at \in {"routing", "admitting", "parsing"}
        /\ at' \in {"done", "parsing", "forwarding"}
    BY <1>5 DEF Admit, Refuse, runVars
  <2> QED  BY <1>3, <2>1
<1>6. CASE Parse  BY <1>6, ParseScreened
<1>7. CASE RunStage \/ StageFails  BY <1>7, StageScreened
<1>8. CASE Decide
  <2>1. /\ stage' = stage /\ request' = request /\ pointers' = pointers
        /\ at = "screening" /\ stage > Len(stages) /\ at' = "writing"
    BY <1>8 DEF Decide, runVars
  <2>2. ScreenedSoFar'  BY <1>2, <2>1 DEF Screened, ScreenedSoFar, Stops, Matching
  <2> QED  BY <1>1, <1>2, <2>1, <2>2 DEF Screened
<1>9. CASE Write
  <2>1. stage' = stage /\ at' \in {"done", "answered"}  BY <1>9 DEF Write, Refuse
  <2> QED  BY <1>3, <2>1
<1>10. CASE ForwardPassthrough
  <2>1. stage' = stage /\ at' = "answered"  BY <1>10 DEF ForwardPassthrough, runVars
  <2> QED  BY <1>3, <2>1
<1>11. CASE UpstreamFails
  <2>1. stage' = stage /\ at' = "done"  BY <1>11 DEF UpstreamFails, Refuse
  <2> QED  BY <1>3, <2>1
<1>12. CASE \E a \in Answers : Relay(a) \/ BreakOff(a)
  <2>1. stage' = stage /\ at' = "done"  BY <1>12 DEF Relay, BreakOff, Refuse
  <2> QED  BY <1>3, <2>1
<1> QED  BY <1>4, <1>5, <1>6, <1>7, <1>8, <1>9, <1>10, <1>11, <1>12 DEF Next

\* Always: what the stages so far have let through, they do not stop.
LEMMA ScreenedAlways == Spec => [](Routed /\ Screened)
<1>1. Init => Screened  BY DEF Init, Screened
<1>2. Routed /\ Screened /\ [Next]_vars => Screened'
  <2> SUFFICES ASSUME Routed, Screened, [Next]_vars PROVE Screened'  OBVIOUS
  <2>1. CASE Next  BY <2>1, ScreenedStep
  <2>2. CASE UNCHANGED vars
    <3>1. stages' = stages /\ Replacements' = Replacements /\ Wording' = Wording
      BY <2>2, SettledStages DEF vars, Wording
    <3>2. ScreenedSoFar' = ScreenedSoFar
      BY <2>2, <3>1 DEF vars, ScreenedSoFar, Stops, Matching
    <3> QED  BY <2>2, <3>1, <3>2 DEF vars, Screened
  <2> QED  BY <2>1, <2>2
<1> QED  BY <1>1, <1>2, RoutedAlways, PTL DEF Spec

\* A message's texts are those of its parts that are no images.
LEMMA TextsArePieces ==
  ASSUME NEW W, NEW message, message.parts \in Seq(Piece(W)), NEW j \in DOMAIN Texts(message)
  PROVE  \E q \in ToSet(message.parts) : ~q.image /\ Texts(message)[j] = q.text
<1> DEFINE parts == message.parts
           wanted == {p \in ToSet(parts) : ~p.image}
           texts == Only(parts, wanted)
<1>1. Texts(message) = [i \in DOMAIN texts |-> texts[i].text]  BY DEF Texts
<1>2. ToSet(texts) = ToSet(parts) \cap wanted  BY OnlyHolds
<1>3. \A q \in wanted : q \in ToSet(parts) /\ ~q.image  OBVIOUS
<1> HIDE DEF wanted, texts
<1>4. j \in DOMAIN texts /\ Texts(message)[j] = texts[j].text  BY <1>1
<1>5. texts[j] \in ToSet(texts)  BY <1>4 DEF ToSet
<1>6. texts[j] \in ToSet(parts) /\ ~texts[j].image  BY <1>2, <1>3, <1>5
<1> QED  BY <1>4, <1>6

\* What is written at a place is a part of a message that has the place.
PartAt(places, messages, p, text) ==
  \E i \in DOMAIN messages :
    /\ p \in ToSet(places[i])
    /\ \E q \in ToSet(messages[i].parts) : ~q.image /\ text = q.text

(* So it is with what is applied.                                          *)
LEMMA AppliedIsAPart ==
  ASSUME NEW R, NEW W, NEW body, NEW places \in Seq(Seq({<<>>} \cup DOMAIN body)),
         NEW messages \in Turns(R, W), ~ApplyFails(body, places, messages),
         NEW p \in DOMAIN body, \E i \in DOMAIN places : p \in ToSet(places[i])
  PROVE  PartAt(places, messages, p, Apply(body, places, messages)[p])
<1> DEFINE Turn == [role : R, parts : Seq(Piece(W))]
           Place == {<<>>} \cup DOMAIN body
           from == {w \in UNION {{i} \X DOMAIN places[i] : i \in DOMAIN places} :
                      places[w[1]][w[2]] = p}
           w == CHOOSE x \in from : TRUE
<1>1. messages \in Seq(Turn) /\ places \in Seq(Seq(Place))  BY DEF Turns
<1>2. \A m \in Turn : m.parts \in Seq(Piece(W))  OBVIOUS
<1> HIDE DEF Turn, Place
<1>3. /\ Len(messages) \in Nat /\ DOMAIN messages = 1..Len(messages)
      /\ Len(places) \in Nat /\ DOMAIN places = 1..Len(places)
      /\ \A i \in DOMAIN messages : messages[i].parts \in Seq(Piece(W))
      /\ \A i \in DOMAIN places : places[i] \in Seq(Place)
  BY <1>1, <1>2, LenProperties, ElementOfSeq
<1>4. from # {}
  <2>1. PICK i \in DOMAIN places : p \in ToSet(places[i])  OBVIOUS
  <2>2. PICK j \in DOMAIN places[i] : places[i][j] = p  BY <2>1 DEF ToSet
  <2>3. <<i, j>> \in UNION {{k} \X DOMAIN places[k] : k \in DOMAIN places}  BY <2>1, <2>2
  <2>4. <<i, j>>[1] = i /\ <<i, j>>[2] = j  OBVIOUS
  <2>5. <<i, j>> \in from  BY <2>2, <2>3, <2>4
  <2> QED  BY <2>5
<1>5. w \in from  BY <1>4
<1>6. w[1] \in DOMAIN places /\ w[2] \in DOMAIN places[w[1]] /\ places[w[1]][w[2]] = p
  BY <1>5
<1>7. Apply(body, places, messages)[p] = Texts(messages[w[1]])[w[2]]
  BY <1>4 DEF Apply
<1> HIDE DEF from, w
<1>8. /\ Len(messages) = Len(places) /\ w[1] \in DOMAIN messages
      /\ \/ Len(Texts(messages[w[1]])) = Len(places[w[1]])
         \/ places[w[1]] = <<>>
  BY <1>3, <1>6 DEF ApplyFails
<1>9. Texts(messages[w[1]]) \in Seq(Seq(W))  BY <1>3, <1>8, TextsHold
<1>10. w[2] \in DOMAIN Texts(messages[w[1]])
  <2>1. places[w[1]] \in Seq(Place)  BY <1>3, <1>6
  <2>2. places[w[1]] # <<>>  BY <1>6
  <2>3. DOMAIN places[w[1]] = 1..Len(places[w[1]])  BY <2>1, LenProperties
  <2>4. DOMAIN Texts(messages[w[1]]) = 1..Len(Texts(messages[w[1]]))  BY <1>9, LenProperties
  <2> QED  BY <1>6, <1>8, <2>2, <2>3, <2>4
<1>11. \E q \in ToSet(messages[w[1]].parts) :
         ~q.image /\ Texts(messages[w[1]])[w[2]] = q.text
  <2> DEFINE m == messages[w[1]]
             j == w[2]
  <2>1. m.parts \in Seq(Piece(W)) /\ j \in DOMAIN Texts(m)  BY <1>3, <1>8, <1>10
  <2> HIDE DEF m, j
  <2>2. \E q \in ToSet(m.parts) : ~q.image /\ Texts(m)[j] = q.text  BY <2>1, TextsArePieces
  <2> QED  BY <2>2 DEF m, j
<1>12. p \in ToSet(places[w[1]])  BY <1>6 DEF ToSet
<1> QED  BY <1>7, <1>8, <1>11, <1>12 DEF PartAt

\* What is written at a place that was scanned is what the request says there.
LEMMA AppliedIsSpoken ==
  ASSUME NEW R, NEW W, NEW body, NEW places \in Seq(Seq({<<>>} \cup DOMAIN body)),
         NEW messages \in Turns(R, W), ~ApplyFails(body, places, messages),
         NEW p \in DOMAIN body, \E i \in DOMAIN places : p \in ToSet(places[i])
  PROVE  ToSet(Apply(body, places, messages)[p]) \subseteq Spoken(messages)
<1> DEFINE text == Apply(body, places, messages)[p]
<1>1. PartAt(places, messages, p, text)  BY AppliedIsAPart
<1> HIDE DEF text
<1>2. PICK i \in DOMAIN messages :
           \E q \in ToSet(messages[i].parts) : ~q.image /\ text = q.text
  BY <1>1 DEF PartAt
<1>3. ToSet(text) \subseteq SpokenWords(messages[i].parts)  BY <1>2 DEF SpokenWords
<1> QED  BY <1>3 DEF Spoken, text

\* A body that is sent was screened.
LEMMA SentScreenedStep ==
  ASSUME Routed, Screened, ScreenedInFull, Next
  PROVE  ScreenedInFull'
<1>1. version' = version /\ client' = client /\ route' = route  BY SettledRoute
<1>2. stages' = stages /\ Replacements' = Replacements  BY <1>1, SettledStages
<1>3. CASE sent' = sent
  BY <1>1, <1>2, <1>3 DEF ScreenedInFull, Forwarded, Stops, Matching
<1>4. CASE sent' # sent /\ ~Write
  <2>1. ForwardPassthrough
    BY <1>4 DEF Next, Arrive, Admit, Parse, RunStage, StageFails, Decide, UpstreamFails, Relay, BreakOff
  <2>2. route = "passthrough"  BY <2>1 DEF ForwardPassthrough, Routed
  <2> QED  BY <1>1, <2>2 DEF ScreenedInFull, Forwarded
<1>5. CASE sent' # sent /\ Write
  <2>1. /\ at = "writing" /\ ~ApplyFails(client.body, pointers, request)
        /\ sent'.body = Apply(client.body, pointers, request)
    BY <1>5 DEF Write
  <2>2. /\ request \in Turns(Speakers(client.body), Wording)
        /\ pointers \in Seq(Seq({<<>>} \cup DOMAIN client.body))
        /\ \A p \in ScannedPlaces(client) : \E i \in DOMAIN pointers : p \in ToSet(pointers[i])
        /\ ScreenedSoFar /\ stage > Len(stages) /\ stage \in Nat
    BY <2>1 DEF Screened
  <2>3. ScannedOf[client] = ScannedPlaces(client)
    <3>1. client.method = "POST" /\ ScannedApi(client.path) # "none" /\ client \in Clients
      BY <2>1, ScannedRoute DEF Routed
    <3> QED  BY <3>1 DEF ScannedOf
  <2>4. \A k \in DOMAIN stages : k < stage
    <3>1. ArePipeline(stages)  BY BuiltStages DEF Routed, stages
    <3> QED  BY <2>2, <3>1 DEF ArePipeline
  <2>5. ASSUME NEW p \in ScannedOf[client], NEW i \in DOMAIN sent'.body[p], NEW k \in DOMAIN stages,
               Stops(stages[k], sent'.body[p][i])
        PROVE  sent'.body[p][i] \in Replacements
    <3>1. p \in DOMAIN client.body
      BY <2>3 DEF ScannedPlaces, Listing
    <3>2. ToSet(sent'.body[p]) \subseteq Spoken(request)
      BY <2>1, <2>2, <2>3, <3>1, AppliedIsSpoken
    <3>3. sent'.body[p][i] \in Spoken(request)  BY <3>2 DEF ToSet
    <3> QED  BY <2>2, <2>4, <2>5, <3>3 DEF ScreenedSoFar
  <2> QED  BY <1>1, <1>2, <2>5 DEF ScreenedInFull, Stops, Matching
<1> QED  BY <1>3, <1>4, <1>5

(* Whatever a request has, whatever the stages are and whatever they say:   *)
(* no word that one of them stops or redacts goes upstream in a place that  *)
(* the documentation says is scanned, but for what the redactor put there.  *)
THEOREM ExchangeScreenedInFull == Spec => []ScreenedInFull
<1> DEFINE IInv == Routed /\ Screened /\ ScreenedInFull
<1>1. Init => ScreenedInFull  BY DEF Init, ScreenedInFull, Forwarded
<1>2. Routed /\ Screened /\ ScreenedInFull /\ [Next]_vars => ScreenedInFull'
  <2> SUFFICES ASSUME Routed, Screened, ScreenedInFull, [Next]_vars PROVE ScreenedInFull'
    OBVIOUS
  <2>1. CASE Next  BY <2>1, SentScreenedStep
  <2>2. CASE UNCHANGED vars
    <3>1. stages' = stages /\ Replacements' = Replacements /\ route' = route
      BY <2>2, SettledStages DEF vars, route, config
    <3> QED  BY <2>2, <3>1 DEF vars, ScreenedInFull, Forwarded, Stops, Matching
  <2> QED  BY <2>1, <2>2
<1> QED  BY <1>1, <1>2, ScreenedAlways, PTL DEF Spec

-----------------------------------------------------------------------------
(* The places of an answer.                                                *)
(* A row without "**" says of a place exactly this.                        *)
LEMMA RowFits ==
  ASSUME NEW body, NEW p, NEW path, NEW types,
         path[Len(path)] # "**", \A i \in 1..Len(path) : path[i] # "**"
  PROVE  Fits(body, p, Row(path, types)) <=>
           /\ Len(p) = Len(path)
           /\ \A i \in 1..Len(path) : IF path[i] = "*" THEN p[i] \in ToSet(Index) ELSE p[i] = path[i]
           /\ \A t \in types : \E type \in t[2] : HasType(body, Upto(p, t[1]), type)
<1> DEFINE row == Row(path, types)
           Token(i) == CASE path[i] = "**" -> TRUE
                         [] path[i] = "*"  -> p[i] \in ToSet(Index)
                         [] OTHER          -> path[i] = p[i]
<1>1. row.path = path /\ row.types = types  BY DEF Row
<1> HIDE DEF row
<1>2. Fits(body, p, row) <=>
        /\ Len(p) = Len(path)
        /\ \A i \in 1..Len(path) : Token(i)
        /\ \A t \in types : \E type \in t[2] : HasType(body, Upto(p, t[1]), type)
  BY <1>1 DEF Fits, Upto
<1>3. \A i \in 1..Len(path) :
        Token(i) <=> IF path[i] = "*" THEN p[i] \in ToSet(Index) ELSE p[i] = path[i]
  OBVIOUS
<1> HIDE DEF Token
<1> QED  BY <1>2, <1>3 DEF row

(* The type of what is two tokens along a place, and four.                 *)
LEMMA TypeOnTheWay ==
  ASSUME NEW T, NEW p \in Seq(T)
  PROVE  /\ Len(p) > 2 => Append(Upto(p, 2), "type") = <<p[1], p[2], "type">>
         /\ Len(p) > 4 => Append(Upto(p, 4), "type") = <<p[1], p[2], p[3], p[4], "type">>
<1>1. Len(p) \in Nat /\ \A k \in 1..Len(p) : p[k] \in T  BY LenProperties, ElementOfSeq
<1> DEFINE S == T \cup {"type"}
<1>2. ASSUME NEW n \in Nat, n < Len(p), NEW q, q \in Seq(S), Len(q) = n + 1, q[n+1] = "type",
             \A k \in 1..n : q[k] = p[k]
      PROVE  Append(Upto(p, n), "type") = q
  <2> DEFINE u == Upto(p, n)
  <2>1. u \in Seq(S) /\ Len(u) = n /\ \A k \in 1..n : u[k] = p[k]
    <3>1. \A k \in 1..n : k \in 1..Len(p)  BY <1>1, <1>2
    <3>2. 1 \in Int /\ n \in Int /\ \A k \in 1..n : p[k] \in S  BY <1>1, <3>1
    <3>3. /\ SubSeq(p, 1, n) \in Seq(S)
          /\ Len(SubSeq(p, 1, n)) = IF 1 <= n THEN n-1+1 ELSE 0
          /\ \A k \in 1..n-1+1 : SubSeq(p, 1, n)[k] = p[1+k-1]
      BY <3>2, SubSeqProperties
    <3> QED  BY <1>2, <3>3 DEF Upto
  <2> HIDE DEF u
  <2>2. "type" \in S  OBVIOUS
  <2> HIDE DEF S
  <2> DEFINE a == Append(u, "type")
  <2>3. a \in Seq(S) /\ Len(a) = n + 1 /\ a[n+1] = "type" /\ \A k \in 1..n : a[k] = u[k]
    BY <2>1, <2>2, AppendProperties
  <2> HIDE DEF a
  <2>4. \A k \in 1..n+1 : a[k] = q[k]
    <3> TAKE k \in 1..n+1
    <3>1. k \in 1..n \/ k = n + 1  BY <1>2
    <3> QED  BY <1>2, <2>1, <2>3, <3>1
  <2>5. a = q  BY <1>2, <2>3, <2>4, SeqEqual
  <2> QED  BY <2>5 DEF a, u
<1>3. ASSUME Len(p) > 2 PROVE Append(Upto(p, 2), "type") = <<p[1], p[2], "type">>
  <2> DEFINE q == <<p[1], p[2], "type">>
  <2>1. p[1] \in S /\ p[2] \in S /\ "type" \in S  BY <1>1, <1>3
  <2>2. q \in Seq(S) /\ Len(q) = 3 /\ q[3] = "type" /\ q[1] = p[1] /\ q[2] = p[2]  BY <2>1
  <2> HIDE DEF q, S
  <2>3. 2 \in Nat /\ 2 < Len(p) /\ 2 + 1 = 3 /\ \A k \in 1..2 : k = 1 \/ k = 2  BY <1>1, <1>3
  <2>4. Append(Upto(p, 2), "type") = q  BY <1>2, <2>2, <2>3
  <2> QED  BY <2>4 DEF q
<1>4. ASSUME Len(p) > 4
      PROVE  Append(Upto(p, 4), "type") = <<p[1], p[2], p[3], p[4], "type">>
  <2> DEFINE q == <<p[1], p[2], p[3], p[4], "type">>
  <2>1. p[1] \in S /\ p[2] \in S /\ p[3] \in S /\ p[4] \in S /\ "type" \in S  BY <1>1, <1>4
  <2>2. q \in Seq(S) /\ Len(q) = 5 /\ q[5] = "type" /\ q[1] = p[1] /\ q[2] = p[2] /\ q[3] = p[3]
        /\ q[4] = p[4]
    BY <2>1
  <2> HIDE DEF q, S
  <2>3. 4 \in Nat /\ 4 < Len(p) /\ 4 + 1 = 5
        /\ \A k \in 1..4 : k = 1 \/ k = 2 \/ k = 3 \/ k = 4
    BY <1>1, <1>4
  <2>4. Append(Upto(p, 4), "type") = q  BY <1>2, <2>2, <2>3
  <2> QED  BY <2>4 DEF q
<1> QED  BY <1>3, <1>4

(* The places that are searched are those that the documentation lists.    *)
LEMMA ReplyPlaces ==
  ASSUME NEW body, \A p \in DOMAIN body : p \in Seq(ToSet(p))
  PROVE  ResponsePlaces(body) = Listing(body, ReplyTable)
<1> DEFINE path1 == <<"choices", "*", "message", "content">>
           path2 == <<"content", "*", "text">>
           path3 == <<"output", "*", "content", "*", "text">>
           types1 == {}
           types2 == {<<2, {"text"}>>}
           types3 == {<<2, {"message"}>>, <<4, {"output_text"}>>}
<1>1. ReplyTable = {Row(path1, types1), Row(path2, types2), Row(path3, types3)}  BY DEF ReplyTable
<1>2. /\ Len(path1) = 4 /\ path1[1] = "choices" /\ path1[2] = "*" /\ path1[3] = "message"
      /\ path1[4] = "content"
      /\ Len(path2) = 3 /\ path2[1] = "content" /\ path2[2] = "*" /\ path2[3] = "text"
      /\ Len(path3) = 5 /\ path3[1] = "output" /\ path3[2] = "*" /\ path3[3] = "content"
      /\ path3[4] = "*" /\ path3[5] = "text"
  OBVIOUS
<1>3. /\ \A i \in 1..4 : i = 1 \/ i = 2 \/ i = 3 \/ i = 4
      /\ \A i \in 1..3 : i = 1 \/ i = 2 \/ i = 3
      /\ \A i \in 1..5 : i = 1 \/ i = 2 \/ i = 3 \/ i = 4 \/ i = 5
      /\ {1, 2, 3} \subseteq 1..3 /\ {1, 2, 3, 4} \subseteq 1..4 /\ {1, 2, 3, 4, 5} \subseteq 1..5
  OBVIOUS
<1> HIDE DEF path1, path2, path3
<1>4. /\ path1[Len(path1)] # "**" /\ \A i \in 1..Len(path1) : path1[i] # "**"
      /\ path2[Len(path2)] # "**" /\ \A i \in 1..Len(path2) : path2[i] # "**"
      /\ path3[Len(path3)] # "**" /\ \A i \in 1..Len(path3) : path3[i] # "**"
  BY <1>2, <1>3
<1>5. ASSUME NEW p \in DOMAIN body
      PROVE  /\ Fits(body, p, Row(path1, types1)) <=>
                  Len(p) = 4 /\ p[1] = "choices" /\ p[2] \in ToSet(Index) /\ p[3] = "message"
                  /\ p[4] = "content"
             /\ Fits(body, p, Row(path2, types2)) <=>
                  Len(p) = 3 /\ p[1] = "content" /\ p[2] \in ToSet(Index) /\ p[3] = "text"
                  /\ IsWord(body, <<p[1], p[2], "type">>, "text")
             /\ Fits(body, p, Row(path3, types3)) <=>
                  Len(p) = 5 /\ p[1] = "output" /\ p[2] \in ToSet(Index) /\ p[3] = "content"
                  /\ p[4] \in ToSet(Index) /\ p[5] = "text"
                  /\ IsWord(body, <<p[1], p[2], "type">>, "message")
                  /\ IsWord(body, <<p[1], p[2], p[3], p[4], "type">>, "output_text")
  <2>1. /\ Len(p) > 2 => Append(Upto(p, 2), "type") = <<p[1], p[2], "type">>
        /\ Len(p) > 4 => Append(Upto(p, 4), "type") = <<p[1], p[2], p[3], p[4], "type">>
    BY TypeOnTheWay
  <2>7. (\A t \in types2 : \E type \in t[2] : HasType(body, Upto(p, t[1]), type))
          <=> HasType(body, Upto(p, 2), "text")
    OBVIOUS
  <2>8. (\A t \in types3 : \E type \in t[2] : HasType(body, Upto(p, t[1]), type))
          <=> HasType(body, Upto(p, 2), "message") /\ HasType(body, Upto(p, 4), "output_text")
    OBVIOUS
  <2> HIDE DEF types1, types2, types3
  <2>3. Fits(body, p, Row(path1, types1)) <=>
          /\ Len(p) = Len(path1)
          /\ \A i \in 1..Len(path1) : IF path1[i] = "*" THEN p[i] \in ToSet(Index) ELSE p[i] = path1[i]
          /\ \A t \in types1 : \E type \in t[2] : HasType(body, Upto(p, t[1]), type)
    BY <1>2, <1>4, RowFits
  <2>4. Fits(body, p, Row(path2, types2)) <=>
          /\ Len(p) = Len(path2)
          /\ \A i \in 1..Len(path2) : IF path2[i] = "*" THEN p[i] \in ToSet(Index) ELSE p[i] = path2[i]
          /\ \A t \in types2 : \E type \in t[2] : HasType(body, Upto(p, t[1]), type)
    BY <1>2, <1>4, RowFits
  <2>5. Fits(body, p, Row(path3, types3)) <=>
          /\ Len(p) = Len(path3)
          /\ \A i \in 1..Len(path3) : IF path3[i] = "*" THEN p[i] \in ToSet(Index) ELSE p[i] = path3[i]
          /\ \A t \in types3 : \E type \in t[2] : HasType(body, Upto(p, t[1]), type)
    BY <1>2, <1>4, RowFits
  <2>13. \A t \in types1 : FALSE  BY DEF types1
  <2>6. Fits(body, p, Row(path1, types1)) <=>
          Len(p) = 4 /\ p[1] = "choices" /\ p[2] \in ToSet(Index) /\ p[3] = "message"
          /\ p[4] = "content"
    BY <1>2, <1>3, <2>3, <2>13
  <2>9. Fits(body, p, Row(path2, types2)) <=>
          Len(p) = 3 /\ p[1] = "content" /\ p[2] \in ToSet(Index) /\ p[3] = "text"
          /\ HasType(body, Upto(p, 2), "text")
    BY <1>2, <1>3, <2>4, <2>7
  <2>10. Fits(body, p, Row(path3, types3)) <=>
          Len(p) = 5 /\ p[1] = "output" /\ p[2] \in ToSet(Index) /\ p[3] = "content"
          /\ p[4] \in ToSet(Index) /\ p[5] = "text"
          /\ HasType(body, Upto(p, 2), "message") /\ HasType(body, Upto(p, 4), "output_text")
    BY <1>2, <1>3, <2>5, <2>8
  <2>11. ASSUME Len(p) = 3
         PROVE  HasType(body, Upto(p, 2), "text") <=> IsWord(body, <<p[1], p[2], "type">>, "text")
    <3>1. Append(Upto(p, 2), "type") = <<p[1], p[2], "type">>  BY <2>1, <2>11
    <3> QED  BY <3>1 DEF HasType
  <2>12. ASSUME Len(p) = 5
         PROVE  /\ HasType(body, Upto(p, 2), "message")
                     <=> IsWord(body, <<p[1], p[2], "type">>, "message")
                /\ HasType(body, Upto(p, 4), "output_text")
                     <=> IsWord(body, <<p[1], p[2], p[3], p[4], "type">>, "output_text")
    <3>1. /\ Append(Upto(p, 2), "type") = <<p[1], p[2], "type">>
          /\ Append(Upto(p, 4), "type") = <<p[1], p[2], p[3], p[4], "type">>
      BY <2>1, <2>12
    <3> QED  BY <3>1 DEF HasType
  <2> QED  BY <2>6, <2>9, <2>10, <2>11, <2>12
<1> HIDE DEF types1, types2, types3
<1>6. \A p \in DOMAIN body :
        (\E row \in ReplyTable : Fits(body, p, row)) <=>
          Fits(body, p, Row(path1, types1)) \/ Fits(body, p, Row(path2, types2))
          \/ Fits(body, p, Row(path3, types3))
  BY <1>1
<1>7. \A p \in DOMAIN body : p \in ResponsePlaces(body) <=> p \in Listing(body, ReplyTable)
  BY <1>5, <1>6 DEF ResponsePlaces, Listing
<1> QED  BY <1>7 DEF ResponsePlaces, Listing

\* Sequences of one domain have one length.
LEMMA SameLength ==
  ASSUME NEW S, NEW T, NEW s \in Seq(S), NEW t \in Seq(T), DOMAIN s = DOMAIN t
  PROVE  Len(s) = Len(t)
<1>1. /\ Len(s) \in Nat /\ DOMAIN s = 1..Len(s)
      /\ Len(t) \in Nat /\ DOMAIN t = 1..Len(t)
  BY LenProperties
<1>2. \A x, y \in Nat : 1..x = 1..y => x = y
  <2> SUFFICES ASSUME NEW x \in Nat, NEW y \in Nat, 1..x = 1..y, x < y PROVE FALSE  OBVIOUS
  <2>1. y \in 1..y /\ y \notin 1..x  OBVIOUS
  <2> QED  BY <2>1
<1> QED  BY <1>1, <1>2

(* What the redactor makes of a text is the text, cleaned.                 *)
LEMMA TextCleaned ==
  ASSUME NEW pii, Ordered(pii), NEW text, text \in Seq(ToSet(text))
  PROVE  Cleaned(pii, text, RedactText(pii, text))
<1> DEFINE new == RedactText(pii, text)
<1>1. Len(text) \in Nat /\ DOMAIN text = 1..Len(text)  BY LenProperties
<1>2. new = [i \in DOMAIN text |-> new[i]] /\ DOMAIN new = DOMAIN text  BY DEF RedactText
<1>3. \A i \in DOMAIN text : Redacted(pii, text[i], new[i])  BY RedactTextAt
<1> HIDE DEF new
<1>4. Len(new) = Len(text)
  <2>1. new = [i \in 1..Len(text) |-> new[i]]  BY <1>1, <1>2
  <2>2. new \in Seq({new[i] : i \in 1..Len(text)})  BY <1>1, <2>1
  <2> QED  BY <1>1, <1>2, <2>2, SameLength
<1> QED  BY <1>3, <1>4 DEF Cleaned, new

(* A reply is made once: it refuses, or it relays an answer that can be    *)
(* decoded or need not be.                                                 *)
LEMMA ReplyMade ==
  ASSUME Routed, Next
  PROVE  \/ reply' # <<>> /\ reply'.code # "relayed"
         \/ reply' = reply /\ answer' = answer /\ skipped' = skipped
         \/ \E a \in Answers : Relay(a) /\ ~(redactor # <<>> /\ Undecoded(a))
<1> DEFINE Refused == reply' # <<>> /\ reply'.code # "relayed"
           Kept == reply' = reply /\ answer' = answer /\ skipped' = skipped
<1>1. ASSUME NEW status, NEW code, Refuse(status, code), code # "relayed"
      PROVE  Refused
  <2> DEFINE r == [status |-> status, code |-> code, headers |-> <<>>, body |-> <<>>]
  <2>1. reply' = r  BY <1>1 DEF Refuse
  <2>2. r # <<>> /\ r.code = code
    <3>1. DOMAIN r # DOMAIN <<>>  OBVIOUS
    <3> QED  BY <3>1
  <2> QED  BY <1>1, <2>1, <2>2
<1>2. ASSUME NEW code, BlockWith(code), code # "relayed"
      PROVE  Refused
  <2>1. Refuse(403, code)  BY <1>2 DEF BlockWith
  <2> HIDE DEF Refused
  <2> QED  BY <1>1, <1>2, <2>1
<1>3. CASE Arrive  BY <1>1, <1>3 DEF Arrive
<1>4. CASE Admit  BY <1>1, <1>4 DEF Admit
<1>5. CASE Parse  BY <1>1, <1>5 DEF Parse
<1>6. CASE RunStage
  <2> DEFINE said == Evaluate(stages[stage], request)
  <2>1. answer' = answer /\ skipped' = skipped  BY <1>6 DEF RunStage
  <2>2. reply' = reply \/ BlockWith("input_too_long_for_classifier")
        \/ (said.kind = "block" /\ BlockWith(said.code))
        \/ said.kind \notin {"allow", "block", "redact", "tooLong"}
    BY <1>6 DEF RunStage, Continue
  <2>3. said.kind \in {"allow", "block", "redact", "tooLong"}
    BY DEF Evaluate, EvaluateRules, EvaluatePii, EvaluatePolicy, EvaluateOnnx, Allow, Block
  <2>4. said.kind = "block" => said.code # "relayed"  BY CodesOfStages
  <2>5. BlockWith("input_too_long_for_classifier") => Refused
    <3> HIDE DEF Refused
    <3> QED  BY <1>2
  <2>6. said.kind = "block" /\ BlockWith(said.code) => Refused
    <3> HIDE DEF said, Refused
    <3> QED  BY <1>2, <2>4
  <2> HIDE DEF said
  <2> QED  BY <2>1, <2>2, <2>3, <2>5, <2>6
<1>7. CASE StageFails
  <2>1. answer' = answer /\ skipped' = skipped /\ (BlockWith("stage_error") \/ reply' = reply)
    BY <1>7 DEF StageFails, Continue
  <2>2. BlockWith("stage_error") => Refused
    <3> HIDE DEF Refused
    <3> QED  BY <1>2
  <2> QED  BY <2>1, <2>2
<1>8. CASE Decide  BY <1>8 DEF Decide
<1>9. CASE Write  BY <1>1, <1>9 DEF Write
<1>10. CASE ForwardPassthrough  BY <1>10 DEF ForwardPassthrough
<1>11. CASE UpstreamFails  BY <1>1, <1>11 DEF UpstreamFails
<1>12. ASSUME NEW a \in Answers, Relay(a)
       PROVE  Refused \/ ~(redactor # <<>> /\ Undecoded(a))
  BY <1>1, <1>12 DEF Relay
<1>13. ASSUME NEW a \in Answers, BreakOff(a) PROVE Refused  BY <1>1, <1>13 DEF BreakOff
<1> QED
  BY <1>3, <1>4, <1>5, <1>6, <1>7, <1>8, <1>9, <1>10, <1>11, <1>12, <1>13 DEF Next

\* The redactor of the responses has its entities in a sequence.
LEMMA RedactorOrdered ==
  ASSUME version \in Usable, redactor # <<>>
  PROVE  Ordered(redactor[1])
<1> DEFINE c == Loaded(version)
<1>1. redactor = ResponseRedactor(c)  BY DEF redactor, RedactorOf
<1>2. version \in Readable  BY DEF Usable, LoadFails
<1>3. c.stages.pii_redactor.entities \in Seq(STRING)  BY <1>2, SchemaAssumption
<1> HIDE DEF c
<1>4. redactor = <<PiiRedactor(c)>>  BY <1>1 DEF ResponseRedactor
<1>5. redactor[1].entities = c.stages.pii_redactor.entities  BY <1>4 DEF PiiRedactor
<1> QED  BY <1>3, <1>5, LenProperties DEF Ordered

(* What is relayed of an answer.                                           *)
LEMMA RelayedIsClean ==
  ASSUME NEW a \in Answers, Relay(a), ~(redactor # <<>> /\ Undecoded(a)),
         version \in Usable, version' = version
  PROVE  ResponseClean'
<1> DEFINE body   == RelayedBody(a)
           fields == Listing(a.body, ReplyTable)
           typed  == MediaType(a, "application/json")
           json   == typed /\ a.body # Garbled
           stream == MediaType(a, "text/event-stream")
           error  == a.status \notin 200..299
<1>1. answer' = a /\ reply'.body = body /\ skipped' = Skipped(a)
  BY DEF Relay
<1>2. redactor' = redactor  BY DEF redactor
<1>3. /\ \A p \in DOMAIN a.body : p \in Seq(ToSet(p)) /\ a.body[p] \in Seq(ToSet(a.body[p]))
  BY ExchangeAssumption DEF IsDocument
<1>4. ResponsePlaces(a.body) = fields  BY <1>3, ReplyPlaces
<1>5. body = IF redactor # <<>> /\ json
             THEN [p \in DOMAIN a.body |->
                     IF p \in fields THEN RedactText(redactor[1], a.body[p]) ELSE a.body[p]]
             ELSE a.body
  BY <1>4 DEF RelayedBody, RedactResponse
<1>6. ~(typed /\ stream)  BY DEF MediaType
<1>7. redactor # <<>> /\ ~json /\ ~stream => Skipped(a) # "none" \/ (error /\ ~typed)
  <2>1. ASSUME redactor # <<>>, typed, a.body = Garbled PROVE Skipped(a) = "unparseable_body"
    BY <1>6, <2>1 DEF Skipped
  <2>2. ASSUME redactor # <<>>, ~typed, ~stream, ~error
        PROVE  Skipped(a) = "unknown_content_type"
    BY <2>2 DEF Skipped
  <2> QED  BY <2>1, <2>2
<1>8. redactor # <<>> => First(a.headers, "content-encoding") \in {<<>>, <<"identity">>}
  BY DEF Undecoded
<1>9. ASSUME redactor # <<>>, NEW p \in DOMAIN a.body
      PROVE  Cleaned(redactor[1], a.body[p], RedactText(redactor[1], a.body[p]))
  <2>1. Ordered(redactor[1])  BY <1>9, RedactorOrdered
  <2> QED  BY <1>3, <2>1, TextCleaned
<1>10. fields \subseteq DOMAIN a.body  BY DEF Listing
<1> HIDE DEF body, fields, typed, stream, error
<1>11. redactor = <<>> \/ ~json => body = a.body  BY <1>5
<1>12. redactor # <<>> /\ json =>
         /\ DOMAIN body = DOMAIN a.body
         /\ \A p \in DOMAIN a.body \ fields : body[p] = a.body[p]
         /\ \A p \in fields : Cleaned(redactor[1], a.body[p], body[p])
  BY <1>5, <1>9, <1>10
<1> HIDE DEF json
<1> QED  BY <1>1, <1>2, <1>7, <1>8, <1>11, <1>12
         DEF ResponseClean, fields, json, typed, stream, error

(* Whatever upstreams answer: with response redaction on, a JSON reply has  *)
(* been cleaned in the documented fields and nowhere else, an encoding that *)
(* the proxy does not read is refused, and what is neither searched nor an  *)
(* event stream arrives exactly as it was, and is counted unless it is an   *)
(* error reply that is not JSON.                                           *)
THEOREM ExchangeResponseClean == Spec => []ResponseClean
<1>1. Init => ResponseClean  BY DEF Init, ResponseClean
<1>2. Routed /\ ResponseClean /\ [Next]_vars => ResponseClean'
  <2> SUFFICES ASSUME Routed, ResponseClean, [Next]_vars PROVE ResponseClean'  OBVIOUS
  <2>1. CASE UNCHANGED vars
    BY <2>1 DEF vars, ResponseClean, redactor, MediaType, First
  <2>2. CASE Next
    <3>1. version' = version  BY <2>2, SettledRoute
    <3>2. CASE reply' # <<>> /\ reply'.code # "relayed"  BY <3>2 DEF ResponseClean
    <3>3. CASE reply' = reply /\ answer' = answer /\ skipped' = skipped
      BY <3>1, <3>3 DEF ResponseClean, redactor
    <3>4. CASE \E a \in Answers : Relay(a) /\ ~(redactor # <<>> /\ Undecoded(a))
      BY <2>2, <3>1, <3>4, RelayedIsClean DEF Routed
    <3> QED  BY <2>2, <3>2, <3>3, <3>4, ReplyMade
  <2> QED  BY <2>1, <2>2
<1> QED  BY <1>1, <1>2, RoutedAlways, PTL DEF Spec

-----------------------------------------------------------------------------
(* Nothing else is extracted: a segment is an image, or the text of one of  *)
(* these places.                                                           *)
SegmentAt(body, P) ==
  {s \in Segment(body) : ~s.image => s.at \in P /\ s.text = body[s.at]}

\* The text of a place is one of its segments, and it is where it says.
LEMMA TextAtOnly ==
  ASSUME NEW body, NEW P, NEW p, IsString(body, p) => p \in P
  PROVE  TextAt(body, p) \in Seq(SegmentAt(body, P))
<1> DEFINE s == [image |-> FALSE, at |-> p, text |-> body[p]]
           one == <<s>>
<1>1. CASE IsString(body, p)
  <2>1. TextAt(body, p) = one  BY <1>1 DEF TextAt
  <2>2. s \in SegmentAt(body, P)  BY <1>1 DEF IsString, Segment, SegmentAt
  <2> HIDE DEF s
  <2>3. one \in Seq(SegmentAt(body, P))  BY <2>2
  <2> QED  BY <2>1, <2>3
<1>2. CASE ~IsString(body, p)  BY <1>2, EmptySeq DEF TextAt
<1> QED  BY <1>1, <1>2

\* An image is nowhere.
LEMMA ImageOnly == ASSUME NEW body, NEW P PROVE Image \in Seq(SegmentAt(body, P))
<1> DEFINE s == [image |-> TRUE, at |-> <<>>, text |-> <<>>]
           one == <<s>>
<1>1. s \in SegmentAt(body, P)  BY DEF Segment, SegmentAt
<1> HIDE DEF s
<1>2. one \in Seq(SegmentAt(body, P))  BY <1>1
<1> QED  BY <1>2 DEF Image, s

\* The strings below a place are segments of the places below it.
LEMMA StringsOnly ==
  ASSUME NEW body, IsFiniteSet(DOMAIN body), NEW P, NEW here,
         \A p \in DOMAIN body : IsPrefix(here, p) /\ IsString(body, p) => p \in P
  PROVE  Strings(body, here) \in Seq(SegmentAt(body, P))
<1> DEFINE S == {p \in DOMAIN body : IsPrefix(here, p) /\ IsString(body, p)}
           inside == SetToSeq(S)
           s == [i \in DOMAIN inside |->
                  [image |-> FALSE, at |-> inside[i], text |-> body[inside[i]]]]
<1>1. Strings(body, here) = s  BY DEF Strings, PointerTo
<1>2. IsFiniteSet(S)  BY FS_Subset
<1>3. S \subseteq DOMAIN body /\ S \subseteq P  OBVIOUS
<1> HIDE DEF S
<1>4. inside \in Seq(S)  BY <1>2, SetToSeqHas
<1> HIDE DEF inside
<1>5. /\ Len(inside) \in Nat /\ DOMAIN inside = 1..Len(inside)
      /\ \A i \in DOMAIN inside : inside[i] \in S
  BY <1>4, LenProperties, ElementOfSeq
<1>6. \A i \in DOMAIN inside : s[i] \in SegmentAt(body, P)
  BY <1>3, <1>5 DEF Segment, SegmentAt
<1>7. s \in [1..Len(inside) -> SegmentAt(body, P)]  BY <1>5, <1>6
<1> QED  BY <1>1, <1>5, <1>7, FunctionIsSequence

(* The pieces of an array, and what is before it.                          *)
LEMMA ContentOnly ==
  ASSUME NEW body, NEW P, NEW content, IsString(body, content) => content \in P,
         NEW f, \A n \in DOMAIN Index : f[n] \in Seq(SegmentAt(body, P)),
         f = [n \in DOMAIN Index |-> f[n]]
  PROVE  /\ FlattenSeq(f) \in Seq(SegmentAt(body, P))
         /\ TextAt(body, content) \o FlattenSeq(f) \in Seq(SegmentAt(body, P))
BY TextAtOnly, EachHas, ConcatProperties

-----------------------------------------------------------------------------
(* The places that the extraction walks to.                                *)
Keys == {"messages", "content", "text", "refusal", "tool_calls", "function", "arguments",
         "function_call", "system", "input", "source", "data", "type", "instructions", "output"}
        \cup ToSet(Index)

(* One token further.                                                      *)
LEMMA Grow ==
  ASSUME NEW s \in Seq(Keys), NEW e \in Keys
  PROVE  LET q == Append(s, e)
         IN  /\ q \in Seq(Keys) /\ Len(q) = Len(s) + 1 /\ Len(s) \in Nat
             /\ q[Len(s) + 1] = e
             /\ \A k \in 1..Len(s) : q[k] = s[k] /\ Upto(q, k) = Upto(s, k)
             /\ Upto(q, Len(s) + 1) = q
<1> DEFINE q == Append(s, e)
<1>1. /\ q \in Seq(Keys) /\ Len(q) = Len(s) + 1 /\ Len(s) \in Nat /\ q[Len(s) + 1] = e
      /\ \A k \in 1..Len(s) : q[k] = s[k]
  BY AppendProperties, LenProperties
<1> HIDE DEF q
<1>2. ASSUME NEW k \in 1..Len(s) PROVE Upto(q, k) = Upto(s, k)
  <2>1. /\ \A i \in 1..Len(s) : s[i] \in Keys
        /\ \A i \in 1..Len(q) : q[i] \in Keys
    BY <1>1, ElementOfSeq
  <2>2. 1 \in Int /\ k \in Int /\ k >= 1 /\ (\A i \in 1..k : s[i] \in Keys)
        /\ (\A i \in 1..k : q[i] \in Keys)
    BY <1>1, <2>1
  <2>3. /\ SubSeq(q, 1, k) \in Seq(Keys) /\ Len(SubSeq(q, 1, k)) = k-1+1
        /\ \A i \in 1..k-1+1 : SubSeq(q, 1, k)[i] = q[1+i-1]
        /\ SubSeq(s, 1, k) \in Seq(Keys) /\ Len(SubSeq(s, 1, k)) = k-1+1
        /\ \A i \in 1..k-1+1 : SubSeq(s, 1, k)[i] = s[1+i-1]
    BY <2>2, SubSeqProperties
  <2> DEFINE a == SubSeq(q, 1, k)
             b == SubSeq(s, 1, k)
  <2>4. a \in Seq(Keys) /\ b \in Seq(Keys) /\ Len(a) = k /\ Len(b) = k
        /\ \A i \in 1..k : a[i] = b[i]
    BY <1>1, <2>3
  <2> HIDE DEF a, b
  <2>5. a = b  BY <2>4, SeqEqual
  <2> QED  BY <2>5 DEF a, b, Upto
<1>3. Upto(q, Len(s) + 1) = q
  <2>1. Len(q) > 0  BY <1>1
  <2> QED  BY <1>1, <2>1, UptoEnds
<1> QED  BY <1>1, <1>2, <1>3 DEF q

(* An item of an array, and a field of it.                                 *)
LEMMA ItemPlace ==
  ASSUME NEW s \in Seq(Keys), NEW n \in DOMAIN Index
  PROVE  LET q == Item(s, n)
         IN  /\ q \in Seq(Keys) /\ Len(q) = Len(s) + 1 /\ Len(s) \in Nat
             /\ q[Len(s) + 1] \in ToSet(Index)
             /\ \A k \in 1..Len(s) : q[k] = s[k] /\ Upto(q, k) = Upto(s, k)
             /\ Upto(q, Len(s) + 1) = q
<1>1. Index[n] \in ToSet(Index) /\ Index[n] \in Keys  BY DEF ToSet, Keys
<1> QED  BY <1>1, Grow DEF Item

\* A place, of a field of an item.
InField(q, a, b, here) ==
  /\ q \in Seq(Keys) /\ Len(q) = 3 /\ q[1] = a /\ q[2] \in ToSet(Index) /\ q[3] = b
  /\ Upto(q, 2) = here /\ Upto(q, 3) = q

\* A field of an item of a list is in such a place.
LEMMA FieldPlace ==
  ASSUME NEW a \in Keys, NEW b \in Keys, NEW n \in DOMAIN Index
  PROVE  InField(Append(Item(<<a>>, n), b), a, b, Item(<<a>>, n)) /\ Item(<<a>>, n) \in Seq(Keys)
<1> DEFINE one == <<a>>
<1>1. one \in Seq(Keys) /\ Len(one) = 1 /\ one[1] = a  OBVIOUS
<1> HIDE DEF one
<1> DEFINE here == Item(one, n)
           q == Append(here, b)
<1>2. /\ here \in Seq(Keys) /\ Len(here) = 2 /\ here[2] \in ToSet(Index)
      /\ here[1] = a /\ Upto(here, 2) = here
  <2>1. 1 \in 1..Len(one) /\ Len(one) + 1 = 2  BY <1>1
  <2> QED  BY <1>1, <2>1, ItemPlace
<1> HIDE DEF here
<1>3. /\ q \in Seq(Keys) /\ Len(q) = 3 /\ q[3] = b /\ Upto(q, 3) = q
      /\ \A k \in 1..2 : q[k] = here[k] /\ Upto(q, k) = Upto(here, k)
  <2>1. Len(here) + 1 = 3 /\ 1..Len(here) = 1..2  BY <1>2
  <2>2. /\ q \in Seq(Keys) /\ Len(q) = Len(here) + 1 /\ q[Len(here) + 1] = b
        /\ Upto(q, Len(here) + 1) = q
        /\ \A k \in 1..Len(here) : q[k] = here[k] /\ Upto(q, k) = Upto(here, k)
    BY <1>2, Grow
  <2> HIDE DEF q
  <2> QED  BY <2>1, <2>2
<1> HIDE DEF q
<1>4. 1 \in 1..2 /\ 2 \in 1..2  OBVIOUS
<1>5. InField(q, a, b, here)  BY <1>2, <1>3, <1>4 DEF InField
<1> QED  BY <1>2, <1>5 DEF q, here, one

\* A field of an item of an array that is at a place of length l.
Grown(q, s, l, part, b) ==
  /\ q \in Seq(Keys) /\ Len(q) = l + 2 /\ q[l + 1] \in ToSet(Index) /\ q[l + 2] = b
  /\ part \in Seq(Keys)
  /\ \A k \in 1..l : q[k] = s[k] /\ Upto(q, k) = Upto(s, k)
  /\ Upto(q, l + 1) = part /\ Upto(q, l + 2) = q

\* A field of an item of what is at a place is two tokens further down.
LEMMA ItemFieldPlace ==
  ASSUME NEW s \in Seq(Keys), NEW b \in Keys, NEW n \in DOMAIN Index
  PROVE  Grown(Append(Item(s, n), b), s, Len(s), Item(s, n), b)
<1> DEFINE part == Item(s, n)
           q == Append(part, b)
           l == Len(s)
<1>1. /\ part \in Seq(Keys) /\ Len(part) = l + 1 /\ part[l + 1] \in ToSet(Index) /\ l \in Nat
      /\ \A k \in 1..l : part[k] = s[k] /\ Upto(part, k) = Upto(s, k)
      /\ Upto(part, l + 1) = part
  BY ItemPlace
<1> HIDE DEF part
<1>2. /\ q \in Seq(Keys) /\ Len(q) = l + 1 + 1 /\ q[l + 1 + 1] = b /\ Upto(q, l + 1 + 1) = q
      /\ \A k \in 1..l + 1 : q[k] = part[k] /\ Upto(q, k) = Upto(part, k)
  BY <1>1, Grow
<1> HIDE DEF q
<1>3. l + 1 + 1 = l + 2 /\ l + 1 \in 1..l + 1 /\ \A k \in 1..l : k \in 1..l + 1  BY <1>1
<1> HIDE DEF l
<1>4. Grown(q, s, l, part, b)  BY <1>1, <1>2, <1>3 DEF Grown
<1> QED  BY <1>4 DEF q, part, l

\* An item of a field of an item, and a field of that one.
PartOf(a, n, b, m) == Item(Append(Item(<<a>>, n), b), m)

InPart(q, a, b, d, here, part) ==
  /\ q \in Seq(Keys) /\ Len(q) = 5
  /\ q[1] = a /\ q[2] \in ToSet(Index) /\ q[3] = b /\ q[4] \in ToSet(Index) /\ q[5] = d
  /\ Upto(q, 2) = here /\ Upto(q, 4) = part /\ Upto(q, 5) = q

\* A field of a part of an item is in such a place.
LEMMA PartPlace ==
  ASSUME NEW a \in Keys, NEW b \in Keys, NEW d \in Keys, NEW n \in DOMAIN Index, NEW m \in DOMAIN Index
  PROVE  /\ InPart(Append(PartOf(a, n, b, m), d), a, b, d, Item(<<a>>, n), PartOf(a, n, b, m))
         /\ PartOf(a, n, b, m) \in Seq(Keys)
<1> DEFINE here == Item(<<a>>, n)
           s == Append(here, b)
           part == Item(s, m)
           q == Append(part, d)
<1>1. InField(s, a, b, here)  BY FieldPlace
<1>2. part = PartOf(a, n, b, m)  BY DEF PartOf
<1> HIDE DEF s, here
<1>3. s \in Seq(Keys) /\ Len(s) = 3  BY <1>1 DEF InField
<1>4. Grown(q, s, Len(s), part, d)  BY <1>3, ItemFieldPlace
<1>5. Grown(q, s, 3, part, d)  BY <1>3, <1>4
<1> HIDE DEF q, part
<1>6. InPart(q, a, b, d, here, part) /\ part \in Seq(Keys)
  BY <1>1, <1>5 DEF InPart, InField, Grown
<1> QED  BY <1>2, <1>6 DEF q, here

\* An item of that field, and a field of it.
InInner(q, a, b, d, e, here, part, inner) ==
  /\ q \in Seq(Keys) /\ Len(q) = 7
  /\ q[1] = a /\ q[2] \in ToSet(Index) /\ q[3] = b /\ q[4] \in ToSet(Index) /\ q[5] = d
  /\ q[6] \in ToSet(Index) /\ q[7] = e
  /\ Upto(q, 2) = here /\ Upto(q, 4) = part /\ Upto(q, 6) = inner

\* A field of a part of a part is in such a place.
LEMMA InnerPlace ==
  ASSUME NEW a \in Keys, NEW b \in Keys, NEW d \in Keys, NEW e \in Keys,
         NEW n \in DOMAIN Index, NEW m \in DOMAIN Index, NEW k \in DOMAIN Index
  PROVE  LET inner == Item(Append(PartOf(a, n, b, m), d), k)
         IN  InInner(Append(inner, e), a, b, d, e, Item(<<a>>, n), PartOf(a, n, b, m), inner)
<1> DEFINE here == Item(<<a>>, n)
           part == PartOf(a, n, b, m)
           r == Append(part, d)
           inner == Item(r, k)
           q == Append(inner, e)
<1>1. InPart(r, a, b, d, here, part)  BY PartPlace
<1> HIDE DEF r, part, here
<1>2. r \in Seq(Keys) /\ Len(r) = 5  BY <1>1 DEF InPart
<1>3. Grown(q, r, Len(r), inner, e)  BY <1>2, ItemFieldPlace
<1>4. Grown(q, r, 5, inner, e)  BY <1>2, <1>3
<1> HIDE DEF q, inner
<1>5. InInner(q, a, b, d, e, here, part, inner)  BY <1>1, <1>4 DEF InInner, InPart, Grown
<1> QED  BY <1>5 DEF q, here, part, inner, r

\* Two fields, one in the other.
InCall(q, a, b, d, here) ==
  /\ q \in Seq(Keys) /\ Len(q) = 4 /\ q[1] = a /\ q[2] \in ToSet(Index) /\ q[3] = b /\ q[4] = d
  /\ Upto(q, 2) = here

\* A field of a field of an item is in such a place.
LEMMA CallPlace ==
  ASSUME NEW a \in Keys, NEW b \in Keys, NEW d \in Keys, NEW n \in DOMAIN Index
  PROVE  InCall(Item(<<a>>, n) \o <<b, d>>, a, b, d, Item(<<a>>, n))
<1> DEFINE here == Item(<<a>>, n)
           s == Append(here, b)
           q == Append(s, d)
<1>1. InField(s, a, b, here) /\ here \in Seq(Keys)  BY FieldPlace
<1> HIDE DEF here
<1>2. here \o <<b, d>> = q  BY <1>1, ConcatTwo
<1> HIDE DEF s
<1>3. s \in Seq(Keys) /\ Len(s) = 3  BY <1>1 DEF InField
<1>4. /\ q \in Seq(Keys) /\ Len(q) = Len(s) + 1 /\ q[Len(s) + 1] = d
      /\ \A k \in 1..Len(s) : q[k] = s[k] /\ Upto(q, k) = Upto(s, k)
  BY <1>3, Grow
<1> HIDE DEF q
<1>5. InCall(q, a, b, d, here)  BY <1>1, <1>3, <1>4 DEF InCall, InField
<1> QED  BY <1>2, <1>5 DEF here

InDeep(q, a, b, d, e, here, part) ==
  /\ q \in Seq(Keys) /\ Len(q) = 6
  /\ q[1] = a /\ q[2] \in ToSet(Index) /\ q[3] = b /\ q[4] \in ToSet(Index) /\ q[5] = d /\ q[6] = e
  /\ Upto(q, 2) = here /\ Upto(q, 4) = part /\ Upto(q, 5) = Append(part, d)

\* A field of a field of a part is in such a place.
LEMMA DeepPlace ==
  ASSUME NEW a \in Keys, NEW b \in Keys, NEW d \in Keys, NEW e \in Keys,
         NEW n \in DOMAIN Index, NEW m \in DOMAIN Index
  PROVE  InDeep(PartOf(a, n, b, m) \o <<d, e>>, a, b, d, e, Item(<<a>>, n), PartOf(a, n, b, m))
<1> DEFINE here == Item(<<a>>, n)
           part == PartOf(a, n, b, m)
           s == Append(part, d)
           q == Append(s, e)
<1>1. InPart(s, a, b, d, here, part) /\ part \in Seq(Keys)  BY PartPlace
<1> HIDE DEF here, part
<1>2. part \o <<d, e>> = q  BY <1>1, ConcatTwo
<1> HIDE DEF s
<1>3. s \in Seq(Keys) /\ Len(s) = 5  BY <1>1 DEF InPart
<1>4. /\ q \in Seq(Keys) /\ Len(q) = Len(s) + 1 /\ q[Len(s) + 1] = e
      /\ \A k \in 1..Len(s) : q[k] = s[k] /\ Upto(q, k) = Upto(s, k)
  BY <1>3, Grow
<1> HIDE DEF q
<1>5. InDeep(q, a, b, d, e, here, part)
  <2>1. s = Append(part, d)  BY DEF s
  <2> QED  BY <1>1, <1>3, <1>4, <2>1 DEF InDeep, InPart
<1> QED  BY <1>2, <1>5 DEF here, part

-----------------------------------------------------------------------------
(* A place that has the tokens of a row.                                   *)
Matches(q, path) ==
  /\ Len(path) \in Nat \ {0} /\ Len(q) = Len(path)
  /\ \A i \in 1..Len(path) :
       path[i] # "**" /\ IF path[i] = "*" THEN q[i] \in ToSet(Index) ELSE q[i] = path[i]

\* A place that matches a row, with the types it asks for, is listed.
LEMMA MatchListed ==
  ASSUME NEW body, NEW q, NEW path, NEW types, NEW table,
         Matches(q, path), Row(path, types) \in table, IsString(body, q),
         \A t \in types : \E type \in t[2] : HasType(body, Upto(q, t[1]), type)
  PROVE  q \in Listing(body, table)
<1>1. Len(path) \in 1..Len(path)  BY DEF Matches
<1>2. path[Len(path)] # "**" /\ \A i \in 1..Len(path) : path[i] # "**"  BY <1>1 DEF Matches
<1>3. Fits(body, q, Row(path, types))  BY <1>2, RowFits DEF Matches
<1> QED  BY <1>3 DEF Listing, IsString

\* No key is a pattern.
LEMMA KeyTokens == \A e \in Keys : e # "*" /\ e # "**"
BY DEF Keys, Index, ToSet

\* A key at the top matches its own row.
LEMMA OneMatches ==
  ASSUME NEW a \in Keys
  PROVE  Matches(<<a>>, <<a>>)
BY KeyTokens DEF Matches

\* A field of an item matches the row of that field.
LEMMA FieldMatches ==
  ASSUME NEW a \in Keys, NEW b \in Keys, NEW q, NEW here, InField(q, a, b, here)
  PROVE  Matches(q, <<a, "*", b>>)
<1> DEFINE path == <<a, "*", b>>
<1>1. /\ Len(path) = 3 /\ path[1] = a /\ path[2] = "*" /\ path[3] = b
      /\ \A i \in 1..3 : i = 1 \/ i = 2 \/ i = 3
  OBVIOUS
<1> HIDE DEF path
<1> QED  BY <1>1, KeyTokens DEF Matches, InField

\* A field of a field of an item matches the row of that field.
LEMMA CallMatches ==
  ASSUME NEW a \in Keys, NEW b \in Keys, NEW d \in Keys, NEW q, NEW here, InCall(q, a, b, d, here)
  PROVE  Matches(q, <<a, "*", b, d>>)
<1> DEFINE path == <<a, "*", b, d>>
<1>1. /\ Len(path) = 4 /\ path[1] = a /\ path[2] = "*" /\ path[3] = b /\ path[4] = d
      /\ \A i \in 1..4 : i = 1 \/ i = 2 \/ i = 3 \/ i = 4
  OBVIOUS
<1> HIDE DEF path
<1> QED  BY <1>1, KeyTokens DEF Matches, InCall

\* A field of a part of an item matches the row of that field.
LEMMA PartMatches ==
  ASSUME NEW a \in Keys, NEW b \in Keys, NEW d \in Keys, NEW q, NEW here, NEW part,
         InPart(q, a, b, d, here, part)
  PROVE  Matches(q, <<a, "*", b, "*", d>>)
<1> DEFINE path == <<a, "*", b, "*", d>>
<1>1. /\ Len(path) = 5 /\ path[1] = a /\ path[2] = "*" /\ path[3] = b /\ path[4] = "*"
      /\ path[5] = d /\ \A i \in 1..5 : i = 1 \/ i = 2 \/ i = 3 \/ i = 4 \/ i = 5
  OBVIOUS
<1> HIDE DEF path
<1> QED  BY <1>1, KeyTokens DEF Matches, InPart

\* A field of a field of a part matches the row of that field.
LEMMA DeepMatches ==
  ASSUME NEW a \in Keys, NEW b \in Keys, NEW d \in Keys, NEW e \in Keys,
         NEW q, NEW here, NEW part, InDeep(q, a, b, d, e, here, part)
  PROVE  Matches(q, <<a, "*", b, "*", d, e>>)
<1> DEFINE path == <<a, "*", b, "*", d, e>>
<1>1. /\ Len(path) = 6 /\ path[1] = a /\ path[2] = "*" /\ path[3] = b /\ path[4] = "*"
      /\ path[5] = d /\ path[6] = e
      /\ \A i \in 1..6 : i = 1 \/ i = 2 \/ i = 3 \/ i = 4 \/ i = 5 \/ i = 6
  OBVIOUS
<1> HIDE DEF path
<1> QED  BY <1>1, KeyTokens DEF Matches, InDeep

\* A field of a part of a part matches the row of that field.
LEMMA InnerMatches ==
  ASSUME NEW a \in Keys, NEW b \in Keys, NEW d \in Keys, NEW e \in Keys,
         NEW q, NEW here, NEW part, NEW inner, InInner(q, a, b, d, e, here, part, inner)
  PROVE  Matches(q, <<a, "*", b, "*", d, "*", e>>)
<1> DEFINE path == <<a, "*", b, "*", d, "*", e>>
<1>1. /\ Len(path) = 7 /\ path[1] = a /\ path[2] = "*" /\ path[3] = b /\ path[4] = "*"
      /\ path[5] = d /\ path[6] = "*" /\ path[7] = e
      /\ \A i \in 1..7 : i = 1 \/ i = 2 \/ i = 3 \/ i = 4 \/ i = 5 \/ i = 6 \/ i = 7
  OBVIOUS
<1> HIDE DEF path
<1> QED  BY <1>1, KeyTokens DEF Matches, InInner
-----------------------------------------------------------------------------
(* Where it is listed, and who says it.                                    *)
Heard(c, table, role) == {p \in Listing(c.body, table) : RoleAt(c, p) = role}

\* The types that a row asks for.
Typed(body, q, types) == \A t \in types : \E type \in t[2] : HasType(body, Upto(q, t[1]), type)

\* A row may ask for no type at all.
LEMMA NoTypes == ASSUME NEW body, NEW q PROVE Typed(body, q, {})
BY DEF Typed

\* A row may ask for one type.
LEMMA OneTyped ==
  ASSUME NEW body, NEW q, NEW n, NEW S, NEW type \in S, HasType(body, Upto(q, n), type)
  PROVE  Typed(body, q, {<<n, S>>})
<1> DEFINE t == <<n, S>>
<1>1. t[1] = n /\ t[2] = S /\ \A u \in {t} : u = t  OBVIOUS
<1> HIDE DEF t
<1>2. Typed(body, q, {t})  BY <1>1 DEF Typed
<1> QED  BY <1>2 DEF t

\* A row may ask for several types.
LEMMA TwoTyped ==
  ASSUME NEW body, NEW q, NEW S, NEW T, Typed(body, q, S), Typed(body, q, T)
  PROVE  Typed(body, q, S \cup T)
BY DEF Typed

\* A place that matches a row is heard in its role.
LEMMA MatchHeard ==
  ASSUME NEW c, NEW q \in Seq(Keys), NEW path, NEW types, NEW table, NEW role,
         Matches(q, path), Row(path, types) \in table, Typed(c.body, q, types),
         RoleAt(c, q) = role
  PROVE  IsString(c.body, q) => q \in Heard(c, table, role)
<1> SUFFICES ASSUME IsString(c.body, q) PROVE q \in Listing(c.body, table)  BY DEF Heard
<1> DEFINE body == c.body
<1>1. \A t \in types : \E type \in t[2] : HasType(body, Upto(q, t[1]), type)  BY DEF Typed
<1>2. IsString(body, q)  OBVIOUS
<1> HIDE DEF body
<1>3. q \in Listing(body, table)  BY <1>1, <1>2, MatchListed
<1> QED  BY <1>3 DEF body

-----------------------------------------------------------------------------
(* /v1/chat/completions                                                    *)
MessageAt(n) == Item(<<"messages">>, n)

\* A field of a message is heard in the role of the message.
LEMMA MessageField ==
  ASSUME NEW c, NEW n \in DOMAIN Index, NEW b \in Keys, NEW table,
         Row(<<"messages", "*", b>>, {}) \in table
  PROVE  LET q == Append(MessageAt(n), b)
         IN  IsString(c.body, q) => q \in Heard(c, table, RoleOf(c.body, MessageAt(n)))
<1> DEFINE here == Item(<<"messages">>, n)
           q == Append(here, b)
<1>1. "messages" \in Keys  BY DEF Keys
<1>2. InField(q, "messages", b, here)  BY <1>1, FieldPlace
<1> HIDE DEF q, here
<1>3. q \in Seq(Keys) /\ Len(q) > 2 /\ q[1] = "messages" /\ Upto(q, 2) = here
  BY <1>2 DEF InField
<1>4. RoleAt(c, q) = RoleOf(c.body, here)  BY <1>3, MessageRole
<1>5. Matches(q, <<"messages", "*", b>>)  BY <1>1, <1>2, FieldMatches
<1>6. IsString(c.body, q) => q \in Heard(c, table, RoleOf(c.body, here))
  BY <1>3, <1>4, <1>5, NoTypes, MatchHeard
<1> QED  BY <1>6 DEF q, here, MessageAt

\* A field of a part of a message is heard in the role of the message.
LEMMA MessagePart ==
  ASSUME NEW c, NEW n \in DOMAIN Index, NEW m \in DOMAIN Index, NEW b \in Keys, NEW d \in Keys,
         NEW S, NEW type \in S, NEW table,
         Row(<<"messages", "*", b, "*", d>>, {<<4, S>>}) \in table,
         HasType(c.body, PartOf("messages", n, b, m), type)
  PROVE  LET q == Append(PartOf("messages", n, b, m), d)
         IN  IsString(c.body, q) => q \in Heard(c, table, RoleOf(c.body, MessageAt(n)))
<1> DEFINE here == Item(<<"messages">>, n)
           part == PartOf("messages", n, b, m)
           q == Append(part, d)
<1>1. "messages" \in Keys  BY DEF Keys
<1>2. InPart(q, "messages", b, d, here, part)  BY <1>1, PartPlace
<1>a. HasType(c.body, part, type)  OBVIOUS
<1> HIDE DEF q, here, part
<1>3. q \in Seq(Keys) /\ Len(q) > 2 /\ q[1] = "messages" /\ Upto(q, 2) = here /\ Upto(q, 4) = part
  BY <1>2 DEF InPart
<1>4. RoleAt(c, q) = RoleOf(c.body, here)  BY <1>3, MessageRole
<1>5. Matches(q, <<"messages", "*", b, "*", d>>)  BY <1>1, <1>2, PartMatches
<1>6. Typed(c.body, q, {<<4, S>>})  BY <1>a, <1>3, OneTyped
<1>7. IsString(c.body, q) => q \in Heard(c, table, RoleOf(c.body, here))
  BY <1>3, <1>4, <1>5, <1>6, MatchHeard
<1> QED  BY <1>7 DEF q, here, part, MessageAt

\* A field of a call of a message is heard in the role of the message.
LEMMA MessageCall ==
  ASSUME NEW c, NEW n \in DOMAIN Index, NEW b \in Keys, NEW d \in Keys, NEW table,
         Row(<<"messages", "*", b, d>>, {}) \in table
  PROVE  LET q == MessageAt(n) \o <<b, d>>
         IN  IsString(c.body, q) => q \in Heard(c, table, RoleOf(c.body, MessageAt(n)))
<1> DEFINE here == Item(<<"messages">>, n)
           q == here \o <<b, d>>
<1>1. "messages" \in Keys  BY DEF Keys
<1>2. InCall(q, "messages", b, d, here)  BY <1>1, CallPlace
<1> HIDE DEF q, here
<1>3. q \in Seq(Keys) /\ Len(q) > 2 /\ q[1] = "messages" /\ Upto(q, 2) = here
  BY <1>2 DEF InCall
<1>4. RoleAt(c, q) = RoleOf(c.body, here)  BY <1>3, MessageRole
<1>5. Matches(q, <<"messages", "*", b, d>>)  BY <1>1, <1>2, CallMatches
<1>6. IsString(c.body, q) => q \in Heard(c, table, RoleOf(c.body, here))
  BY <1>3, <1>4, <1>5, NoTypes, MatchHeard
<1> QED  BY <1>6 DEF q, here, MessageAt

\* A deeper field of a part of a message is heard in the role of the message.
LEMMA MessageDeep ==
  ASSUME NEW c, NEW n \in DOMAIN Index, NEW m \in DOMAIN Index,
         NEW b \in Keys, NEW d \in Keys, NEW e \in Keys, NEW types, NEW table,
         Row(<<"messages", "*", b, "*", d, e>>, types) \in table,
         Typed(c.body, PartOf("messages", n, b, m) \o <<d, e>>, types)
  PROVE  LET q == PartOf("messages", n, b, m) \o <<d, e>>
         IN  IsString(c.body, q) => q \in Heard(c, table, RoleOf(c.body, MessageAt(n)))
<1> DEFINE here == Item(<<"messages">>, n)
           part == PartOf("messages", n, b, m)
           q == part \o <<d, e>>
<1>1. "messages" \in Keys  BY DEF Keys
<1>2. InDeep(q, "messages", b, d, e, here, part)  BY <1>1, DeepPlace
<1>a. Typed(c.body, q, types)  OBVIOUS
<1> HIDE DEF q, here, part
<1>3. q \in Seq(Keys) /\ Len(q) > 2 /\ q[1] = "messages" /\ Upto(q, 2) = here
  BY <1>2 DEF InDeep
<1>4. RoleAt(c, q) = RoleOf(c.body, here)  BY <1>3, MessageRole
<1>5. Matches(q, <<"messages", "*", b, "*", d, e>>)  BY <1>1, <1>2, DeepMatches
<1>6. IsString(c.body, q) => q \in Heard(c, table, RoleOf(c.body, here))
  BY <1>a, <1>3, <1>4, <1>5, MatchHeard
<1> QED  BY <1>6 DEF q, here, part, MessageAt
-----------------------------------------------------------------------------
(* A part of a chat message has a text or a refusal, as its type says.     *)
LEMMA OpenaiPartOnly ==
  ASSUME NEW c, NEW n \in DOMAIN Index, NEW m \in DOMAIN Index
  PROVE  OpenaiPart(c.body, PartOf("messages", n, "content", m))
           \in Seq(SegmentAt(c.body, Heard(c, OpenaiTable, RoleOf(c.body, MessageAt(n)))))
<1> DEFINE body == c.body
           part == PartOf("messages", n, "content", m)
           P == Heard(c, OpenaiTable, RoleOf(c.body, MessageAt(n)))
           Type(type) == IsWord(body, Append(part, "type"), type)
<1>1. {"messages", "content", "text", "refusal"} \subseteq Keys  BY DEF Keys
<1>2. CASE ~IsString(body, Append(part, "type")) \/ Type("text")
  <2>1. \E type \in {"text", ""} : HasType(body, part, type)  BY <1>2 DEF HasType
  <2>2. IsString(body, Append(part, "text")) => Append(part, "text") \in P
    <3>1. Row(<<"messages", "*", "content", "*", "text">>, {<<4, {"text", ""}>>}) \in OpenaiTable
      BY DEF OpenaiTable
    <3> QED  BY <1>1, <2>1, <3>1, MessagePart
  <2>3. TextAt(body, Append(part, "text")) \in Seq(SegmentAt(body, P))  BY <2>2, TextAtOnly
  <2>4. OpenaiPart(body, part) = TextAt(body, Append(part, "text"))
    <3>1. ~Type("refusal") /\ ~Type("image_url")  BY <1>2, OneType, WordIsString
    <3> QED  BY <1>2, <3>1 DEF OpenaiPart
  <2> QED  BY <2>3, <2>4
<1>3. CASE IsString(body, Append(part, "type")) /\ ~Type("text") /\ Type("refusal")
  <2>1. HasType(body, part, "refusal") /\ "refusal" \in {"refusal"}  BY <1>3 DEF HasType
  <2>2. IsString(body, Append(part, "refusal")) => Append(part, "refusal") \in P
    <3>1. Row(<<"messages", "*", "content", "*", "refusal">>, {<<4, {"refusal"}>>}) \in OpenaiTable
      BY DEF OpenaiTable
    <3> QED  BY <1>1, <2>1, <3>1, MessagePart
  <2>3. TextAt(body, Append(part, "refusal")) \in Seq(SegmentAt(body, P))  BY <2>2, TextAtOnly
  <2>4. OpenaiPart(body, part) = TextAt(body, Append(part, "refusal"))
    <3>1. ~Type("image_url")  BY <1>3, OneType
    <3> QED  BY <1>3, <3>1 DEF OpenaiPart
  <2> QED  BY <2>3, <2>4
<1>4. CASE IsString(body, Append(part, "type")) /\ ~Type("text") /\ ~Type("refusal")
  <2>1. OpenaiPart(body, part) \in {Image, <<>>}  BY <1>4 DEF OpenaiPart
  <2> QED  BY <2>1, ImageOnly, EmptySeq
<1> QED  BY <1>2, <1>3, <1>4

(* What is extracted of a chat message lies in its listed places.          *)
LEMMA OpenaiOnly ==
  ASSUME NEW c, NEW n \in DOMAIN Index
  PROVE  OpenaiSegments(c.body, MessageAt(n))
           \in Seq(SegmentAt(c.body, Heard(c, OpenaiTable, RoleOf(c.body, MessageAt(n)))))
<1> DEFINE body == c.body
           here == MessageAt(n)
           P == Heard(c, OpenaiTable, RoleOf(c.body, MessageAt(n)))
           S == SegmentAt(body, P)
           content == Append(here, "content")
           refusal == Append(here, "refusal")
           calls == Append(here, "tool_calls")
           call == here \o <<"function_call", "arguments">>
           f == [m \in DOMAIN Index |->
                   IF Exists(body, Item(content, m)) THEN OpenaiPart(body, Item(content, m))
                   ELSE <<>>]
           g == [m \in DOMAIN Index |->
                   IF Exists(body, Item(calls, m))
                   THEN TextAt(body, Item(calls, m) \o <<"function", "arguments">>) ELSE <<>>]
<1>1. OpenaiSegments(body, here)
        = TextAt(body, content) \o FlattenSeq(f) \o TextAt(body, refusal) \o FlattenSeq(g)
          \o TextAt(body, call)
  BY DEF OpenaiSegments, OpenaiContent, ToolCalls, Content, Each
<1>k. {"messages", "content", "refusal", "tool_calls", "function", "arguments", "function_call"}
        \subseteq Keys
  BY DEF Keys
<1>r. /\ Row(<<"messages", "*", "content">>, {}) \in OpenaiTable
      /\ Row(<<"messages", "*", "refusal">>, {}) \in OpenaiTable
      /\ Row(<<"messages", "*", "tool_calls", "*", "function", "arguments">>, {}) \in OpenaiTable
      /\ Row(<<"messages", "*", "function_call", "arguments">>, {}) \in OpenaiTable
  BY DEF OpenaiTable
<1>2. IsString(body, content) => content \in P  BY <1>k, <1>r, MessageField
<1>3. IsString(body, refusal) => refusal \in P  BY <1>k, <1>r, MessageField
<1>4. IsString(body, call) => call \in P  BY <1>k, <1>r, MessageCall
<1>5. ASSUME NEW m \in DOMAIN Index PROVE f[m] \in Seq(S)
  <2>1. Item(content, m) = PartOf("messages", n, "content", m)  BY DEF PartOf, MessageAt
  <2>2. OpenaiPart(body, PartOf("messages", n, "content", m)) \in Seq(S)  BY OpenaiPartOnly
  <2> QED  BY <2>1, <2>2, EmptySeq
<1>6. ASSUME NEW m \in DOMAIN Index PROVE g[m] \in Seq(S)
  <2> DEFINE q == PartOf("messages", n, "tool_calls", m) \o <<"function", "arguments">>
  <2>1. Item(calls, m) \o <<"function", "arguments">> = q  BY DEF PartOf, MessageAt
  <2>2. Typed(body, q, {})  BY NoTypes
  <2>3. IsString(body, q) => q \in P  BY <1>k, <1>r, <2>2, MessageDeep
  <2> HIDE DEF q
  <2>4. TextAt(body, q) \in Seq(S)  BY <2>3, TextAtOnly
  <2> QED  BY <2>1, <2>4, EmptySeq
<1>7. f = [m \in DOMAIN Index |-> f[m]] /\ g = [m \in DOMAIN Index |-> g[m]]  OBVIOUS
<1> HIDE DEF f, g, content, refusal, call, calls, P
<1>8. /\ TextAt(body, content) \o FlattenSeq(f) \in Seq(S)
      /\ FlattenSeq(g) \in Seq(S)
      /\ TextAt(body, refusal) \in Seq(S) /\ TextAt(body, call) \in Seq(S)
  <2>1. TextAt(body, content) \o FlattenSeq(f) \in Seq(S)  BY <1>2, <1>5, <1>7, ContentOnly
  <2>2. FlattenSeq(g) \in Seq(S)  BY <1>2, <1>6, <1>7, ContentOnly
  <2>3. TextAt(body, refusal) \in Seq(S) /\ TextAt(body, call) \in Seq(S)
    BY <1>3, <1>4, TextAtOnly
  <2> QED  BY <2>1, <2>2, <2>3
<1> HIDE DEF S, here, body
<1>9. OpenaiSegments(body, here) \in Seq(S)  BY <1>1, <1>8, ConcatProperties
<1> QED  BY <1>9 DEF S, P, here, body

-----------------------------------------------------------------------------
(* /v1/messages                                                            *)
\* What is on the way to what is on the way.
LEMMA UptoShorter ==
  ASSUME NEW T, NEW p \in Seq(T), NEW n \in Nat, n <= Len(p), NEW m \in Nat, m <= n
  PROVE  /\ Upto(p, n) \in Seq(T) /\ Len(Upto(p, n)) = n /\ \A k \in 1..n : Upto(p, n)[k] = p[k]
         /\ Upto(Upto(p, n), m) = Upto(p, m)
<1>1. Len(p) \in Nat /\ \A k \in 1..Len(p) : p[k] \in T  BY LenProperties, ElementOfSeq
<1>2. ASSUME NEW s \in Seq(T), NEW l \in Nat, l <= Len(s)
      PROVE  Upto(s, l) \in Seq(T) /\ Len(Upto(s, l)) = l /\ \A k \in 1..l : Upto(s, l)[k] = s[k]
  <2>1. Len(s) \in Nat /\ \A k \in 1..Len(s) : s[k] \in T  BY LenProperties, ElementOfSeq
  <2>2. 1 \in Int /\ l \in Int /\ \A k \in 1..l : s[k] \in T  BY <1>2, <2>1
  <2>3. /\ SubSeq(s, 1, l) \in Seq(T)
        /\ Len(SubSeq(s, 1, l)) = IF 1 <= l THEN l-1+1 ELSE 0
        /\ \A k \in 1..l-1+1 : SubSeq(s, 1, l)[k] = s[1+k-1]
    BY <2>2, SubSeqProperties
  <2> QED  BY <2>3 DEF Upto
<1> DEFINE q == Upto(p, n)
           a == Upto(q, m)
           b == Upto(p, m)
<1>3. q \in Seq(T) /\ Len(q) = n /\ \A k \in 1..n : q[k] = p[k]  BY <1>2
<1> HIDE DEF q
<1>a. q \in Seq(T) /\ m <= Len(q)  BY <1>3
<1>4. a \in Seq(T) /\ Len(a) = m /\ \A k \in 1..m : a[k] = q[k]  BY <1>2, <1>a
<1>b. m <= Len(p)  BY <1>1
<1>5. b \in Seq(T) /\ Len(b) = m /\ \A k \in 1..m : b[k] = p[k]  BY <1>2, <1>b
<1> HIDE DEF a, b
<1>6. \A k \in 1..m : a[k] = b[k]  BY <1>3, <1>4, <1>5
<1>7. a = b  BY <1>4, <1>5, <1>6, SeqEqual
<1> QED  BY <1>3, <1>7 DEF a, b, q

\* A string inside a tool's input.
LEMMA MessageInput ==
  ASSUME NEW c, IsDocument(c.body), NEW n \in DOMAIN Index, NEW m \in DOMAIN Index,
         HasType(c.body, PartOf("messages", n, "content", m), "tool_use"),
         NEW p \in DOMAIN c.body, IsString(c.body, p),
         IsPrefix(Append(PartOf("messages", n, "content", m), "input"), p)
  PROVE  p \in Heard(c, AnthropicTable, RoleOf(c.body, MessageAt(n)))
<1> DEFINE here == Item(<<"messages">>, n)
           part == PartOf("messages", n, "content", m)
           r == Append(part, "input")
           T == ToSet(p)
           path == <<"messages", "*", "content", "*", "input", "**">>
           types == {<<4, {"tool_use"}>>}
           row == Row(path, types)
<1>1. {"messages", "content", "input"} \subseteq Keys  BY DEF Keys
<1>2. InPart(r, "messages", "content", "input", here, part)  BY <1>1, PartPlace
<1>3. IsPrefix(r, p) /\ HasType(c.body, part, "tool_use") /\ p \in Seq(T)  BY DEF IsDocument
<1>4. row \in AnthropicTable /\ row.path = path /\ row.types = types  BY DEF AnthropicTable, Row
<1>5. /\ Len(path) = 6 /\ path[1] = "messages" /\ path[2] = "*" /\ path[3] = "content"
      /\ path[4] = "*" /\ path[5] = "input" /\ path[6] = "**"
      /\ \A i \in 1..6 : i = 1 \/ i = 2 \/ i = 3 \/ i = 4 \/ i = 5 \/ i = 6
  OBVIOUS
<1>6. \A t \in types : t[1] = 4 /\ "tool_use" \in t[2]  OBVIOUS
<1> HIDE DEF r, here, part, T, row, path, types
<1>7. /\ Len(p) \in Nat /\ Len(p) >= 5 /\ Upto(p, 5) = r
  <2>1. Len(r) = 5 /\ Upto(r, 5) = r  BY <1>2 DEF InPart
  <2>2. Len(p) \in Nat  BY <1>3, LenProperties
  <2> QED  BY <1>3, <2>1, <2>2 DEF IsPrefix, Upto
<1>8. /\ p[1] = "messages" /\ p[2] \in ToSet(Index) /\ p[3] = "content"
      /\ p[4] \in ToSet(Index) /\ p[5] = "input" /\ Upto(p, 2) = here /\ Upto(p, 4) = part
  <2>1. 5 \in Nat /\ 2 \in Nat /\ 4 \in Nat /\ 5 <= Len(p) /\ 2 <= 5 /\ 4 <= 5
        /\ {1, 2, 3, 4, 5} \subseteq 1..5
    BY <1>7
  <2>2. /\ \A k \in 1..5 : r[k] = p[k]
        /\ Upto(r, 2) = Upto(p, 2) /\ Upto(r, 4) = Upto(p, 4)
    BY <1>3, <1>7, <2>1, UptoShorter
  <2> QED  BY <1>2, <2>1, <2>2 DEF InPart
<1>9. Fits(c.body, p, row)
  <2>1. \A t \in types : \E type \in t[2] : HasType(c.body, SubSeq(p, 1, t[1]), type)
    BY <1>3, <1>6, <1>8 DEF Upto
  <2>2. \A i \in 1..6 : CASE path[i] = "**" -> TRUE
                           [] path[i] = "*"  -> p[i] \in ToSet(Index)
                           [] OTHER          -> path[i] = p[i]
    BY <1>5, <1>8
  <2>3. Len(p) >= 6 - 1  BY <1>7
  <2> QED  BY <1>4, <1>5, <2>1, <2>2, <2>3 DEF Fits
<1>10. RoleAt(c, p) = RoleOf(c.body, here)
  <2>1. Len(p) > 2  BY <1>7
  <2> QED  BY <1>3, <1>8, <2>1, MessageRole
<1>11. p \in Listing(c.body, AnthropicTable)  BY <1>4, <1>9 DEF Listing
<1> QED  BY <1>10, <1>11 DEF Heard, here, MessageAt

\* The types of two places on the way.
LEMMA BothTyped ==
  ASSUME NEW body, NEW q, NEW n, NEW m, NEW S, NEW T, NEW a \in S, NEW b \in T,
         HasType(body, Upto(q, n), a), HasType(body, Upto(q, m), b)
  PROVE  Typed(body, q, {<<n, S>>, <<m, T>>})
<1>1. Typed(body, q, {<<n, S>>}) /\ Typed(body, q, {<<m, T>>})  BY OneTyped
<1>2. {<<n, S>>} \cup {<<m, T>>} = {<<n, S>>, <<m, T>>}  OBVIOUS
<1> QED  BY <1>1, <1>2, TwoTyped

\* A block of text inside the result of a tool.
LEMMA MessageInner ==
  ASSUME NEW c, NEW n \in DOMAIN Index, NEW m \in DOMAIN Index, NEW k \in DOMAIN Index,
         HasType(c.body, PartOf("messages", n, "content", m), "tool_result"),
         HasType(c.body, Item(Append(PartOf("messages", n, "content", m), "content"), k), "text")
  PROVE  LET q == Append(Item(Append(PartOf("messages", n, "content", m), "content"), k), "text")
         IN  IsString(c.body, q) => q \in Heard(c, AnthropicTable, RoleOf(c.body, MessageAt(n)))
<1> DEFINE here == Item(<<"messages">>, n)
           part == PartOf("messages", n, "content", m)
           inner == Item(Append(part, "content"), k)
           q == Append(inner, "text")
           S == {"tool_result"}
           T == {"text"}
           types == {<<4, S>>, <<6, T>>}
<1>1. {"messages", "content", "text"} \subseteq Keys  BY DEF Keys
<1>2. InInner(q, "messages", "content", "content", "text", here, part, inner)  BY <1>1, InnerPlace
<1>3. HasType(c.body, part, "tool_result") /\ HasType(c.body, inner, "text")  OBVIOUS
<1>4. Row(<<"messages", "*", "content", "*", "content", "*", "text">>, types) \in AnthropicTable
  BY DEF AnthropicTable
<1>5. "tool_result" \in S /\ "text" \in T  OBVIOUS
<1> HIDE DEF q, here, part, inner, S, T
<1>6. /\ q \in Seq(Keys) /\ Len(q) > 2 /\ q[1] = "messages"
      /\ Upto(q, 2) = here /\ Upto(q, 4) = part /\ Upto(q, 6) = inner
  BY <1>2 DEF InInner
<1>7. RoleAt(c, q) = RoleOf(c.body, here)  BY <1>6, MessageRole
<1>8. Matches(q, <<"messages", "*", "content", "*", "content", "*", "text">>)
  BY <1>1, <1>2, InnerMatches
<1>9. Typed(c.body, q, types)  BY <1>3, <1>5, <1>6, BothTyped
<1> HIDE DEF types
<1>10. IsString(c.body, q) => q \in Heard(c, AnthropicTable, RoleOf(c.body, here))
  BY <1>4, <1>6, <1>7, <1>8, <1>9, MatchHeard
<1> QED  BY <1>10 DEF q, here, part, inner, MessageAt

\* The text of a document.
LEMMA MessageDocument ==
  ASSUME NEW c, NEW n \in DOMAIN Index, NEW m \in DOMAIN Index,
         HasType(c.body, PartOf("messages", n, "content", m), "document"),
         IsWord(c.body, PartOf("messages", n, "content", m) \o <<"source", "type">>, "text")
  PROVE  LET q == PartOf("messages", n, "content", m) \o <<"source", "data">>
         IN  IsString(c.body, q) => q \in Heard(c, AnthropicTable, RoleOf(c.body, MessageAt(n)))
<1> DEFINE here == Item(<<"messages">>, n)
           part == PartOf("messages", n, "content", m)
           source == Append(part, "source")
           q == part \o <<"source", "data">>
           S == {"document"}
           T == {"text"}
           types == {<<4, S>>, <<5, T>>}
<1>1. {"messages", "content", "source", "data", "type"} \subseteq Keys  BY DEF Keys
<1>2. InDeep(q, "messages", "content", "source", "data", here, part)  BY <1>1, DeepPlace
<1>3. HasType(c.body, part, "document")  OBVIOUS
<1>4. Row(<<"messages", "*", "content", "*", "source", "data">>, types) \in AnthropicTable
  BY DEF AnthropicTable
<1>5. "document" \in S /\ "text" \in T  OBVIOUS
<1>6. HasType(c.body, source, "text")
  <2>1. part \in Seq(Keys)  BY <1>1, PartPlace
  <2>2. part \o <<"source", "type">> = Append(source, "type")  BY <1>1, <2>1, ConcatTwo
  <2>3. IsWord(c.body, part \o <<"source", "type">>, "text")  OBVIOUS
  <2> HIDE DEF part, source
  <2> QED  BY <2>2, <2>3 DEF HasType
<1>7. /\ q \in Seq(Keys) /\ Len(q) > 2 /\ q[1] = "messages"
      /\ Upto(q, 4) = part /\ Upto(q, 5) = source /\ Upto(q, 2) = here
  <2> HIDE DEF q, here, part
  <2> QED  BY <1>2 DEF InDeep
<1> HIDE DEF q, here, part, source, S, T
<1>8. Typed(c.body, q, types)  BY <1>3, <1>5, <1>6, <1>7, BothTyped
<1> HIDE DEF types
<1>9. IsString(c.body, q) => q \in Heard(c, AnthropicTable, RoleOf(c.body, MessageAt(n)))
  BY <1>1, <1>4, <1>8, MessageDeep DEF q, part
<1> QED  BY <1>9 DEF q, part

\* A block of text has its text.
LEMMA TextBlockOnly ==
  ASSUME NEW body, NEW P, NEW here,
         HasType(body, here, "text") /\ IsString(body, Append(here, "text"))
           => Append(here, "text") \in P
  PROVE  TextBlock(body, here) \in Seq(SegmentAt(body, P))
<1>1. CASE IsWord(body, Append(here, "type"), "text")
  <2>1. HasType(body, here, "text")  BY <1>1 DEF HasType
  <2> QED  BY <1>1, <2>1, TextAtOnly DEF TextBlock
<1>2. CASE ~IsWord(body, Append(here, "type"), "text")  BY <1>2, EmptySeq DEF TextBlock
<1> QED  BY <1>1, <1>2

(* The blocks of a list that have a text.                                  *)
LEMMA BlocksOnly ==
  ASSUME NEW body, NEW P, NEW here, IsString(body, here) => here \in P,
         \A k \in DOMAIN Index :
           HasType(body, Item(here, k), "text") /\ IsString(body, Append(Item(here, k), "text"))
           => Append(Item(here, k), "text") \in P
  PROVE  TextAt(body, here) \o Blocks(body, here) \in Seq(SegmentAt(body, P))
<1> DEFINE S == SegmentAt(body, P)
           f == [n \in DOMAIN Index |->
                   IF Exists(body, Item(here, n)) THEN TextBlock(body, Item(here, n)) ELSE <<>>]
<1>1. Blocks(body, here) = FlattenSeq(f)  BY DEF Blocks, Each
<1>2. \A n \in DOMAIN Index : f[n] \in Seq(S)  BY TextBlockOnly, EmptySeq
<1>3. f = [n \in DOMAIN Index |-> f[n]]  OBVIOUS
<1> HIDE DEF f
<1> QED  BY <1>1, <1>2, <1>3, ContentOnly

(* A block of a message lies in its listed places, by its type.            *)
LEMMA AnthropicBlockOnly ==
  ASSUME NEW c, IsDocument(c.body), NEW n \in DOMAIN Index, NEW m \in DOMAIN Index
  PROVE  AnthropicBlock(c.body, PartOf("messages", n, "content", m))
           \in Seq(SegmentAt(c.body, Heard(c, AnthropicTable, RoleOf(c.body, MessageAt(n)))))
<1> DEFINE body == c.body
           part == PartOf("messages", n, "content", m)
           P == Heard(c, AnthropicTable, RoleOf(c.body, MessageAt(n)))
           S == SegmentAt(body, P)
           Type(type) == IsWord(body, Append(part, "type"), type)
           data == part \o <<"source", "data">>
           content == Append(part, "content")
<1>k. {"messages", "content", "text"} \subseteq Keys  BY DEF Keys
<1>t. \A a, b : Type(a) /\ Type(b) => a = b  BY OneType
<1>h. \A type \in {"text", "tool_use", "tool_result", "document"} :
        Type(type) => HasType(body, part, type)
  BY DEF HasType
<1>1. CASE Type("text")
  <2>1. ~Type("tool_use") /\ ~Type("tool_result") /\ ~Type("document")  BY <1>t, <1>1
  <2>2. AnthropicBlock(body, part) = TextAt(body, Append(part, "text"))
    BY <1>1, <2>1 DEF AnthropicBlock
  <2>3. HasType(body, part, "text") /\ "text" \in {"text"}  BY <1>h, <1>1
  <2>4. Row(<<"messages", "*", "content", "*", "text">>, {<<4, {"text"}>>}) \in AnthropicTable
    BY DEF AnthropicTable
  <2>5. IsString(body, Append(part, "text")) => Append(part, "text") \in P
    BY <1>k, <2>3, <2>4, MessagePart
  <2> QED  BY <2>2, <2>5, TextAtOnly
<1>2. CASE Type("tool_use")
  <2>1. ~Type("text") /\ ~Type("tool_result") /\ ~Type("document")  BY <1>t, <1>2
  <2>2. AnthropicBlock(body, part) = Strings(body, Append(part, "input"))
    BY <1>2, <2>1 DEF AnthropicBlock
  <2>3. HasType(body, part, "tool_use")  BY <1>h, <1>2
  <2>4. \A p \in DOMAIN body : IsPrefix(Append(part, "input"), p) /\ IsString(body, p) => p \in P
    BY <2>3, MessageInput
  <2>5. IsFiniteSet(DOMAIN body)  BY DEF IsDocument
  <2> HIDE DEF part, P, body
  <2>6. Strings(body, Append(part, "input")) \in Seq(SegmentAt(body, P))
    BY <2>4, <2>5, StringsOnly
  <2> QED  BY <2>2, <2>6 DEF part, P, body
<1>3. CASE Type("tool_result")
  <2>1. ~Type("text") /\ ~Type("tool_use") /\ ~Type("document")  BY <1>t, <1>3
  <2>2. AnthropicBlock(body, part) = TextAt(body, content) \o Blocks(body, content)
    BY <1>3, <2>1 DEF AnthropicBlock, Blocks, Each
  <2>3. HasType(body, part, "tool_result") /\ "tool_result" \in {"tool_result"}  BY <1>h, <1>3
  <2>4. Row(<<"messages", "*", "content", "*", "content">>, {<<4, {"tool_result"}>>})
          \in AnthropicTable
    BY DEF AnthropicTable
  <2>5. IsString(body, content) => content \in P  BY <1>k, <2>3, <2>4, MessagePart
  <2>6. ASSUME NEW k \in DOMAIN Index, HasType(body, Item(content, k), "text"),
               IsString(body, Append(Item(content, k), "text"))
        PROVE  Append(Item(content, k), "text") \in P
    BY <2>3, <2>6, MessageInner
  <2> HIDE DEF content, P, body
  <2>7. TextAt(body, content) \o Blocks(body, content) \in Seq(SegmentAt(body, P))
    BY <2>5, <2>6, BlocksOnly
  <2> QED  BY <2>2, <2>7 DEF content, P, body
<1>4. CASE Type("document") /\ IsWord(body, part \o <<"source", "type">>, "text")
  <2>1. ~Type("text") /\ ~Type("tool_use") /\ ~Type("tool_result")  BY <1>t, <1>4
  <2>2. AnthropicBlock(body, part) = TextAt(body, data)  BY <1>4, <2>1 DEF AnthropicBlock
  <2>3. HasType(body, part, "document")  BY <1>h, <1>4
  <2>5. IsString(body, data) => data \in P  BY <1>4, <2>3, MessageDocument
  <2> QED  BY <2>2, <2>5, TextAtOnly
<1>5. CASE /\ ~Type("text") /\ ~Type("tool_use") /\ ~Type("tool_result")
           /\ ~(Type("document") /\ IsWord(body, part \o <<"source", "type">>, "text"))
  <2>1. AnthropicBlock(body, part) = <<>>  BY <1>5 DEF AnthropicBlock
  <2> QED  BY <2>1, EmptySeq
<1> QED  BY <1>1, <1>2, <1>3, <1>4, <1>5

(* What is extracted of a message's content lies in its listed places.     *)
LEMMA AnthropicOnly ==
  ASSUME NEW c, IsDocument(c.body), NEW n \in DOMAIN Index
  PROVE  AnthropicContent(c.body, MessageAt(n))
           \in Seq(SegmentAt(c.body, Heard(c, AnthropicTable, RoleOf(c.body, MessageAt(n)))))
<1> DEFINE body == c.body
           here == MessageAt(n)
           P == Heard(c, AnthropicTable, RoleOf(c.body, MessageAt(n)))
           S == SegmentAt(body, P)
           content == Append(here, "content")
           f == [m \in DOMAIN Index |->
                   IF Exists(body, Item(content, m)) THEN AnthropicBlock(body, Item(content, m))
                   ELSE <<>>]
<1>1. AnthropicContent(body, here) = TextAt(body, content) \o FlattenSeq(f)
  BY DEF AnthropicContent, Content, Each
<1>2. IsString(body, content) => content \in P
  <2>1. "content" \in Keys  BY DEF Keys
  <2>2. Row(<<"messages", "*", "content">>, {}) \in AnthropicTable  BY DEF AnthropicTable
  <2> QED  BY <2>1, <2>2, MessageField
<1>3. ASSUME NEW m \in DOMAIN Index PROVE f[m] \in Seq(S)
  <2>1. Item(content, m) = PartOf("messages", n, "content", m)  BY DEF PartOf, MessageAt
  <2>2. AnthropicBlock(body, PartOf("messages", n, "content", m)) \in Seq(S)  BY AnthropicBlockOnly
  <2> QED  BY <2>1, <2>2, EmptySeq
<1>4. f = [m \in DOMAIN Index |-> f[m]]  OBVIOUS
<1> HIDE DEF f, content, P
<1>5. TextAt(body, content) \o FlattenSeq(f) \in Seq(S)  BY <1>2, <1>3, <1>4, ContentOnly
<1> QED  BY <1>1, <1>5 DEF P

-----------------------------------------------------------------------------
(* The top-level system text of /v1/messages.                              *)
LEMMA SystemOnly ==
  ASSUME NEW c
  PROVE  TextAt(c.body, <<"system">>) \o Blocks(c.body, <<"system">>)
           \in Seq(SegmentAt(c.body, Heard(c, AnthropicTable, "system")))
<1> DEFINE body == c.body
           system == <<"system">>
           P == Heard(c, AnthropicTable, "system")
<1>k. {"system", "text"} \subseteq Keys  BY DEF Keys
<1>1. system \in Seq(Keys) /\ system[1] = "system"  BY <1>k
<1>2. IsString(body, system) => system \in P
  <2>1. Matches(system, <<"system">>)  BY <1>k, OneMatches
  <2>2. Row(<<"system">>, {}) \in AnthropicTable  BY DEF AnthropicTable
  <2>3. RoleAt(c, system) = "system"  BY <1>1 DEF RoleAt
  <2> HIDE DEF system
  <2> QED  BY <1>1, <2>1, <2>2, <2>3, NoTypes, MatchHeard
<1>3. ASSUME NEW k \in DOMAIN Index, HasType(body, Item(system, k), "text")
      PROVE  IsString(body, Append(Item(system, k), "text")) => Append(Item(system, k), "text") \in P
  <2> DEFINE here == Item(<<"system">>, k)
             q == Append(here, "text")
             S == {"text"}
  <2>1. InField(q, "system", "text", here)  BY <1>k, FieldPlace
  <2>2. HasType(body, here, "text") /\ "text" \in S  BY <1>3
  <2>3. Row(<<"system", "*", "text">>, {<<2, S>>}) \in AnthropicTable  BY DEF AnthropicTable
  <2> HIDE DEF here, q, S
  <2>4. q \in Seq(Keys) /\ q[1] = "system" /\ Upto(q, 2) = here  BY <2>1 DEF InField
  <2>5. RoleAt(c, q) = "system"  BY <2>4 DEF RoleAt
  <2>6. Matches(q, <<"system", "*", "text">>)  BY <1>k, <2>1, FieldMatches
  <2>7. Typed(body, q, {<<2, S>>})  BY <2>2, <2>4, OneTyped
  <2>8. IsString(body, q) => q \in P  BY <2>3, <2>4, <2>5, <2>6, <2>7, MatchHeard
  <2> QED  BY <2>8 DEF q, here
<1> HIDE DEF system, P, body
<1>4. TextAt(body, system) \o Blocks(body, system) \in Seq(SegmentAt(body, P))
  BY <1>2, <1>3, BlocksOnly
<1> QED  BY <1>4 DEF system, P, body

-----------------------------------------------------------------------------
(* /v1/responses                                                           *)
InputAt(n) == Item(<<"input">>, n)

\* Who says what an item of the input has, by its type.
Speaks(c, here, role) ==
  \/ role = RoleOf(c.body, here) /\ (HasType(c.body, here, "message") \/ HasType(c.body, here, ""))
  \/ role = "assistant" /\ HasType(c.body, here, "function_call")
  \/ role = "tool" /\ HasType(c.body, here, "function_call_output")

\* What is in an item of the input is said in the role of its type.
LEMMA SpeaksRole ==
  ASSUME NEW c, NEW q \in Seq(Keys), Len(q) > 1, q[1] = "input",
         NEW role, Speaks(c, Upto(q, 2), role)
  PROVE  RoleAt(c, q) = role
<1> DEFINE here == Upto(q, 2)
<1>1. /\ HasType(c.body, here, "message") \/ HasType(c.body, here, "")
           => RoleAt(c, q) = RoleOf(c.body, here)
      /\ HasType(c.body, here, "function_call") => RoleAt(c, q) = "assistant"
      /\ HasType(c.body, here, "function_call_output") => RoleAt(c, q) = "tool"
  BY ItemRole
<1> QED  BY <1>1 DEF Speaks

\* A field of an item of the input is heard in the role of the item.
LEMMA InputField ==
  ASSUME NEW c, NEW n \in DOMAIN Index, NEW b \in Keys, NEW role, Speaks(c, InputAt(n), role),
         NEW S, NEW type \in S, HasType(c.body, InputAt(n), type),
         Row(<<"input", "*", b>>, {<<2, S>>}) \in ResponsesTable
  PROVE  LET q == Append(InputAt(n), b)
         IN  IsString(c.body, q) => q \in Heard(c, ResponsesTable, role)
<1> DEFINE here == Item(<<"input">>, n)
           q == Append(here, b)
<1>1. "input" \in Keys  BY DEF Keys
<1>2. InField(q, "input", b, here)  BY <1>1, FieldPlace
<1>3. Speaks(c, here, role) /\ HasType(c.body, here, type)  BY DEF InputAt
<1> HIDE DEF q, here
<1>4. q \in Seq(Keys) /\ Len(q) > 1 /\ q[1] = "input" /\ Upto(q, 2) = here
  BY <1>2 DEF InField
<1>5. RoleAt(c, q) = role  BY <1>3, <1>4, SpeaksRole
<1>6. Matches(q, <<"input", "*", b>>)  BY <1>1, <1>2, FieldMatches
<1>7. Typed(c.body, q, {<<2, S>>})  BY <1>3, <1>4, OneTyped
<1>8. IsString(c.body, q) => q \in Heard(c, ResponsesTable, role)
  BY <1>4, <1>5, <1>6, <1>7, MatchHeard
<1> QED  BY <1>8 DEF q, here, InputAt

\* A field of a part of an item is heard in the role of the item.
LEMMA InputPart ==
  ASSUME NEW c, NEW n \in DOMAIN Index, NEW m \in DOMAIN Index, NEW b \in Keys, NEW d \in Keys,
         NEW role, Speaks(c, InputAt(n), role), NEW types,
         Typed(c.body, Append(PartOf("input", n, b, m), d), types),
         Row(<<"input", "*", b, "*", d>>, types) \in ResponsesTable
  PROVE  LET q == Append(PartOf("input", n, b, m), d)
         IN  IsString(c.body, q) => q \in Heard(c, ResponsesTable, role)
<1> DEFINE here == Item(<<"input">>, n)
           part == PartOf("input", n, b, m)
           q == Append(part, d)
<1>1. "input" \in Keys  BY DEF Keys
<1>2. InPart(q, "input", b, d, here, part)  BY <1>1, PartPlace
<1>3. Speaks(c, here, role) /\ Typed(c.body, q, types)  BY DEF InputAt
<1> HIDE DEF q, here, part
<1>4. q \in Seq(Keys) /\ Len(q) > 1 /\ q[1] = "input" /\ Upto(q, 2) = here
  BY <1>2 DEF InPart
<1>5. RoleAt(c, q) = role  BY <1>3, <1>4, SpeaksRole
<1>6. Matches(q, <<"input", "*", b, "*", d>>)  BY <1>1, <1>2, PartMatches
<1>8. IsString(c.body, q) => q \in Heard(c, ResponsesTable, role)
  BY <1>3, <1>4, <1>5, <1>6, MatchHeard
<1> QED  BY <1>8 DEF q, part

\* Where its types are to be found.
LEMMA InputWay ==
  ASSUME NEW n \in DOMAIN Index, NEW m \in DOMAIN Index, NEW b \in Keys, NEW d \in Keys
  PROVE  LET q == Append(PartOf("input", n, b, m), d)
         IN  Upto(q, 2) = InputAt(n) /\ Upto(q, 4) = PartOf("input", n, b, m)
<1> DEFINE q == Append(PartOf("input", n, b, m), d)
<1>1. "input" \in Keys  BY DEF Keys
<1>2. InPart(q, "input", b, d, Item(<<"input">>, n), PartOf("input", n, b, m))
  BY <1>1, PartPlace
<1> HIDE DEF q
<1>3. Upto(q, 2) = InputAt(n) /\ Upto(q, 4) = PartOf("input", n, b, m)
  BY <1>2 DEF InPart, InputAt
<1> QED  BY <1>3 DEF q

(* A part of a message lies in its listed places, by its type.             *)
LEMMA ResponsesPartOnly ==
  ASSUME NEW c, NEW n \in DOMAIN Index, NEW m \in DOMAIN Index,
         NEW kind \in {"message", ""}, HasType(c.body, InputAt(n), kind)
  PROVE  ResponsesPart(c.body, PartOf("input", n, "content", m))
           \in Seq(SegmentAt(c.body, Heard(c, ResponsesTable, RoleOf(c.body, InputAt(n)))))
<1> DEFINE body == c.body
           part == PartOf("input", n, "content", m)
           role == RoleOf(c.body, InputAt(n))
           P == Heard(c, ResponsesTable, role)
           S == SegmentAt(body, P)
           Type(type) == IsWord(body, Append(part, "type"), type)
           kinds == {"message", ""}
           texts == {"input_text", "output_text", "text"}
           refusals == {"refusal"}
<1>k. {"input", "content", "text", "refusal"} \subseteq Keys  BY DEF Keys
<1>t. \A a, b : Type(a) /\ Type(b) => a = b  BY OneType
<1>h. \A type \in texts \cup refusals : Type(type) => HasType(body, part, type)
  BY DEF HasType
<1>s. Speaks(c, InputAt(n), role)  BY DEF Speaks
<1>1. CASE \E type \in texts : Type(type)
  <2>1. ~Type("refusal") /\ ~Type("input_image")
    <3> HIDE DEF Type
    <3> QED  BY <1>t, <1>1
  <2>2. ResponsesPart(body, part) = TextAt(body, Append(part, "text"))
    BY <1>1, <2>1 DEF ResponsesPart
  <2>3. PICK type \in texts : HasType(body, part, type)  BY <1>h, <1>1
  <2>4. Row(<<"input", "*", "content", "*", "text">>, {<<2, kinds>>, <<4, texts>>})
          \in ResponsesTable
    BY DEF ResponsesTable
  <2> DEFINE q == Append(part, "text")
             types == {<<2, kinds>>, <<4, texts>>}
  <2>5. Upto(q, 2) = InputAt(n) /\ Upto(q, 4) = part  BY <1>k, InputWay
  <2>6. HasType(body, Upto(q, 2), kind) /\ HasType(body, Upto(q, 4), type)  BY <2>3, <2>5
  <2> HIDE DEF kinds, texts
  <2>7. kind \in kinds  BY DEF kinds
  <2> HIDE DEF q
  <2>8. Typed(body, q, {<<2, kinds>>, <<4, texts>>})  BY <2>3, <2>6, <2>7, BothTyped
  <2> HIDE DEF types, body, role
  <2>9. Typed(c.body, Append(PartOf("input", n, "content", m), "text"), types)
    BY <2>8 DEF q, types, body
  <2>10. Row(<<"input", "*", "content", "*", "text">>, types) \in ResponsesTable
    BY <2>4 DEF types
  <2>11. IsString(c.body, Append(PartOf("input", n, "content", m), "text"))
         => Append(PartOf("input", n, "content", m), "text") \in P
    BY <1>k, <1>s, <2>9, <2>10, InputPart
  <2>12. TextAt(c.body, Append(PartOf("input", n, "content", m), "text")) \in Seq(SegmentAt(c.body, P))
    BY <2>11, TextAtOnly
  <2> QED  BY <2>2, <2>12 DEF body, role
<1>2. CASE Type("refusal")
  <2>1. ~Type("input_text") /\ ~Type("output_text") /\ ~Type("text") /\ ~Type("input_image")
    <3> HIDE DEF Type
    <3> QED  BY <1>t, <1>2
  <2>2. ResponsesPart(body, part) = TextAt(body, Append(part, "refusal"))
    BY <1>2, <2>1 DEF ResponsesPart
  <2>3. HasType(body, part, "refusal")  BY <1>h, <1>2
  <2>4. Row(<<"input", "*", "content", "*", "refusal">>, {<<2, kinds>>, <<4, refusals>>})
          \in ResponsesTable
    BY DEF ResponsesTable
  <2> DEFINE q == Append(part, "refusal")
             types == {<<2, kinds>>, <<4, refusals>>}
  <2>5. Upto(q, 2) = InputAt(n) /\ Upto(q, 4) = part  BY <1>k, InputWay
  <2>6. HasType(body, Upto(q, 2), kind) /\ HasType(body, Upto(q, 4), "refusal")  BY <2>3, <2>5
  <2>7. kind \in kinds /\ "refusal" \in refusals  OBVIOUS
  <2> HIDE DEF kinds, refusals
  <2> HIDE DEF q
  <2>8. Typed(body, q, {<<2, kinds>>, <<4, refusals>>})  BY <2>6, <2>7, BothTyped
  <2> HIDE DEF types, body, role
  <2>9. Typed(c.body, Append(PartOf("input", n, "content", m), "refusal"), types)
    BY <2>8 DEF q, types, body
  <2>10. Row(<<"input", "*", "content", "*", "refusal">>, types) \in ResponsesTable
    BY <2>4 DEF types
  <2>11. IsString(c.body, Append(PartOf("input", n, "content", m), "refusal"))
         => Append(PartOf("input", n, "content", m), "refusal") \in P
    BY <1>k, <1>s, <2>9, <2>10, InputPart
  <2>12. TextAt(c.body, Append(PartOf("input", n, "content", m), "refusal"))
           \in Seq(SegmentAt(c.body, P))
    BY <2>11, TextAtOnly
  <2> QED  BY <2>2, <2>12 DEF body, role
<1>3. CASE ~(\E type \in texts : Type(type)) /\ ~Type("refusal")
  <2>1. ResponsesPart(body, part) \in {Image, <<>>}  BY <1>3 DEF ResponsesPart
  <2> QED  BY <2>1, ImageOnly, EmptySeq
<1> QED  BY <1>1, <1>2, <1>3

(* What is extracted of a message of the input.                            *)
LEMMA ResponsesContentOnly ==
  ASSUME NEW c, NEW n \in DOMAIN Index,
         NEW kind \in {"message", ""}, HasType(c.body, InputAt(n), kind)
  PROVE  ResponsesContent(c.body, InputAt(n))
           \in Seq(SegmentAt(c.body, Heard(c, ResponsesTable, RoleOf(c.body, InputAt(n)))))
<1> DEFINE body == c.body
           here == InputAt(n)
           P == Heard(c, ResponsesTable, RoleOf(c.body, InputAt(n)))
           S == SegmentAt(body, P)
           content == Append(here, "content")
           f == [m \in DOMAIN Index |->
                   IF Exists(body, Item(content, m)) THEN ResponsesPart(body, Item(content, m))
                   ELSE <<>>]
<1>1. ResponsesContent(body, here) = TextAt(body, content) \o FlattenSeq(f)
  BY DEF ResponsesContent, Content, Each
<1>2. IsString(body, content) => content \in P
  <2>1. "content" \in Keys  BY DEF Keys
  <2>2. Row(<<"input", "*", "content">>, {<<2, {"message", ""}>>}) \in ResponsesTable
    BY DEF ResponsesTable
  <2>3. Speaks(c, InputAt(n), RoleOf(c.body, InputAt(n)))  BY DEF Speaks
  <2> QED  BY <2>1, <2>2, <2>3, InputField
<1>3. ASSUME NEW m \in DOMAIN Index PROVE f[m] \in Seq(S)
  <2>1. Item(content, m) = PartOf("input", n, "content", m)  BY DEF PartOf, InputAt
  <2>2. ResponsesPart(body, PartOf("input", n, "content", m)) \in Seq(S)  BY ResponsesPartOnly
  <2> QED  BY <2>1, <2>2, EmptySeq
<1>4. f = [m \in DOMAIN Index |-> f[m]]  OBVIOUS
<1> HIDE DEF f, content, P
<1>5. TextAt(body, content) \o FlattenSeq(f) \in Seq(S)  BY <1>2, <1>3, <1>4, ContentOnly
<1> QED  BY <1>1, <1>5 DEF P

(* The messages that say only what is listed for their role.               *)
Heeded(c, table) ==
  {m \in Message(c.body) : m.segments \in Seq(SegmentAt(c.body, Heard(c, table, m.role)))}

\* A message is among them if its segments are from there.
LEMMA ExtractedHeeded ==
  ASSUME NEW c, NEW table, NEW role \in Speakers(c.body),
         NEW segments \in Seq(SegmentAt(c.body, Heard(c, table, role)))
  PROVE  Extracted(role, segments) \in Seq(Heeded(c, table))
<1> DEFINE S == SegmentAt(c.body, Heard(c, table, role))
           m == [role |-> role, segments |-> segments]
           one == <<m>>
<1>1. S \subseteq Segment(c.body)  BY DEF SegmentAt
<1>2. segments \in Seq(S)  OBVIOUS
<1> HIDE DEF S
<1>3. segments \in Seq(Segment(c.body))
  <2>1. /\ Len(segments) \in Nat /\ DOMAIN segments = 1..Len(segments)
        /\ \A i \in DOMAIN segments : segments[i] \in S
    BY <1>2, LenProperties, ElementOfSeq
  <2>2. segments = [i \in 1..Len(segments) |-> segments[i]]  BY <1>2, <2>1
  <2>3. segments \in [1..Len(segments) -> Segment(c.body)]  BY <1>1, <2>1, <2>2
  <2> QED  BY <2>1, <2>3, FunctionIsSequence
<1>4. m \in Message(c.body) /\ m.role = role /\ m.segments = segments  BY <1>3 DEF Message
<1> HIDE DEF m
<1>5. m \in Heeded(c, table)  BY <1>2, <1>4 DEF Heeded, S
<1>6. one \in Seq(Heeded(c, table))  BY <1>5
<1> QED  BY <1>6 DEF Extracted, m

\* What an item of the input says, by its type.
LEMMA ResponsesItemOnly ==
  ASSUME NEW c, NEW n \in DOMAIN Index
  PROVE  ResponsesItem(c.body, InputAt(n)) \in Seq(Heeded(c, ResponsesTable))
<1> DEFINE body == c.body
           here == InputAt(n)
           output == Append(here, "output")
           arguments == Append(here, "arguments")
           said == ResponsesItem(body, here)
           Type(type) == IsWord(body, Append(here, "type"), type)
           M == Heeded(c, ResponsesTable)
<1>k. {"input", "text"} \subseteq Keys  BY DEF Keys
<1>t. \A a, b : Type(a) /\ Type(b) => a = b  BY OneType
<1>1. CASE IsMessage(body, here)
  <2>1. PICK kind \in {"message", ""} : HasType(body, here, kind)
    BY <1>1 DEF IsMessage, HasType
  <2>2. ~Type("function_call") /\ ~Type("function_call_output")
    <3>1. ~IsString(body, Append(here, "type")) \/ Type("message")  BY <1>1 DEF IsMessage
    <3>2. \A type \in {"function_call", "function_call_output"} :
            Type(type) => IsString(body, Append(here, "type"))
      BY WordIsString
    <3> HIDE DEF Type
    <3> QED  BY <1>t, <3>1, <3>2
  <2>3. said = Extracted(RoleOf(body, here), ResponsesContent(body, here))
    BY <1>1, <2>2 DEF ResponsesItem, ResponsesContent, Content, Each
  <2>4. ResponsesContent(body, here)
          \in Seq(SegmentAt(body, Heard(c, ResponsesTable, RoleOf(body, here))))
    BY <2>1, ResponsesContentOnly
  <2>5. RoleOf(body, here) \in Speakers(body)  BY DEF Speakers, ItemsRoles, InputAt
  <2> QED  BY <2>3, <2>4, <2>5, ExtractedHeeded
<1>2. CASE ~IsMessage(body, here) /\ Type("function_call")
  <2>1. ~Type("function_call_output")  BY <1>t, <1>2
  <2>2. said = Extracted("assistant", TextAt(body, arguments))
    BY <1>2, <2>1 DEF ResponsesItem
  <2>3. HasType(c.body, InputAt(n), "function_call")  BY <1>2 DEF HasType
  <2>4. IsString(body, arguments) => arguments \in Heard(c, ResponsesTable, "assistant")
    <3>1. Speaks(c, InputAt(n), "assistant")  BY <2>3 DEF Speaks
    <3>2. Row(<<"input", "*", "arguments">>, {<<2, {"function_call"}>>}) \in ResponsesTable
      BY DEF ResponsesTable
    <3>3. "function_call" \in {"function_call"} /\ "arguments" \in Keys  BY DEF Keys
    <3> QED  BY <2>3, <3>1, <3>2, <3>3, InputField
  <2>5. TextAt(body, arguments) \in Seq(SegmentAt(body, Heard(c, ResponsesTable, "assistant")))
    BY <2>4, TextAtOnly
  <2>6. "assistant" \in Speakers(body)  BY DEF Speakers
  <2> QED  BY <2>2, <2>5, <2>6, ExtractedHeeded
<1>3. CASE ~IsMessage(body, here) /\ Type("function_call_output")
  <2> DEFINE P == Heard(c, ResponsesTable, "tool")
             S == SegmentAt(body, P)
             types == {<<2, {"function_call_output"}>>}
             f == [m \in DOMAIN Index |->
                     IF Exists(body, Item(output, m)) THEN TextAt(body, Append(Item(output, m), "text"))
                     ELSE <<>>]
  <2>1. ~Type("function_call")  BY <1>t, <1>3
  <2>2. said = Extracted("tool", TextAt(body, output) \o FlattenSeq(f))
    BY <1>3, <2>1 DEF ResponsesItem, Each
  <2>3. HasType(c.body, InputAt(n), "function_call_output")  BY <1>3 DEF HasType
  <2>4. Speaks(c, InputAt(n), "tool")  BY <2>3 DEF Speaks
  <2>5. "function_call_output" \in {"function_call_output"} /\ "output" \in Keys  BY DEF Keys
  <2>6. IsString(body, output) => output \in P
    <3>1. Row(<<"input", "*", "output">>, {<<2, {"function_call_output"}>>}) \in ResponsesTable
      BY DEF ResponsesTable
    <3> QED  BY <2>3, <2>4, <2>5, <3>1, InputField
  <2>7. ASSUME NEW m \in DOMAIN Index PROVE f[m] \in Seq(S)
    <3> DEFINE q == Append(PartOf("input", n, "output", m), "text")
    <3>1. Append(Item(output, m), "text") = q  BY DEF PartOf, InputAt
    <3>2. Upto(q, 2) = InputAt(n)  BY <1>k, <2>5, InputWay
    <3>3. HasType(body, Upto(q, 2), "function_call_output")  BY <2>3, <3>2
    <3> HIDE DEF q, body
    <3>4. Typed(body, q, {<<2, {"function_call_output"}>>})  BY <2>5, <3>3, OneTyped
    <3> HIDE DEF types
    <3>5. Typed(c.body, Append(PartOf("input", n, "output", m), "text"), types)
      BY <3>4 DEF types, q, body
    <3>6. Row(<<"input", "*", "output", "*", "text">>, types) \in ResponsesTable
      BY DEF ResponsesTable, types
    <3>7. IsString(c.body, q) => q \in P
      BY <1>k, <2>4, <2>5, <3>5, <3>6, InputPart DEF q
    <3>8. TextAt(c.body, q) \in Seq(SegmentAt(c.body, P))  BY <3>7, TextAtOnly
    <3> QED  BY <3>1, <3>8, EmptySeq DEF body
  <2>8. f = [m \in DOMAIN Index |-> f[m]]  OBVIOUS
  <2> HIDE DEF f, output, P
  <2>9. TextAt(body, output) \o FlattenSeq(f) \in Seq(S)  BY <2>6, <2>7, <2>8, ContentOnly
  <2>10. "tool" \in Speakers(body)  BY DEF Speakers
  <2> QED  BY <2>2, <2>9, <2>10, ExtractedHeeded DEF P
<1>4. CASE ~IsMessage(body, here) /\ ~Type("function_call") /\ ~Type("function_call_output")
  <2>1. said = <<>>  BY <1>4 DEF ResponsesItem
  <2> QED  BY <2>1, EmptySeq
<1> QED  BY <1>1, <1>2, <1>3, <1>4

\* One list after the other.
LEMMA HeededConcat ==
  ASSUME NEW S, NEW a \in Seq(S), NEW b \in Seq(S)
  PROVE  a \o b \in Seq(S)
BY ConcatProperties

(* What is parsed of a body of any API says only what is listed.           *)
LEMMA ChatHeeds ==
  ASSUME NEW c
  PROVE  ExtractChat(c.body, "chat") \in Seq(Heeded(c, OpenaiTable))
<1> DEFINE body == c.body
           M == Heeded(c, OpenaiTable)
           f == [n \in DOMAIN Index |->
                   IF Exists(body, MessageAt(n))
                   THEN Extracted(RoleOf(body, MessageAt(n)), OpenaiSegments(body, MessageAt(n)))
                   ELSE <<>>]
           all == FlattenSeq(f)
<1>1. "chat" # "messages"  OBVIOUS
<1>2. ASSUME NEW here
      PROVE  ExtractMessage(body, here, "chat")
               = Extracted(RoleOf(body, here), OpenaiSegments(body, here))
  BY <1>1 DEF ExtractMessage, OpenaiSegments, OpenaiContent, ToolCalls, Content, Each
<1>3. ExtractChat(body, "chat") = <<>> \o all
  BY <1>1, <1>2 DEF ExtractChat, Each, MessageAt
<1>4. ASSUME NEW n \in DOMAIN Index PROVE f[n] \in Seq(M)
  <2>1. RoleOf(body, MessageAt(n)) \in Speakers(c.body)  BY DEF Speakers, ItemsRoles, MessageAt
  <2>2. Extracted(RoleOf(body, MessageAt(n)), OpenaiSegments(body, MessageAt(n))) \in Seq(M)
    BY <2>1, OpenaiOnly, ExtractedHeeded
  <2> QED  BY <2>2, EmptySeq
<1>5. f = [n \in DOMAIN Index |-> f[n]]  OBVIOUS
<1> HIDE DEF f, M
<1>6. all \in Seq(M)  BY <1>4, <1>5, EachHas
<1> HIDE DEF all
<1>7. ExtractChat(body, "chat") = all  BY <1>3, <1>6, ConcatEmptySeq
<1> QED  BY <1>6, <1>7 DEF M

\* All that is extracted of a /v1/messages body is from the places of its roles.
LEMMA MessagesHeed ==
  ASSUME NEW c, IsDocument(c.body)
  PROVE  ExtractChat(c.body, "messages") \in Seq(Heeded(c, AnthropicTable))
<1> DEFINE body == c.body
           M == Heeded(c, AnthropicTable)
           f == [n \in DOMAIN Index |->
                   IF Exists(body, MessageAt(n))
                   THEN Extracted(RoleOf(body, MessageAt(n)), AnthropicContent(body, MessageAt(n)))
                   ELSE <<>>]
           system == <<"system">>
           own == TextAt(body, system) \o Blocks(body, system)
           first == IF own = <<>> THEN <<>> ELSE Extracted("system", own)
           rest == FlattenSeq(f)
<1>1. ASSUME NEW here
      PROVE  ExtractMessage(body, here, "messages")
               = Extracted(RoleOf(body, here), AnthropicContent(body, here))
  BY DEF ExtractMessage, AnthropicContent, Content, Each
<1>2. AnthropicSystem(body) = first  BY DEF AnthropicSystem, Blocks, Each
<1>3. ExtractChat(body, "messages") = first \o rest
  BY <1>1, <1>2 DEF ExtractChat, Each, MessageAt
<1>4. ASSUME NEW n \in DOMAIN Index PROVE f[n] \in Seq(M)
  <2>1. RoleOf(body, MessageAt(n)) \in Speakers(c.body)  BY DEF Speakers, ItemsRoles, MessageAt
  <2>2. Extracted(RoleOf(body, MessageAt(n)), AnthropicContent(body, MessageAt(n))) \in Seq(M)
    BY <2>1, AnthropicOnly, ExtractedHeeded
  <2> QED  BY <2>2, EmptySeq
<1>5. f = [n \in DOMAIN Index |-> f[n]]  OBVIOUS
<1>6. Extracted("system", own) \in Seq(M)
  <2>1. own \in Seq(SegmentAt(body, Heard(c, AnthropicTable, "system")))  BY SystemOnly
  <2>2. "system" \in Speakers(c.body)  BY DEF Speakers
  <2> HIDE DEF own
  <2> QED  BY <2>1, <2>2, ExtractedHeeded
<1> HIDE DEF f, M, own
<1>7. rest \in Seq(M)  BY <1>4, <1>5, EachHas
<1>8. first \in Seq(M)  BY <1>6, EmptySeq
<1> HIDE DEF first, rest
<1>9. first \o rest \in Seq(M)  BY <1>7, <1>8, HeededConcat
<1> QED  BY <1>3, <1>9 DEF M

\* All that is extracted of a /v1/responses body is from the places of its roles.
LEMMA ResponsesHeed ==
  ASSUME NEW c
  PROVE  ExtractResponses(c.body) \in Seq(Heeded(c, ResponsesTable))
<1> DEFINE body == c.body
           M == Heeded(c, ResponsesTable)
           f == [n \in DOMAIN Index |->
                   IF Exists(body, InputAt(n)) THEN ResponsesItem(body, InputAt(n)) ELSE <<>>]
           instructions == <<"instructions">>
           input == <<"input">>
           own == TextAt(body, instructions)
           users == TextAt(body, input)
           a == IF own = <<>> THEN <<>> ELSE Extracted("system", own)
           b == IF IsString(body, input) THEN Extracted("user", users) ELSE <<>>
           rest == FlattenSeq(f)
<1>1. ExtractResponses(body) = a \o b \o rest  BY DEF ExtractResponses, Each, InputAt
<1>2. ASSUME NEW n \in DOMAIN Index PROVE f[n] \in Seq(M)
  BY ResponsesItemOnly, EmptySeq
<1>3. f = [n \in DOMAIN Index |-> f[n]]  OBVIOUS
<1>k. {"instructions", "input"} \subseteq Keys  BY DEF Keys
<1>4. own \in Seq(SegmentAt(body, Heard(c, ResponsesTable, "system")))
  <2>1. Matches(instructions, <<"instructions">>)  BY <1>k, OneMatches
  <2>2. Row(<<"instructions">>, {}) \in ResponsesTable  BY DEF ResponsesTable
  <2>3. instructions \in Seq(Keys) /\ instructions[1] = "instructions"  BY <1>k
  <2> HIDE DEF instructions
  <2>4. RoleAt(c, instructions) = "system"  BY <2>3 DEF RoleAt
  <2>5. IsString(c.body, instructions) => instructions \in Heard(c, ResponsesTable, "system")
    BY <2>1, <2>2, <2>3, <2>4, NoTypes, MatchHeard
  <2> QED  BY <2>5, TextAtOnly
<1>5. users \in Seq(SegmentAt(body, Heard(c, ResponsesTable, "user")))
  <2>1. Matches(input, <<"input">>)  BY <1>k, OneMatches
  <2>2. Row(<<"input">>, {}) \in ResponsesTable  BY DEF ResponsesTable
  <2>3. input \in Seq(Keys) /\ input[1] = "input"  BY <1>k
  <2>4. RoleAt(c, input) = "user"
    <3>1. input = <<"input">> /\ input[1] \notin {"system", "instructions"} /\ ~(Len(input) > 1)
      OBVIOUS
    <3> HIDE DEF input
    <3> QED  BY <3>1 DEF RoleAt
  <2> HIDE DEF input
  <2>5. IsString(c.body, input) => input \in Heard(c, ResponsesTable, "user")
    BY <2>1, <2>2, <2>3, <2>4, NoTypes, MatchHeard
  <2> QED  BY <2>5, TextAtOnly
<1> HIDE DEF own, users
<1>6. Extracted("system", own) \in Seq(M) /\ Extracted("user", users) \in Seq(M)
  <2>1. "system" \in Speakers(c.body) /\ "user" \in Speakers(c.body)  BY DEF Speakers
  <2> QED  BY <1>4, <1>5, <2>1, ExtractedHeeded
<1> HIDE DEF f, M, input, instructions
<1>7. rest \in Seq(M)  BY <1>2, <1>3, EachHas
<1>8. a \in Seq(M) /\ b \in Seq(M)  BY <1>6, EmptySeq
<1> HIDE DEF a, b, rest
<1>9. a \o b \in Seq(M)  BY <1>8, HeededConcat
<1>10. a \o b \o rest \in Seq(M)  BY <1>7, <1>9, HeededConcat
<1> QED  BY <1>1, <1>10 DEF M

\* The table of a request's route.
TableOf(c) ==
  [chat |-> OpenaiTable, messages |-> AnthropicTable,
   responses |-> ResponsesTable][ScannedApi(c.path)]

\* So it is with a body of any API.
LEMMA ParseHeeds ==
  ASSUME NEW c, IsDocument(c.body), ScannedApi(c.path) # "none"
  PROVE  ParseApiBody(c.body, ScannedApi(c.path)) \in Seq(Heeded(c, TableOf(c)))
<1>1. ScannedApi(c.path) \in {"chat", "messages", "responses"}  BY DEF ScannedApi
<1>2. CASE ScannedApi(c.path) = "chat"
  <2>1. TableOf(c) = OpenaiTable  BY <1>2 DEF TableOf
  <2>2. ParseApiBody(c.body, "chat") = ExtractChat(c.body, "chat")  BY DEF ParseApiBody
  <2> QED  BY <1>2, <2>1, <2>2, ChatHeeds
<1>3. CASE ScannedApi(c.path) = "messages"
  <2>1. TableOf(c) = AnthropicTable  BY <1>3 DEF TableOf
  <2>2. ParseApiBody(c.body, "messages") = ExtractChat(c.body, "messages")  BY DEF ParseApiBody
  <2> QED  BY <1>3, <2>1, <2>2, MessagesHeed
<1>4. CASE ScannedApi(c.path) = "responses"
  <2>1. TableOf(c) = ResponsesTable  BY <1>4 DEF TableOf
  <2>2. ParseApiBody(c.body, "responses") = ExtractResponses(c.body)  BY DEF ParseApiBody
  <2> QED  BY <1>4, <2>1, <2>2, ResponsesHeed
<1> QED  BY <1>1, <1>2, <1>3, <1>4

-----------------------------------------------------------------------------
(* The windows of an ONNX stage.                                           *)
(* Division, rounding down.                                                *)
LEMMA Quotient ==
  ASSUME NEW a \in Nat, NEW b \in Nat \ {0}
  PROVE  /\ a \div b \in Nat
         /\ (a \div b) * b <= a /\ a < (a \div b) * b + b
OBVIOUS

\* Where a window ends.
WindowEnd(tokens, k) ==
  IF (k - 1) * Advance + WindowTokens < Len(tokens)
  THEN (k - 1) * Advance + WindowTokens ELSE Len(tokens)

(* Two words in a row are both in some window.                             *)
LEMMA SomeWindow ==
  ASSUME NEW tokens, Len(tokens) \in Nat, NEW q \in Nat \ {0}, q + 1 <= Len(tokens)
  PROVE  \E k \in 1..WindowCount(tokens) :
           /\ (k - 1) * Advance \in Nat /\ (k - 1) * Advance < q
           /\ q + 1 <= WindowEnd(tokens, k) /\ WindowEnd(tokens, k) <= Len(tokens)
           /\ WindowEnd(tokens, k) \in Nat
<1> DEFINE A == Advance
           T == WindowTokens
           L == Len(tokens)
<1>1. /\ A \in Nat \ {0} /\ T \in Nat \ {0} /\ A < T
      /\ L \in Nat
  BY WindowAssumption DEF Advance
<1>2. CASE L <= T
  <2>1. WindowCount(tokens) = 1  BY <1>2 DEF WindowCount
  <2>2. (1 - 1) * Advance = 0  BY <1>1
  <2>3. WindowEnd(tokens, 1) = L  BY <1>1, <1>2, <2>2 DEF WindowEnd
  <2>4. 1 \in 1..1  OBVIOUS
  <2> QED  BY <1>1, <2>1, <2>2, <2>3, <2>4
<1>3. CASE ~(L <= T)
  <2> DEFINE x == (q - 1) \div A
             y == (L - T + A - 1) \div A
  <2>1. WindowCount(tokens) = 1 + y  BY <1>3 DEF WindowCount
  <2>2. /\ q - 1 \in Nat /\ L - T + A - 1 \in Nat /\ L - T \in Nat  BY <1>1, <1>3
  <2> HIDE DEF A, T, L
  <2>3. /\ x \in Nat /\ x * A <= q - 1 /\ q - 1 < x * A + A
        /\ y \in Nat /\ y * A <= L - T + A - 1 /\ L - T + A - 1 < y * A + A
    BY <1>1, <2>2, Quotient
  <2> HIDE DEF x, y
  <2>4. \A k \in Nat : k * A \in Nat  BY <1>1
  <2>5. \A k \in Nat : WindowEnd(tokens, k + 1) = IF k * A + T < L THEN k * A + T ELSE L
    <3> TAKE k \in Nat
    <3>1. (k + 1) - 1 = k  OBVIOUS
    <3> QED  BY <3>1 DEF WindowEnd, A, T, L
  <2>6. CASE x <= y
    <3>1. x + 1 \in 1..1 + y  BY <2>3, <2>6
    <3>2. x * A + 1 <= q /\ q + 1 <= x * A + T /\ x * A \in Nat
      BY <1>1, <2>3, <2>4
    <3>3. WindowEnd(tokens, x + 1) = IF x * A + T < L THEN x * A + T ELSE L
      BY <2>3, <2>5
    <3>4. /\ q + 1 <= WindowEnd(tokens, x + 1) /\ WindowEnd(tokens, x + 1) <= L
          /\ WindowEnd(tokens, x + 1) \in Nat
      <4>1. q + 1 <= L  BY DEF L
      <4> QED  BY <1>1, <3>2, <3>3, <4>1
    <3>5. (x + 1) - 1 = x  BY <2>3
    <3>6. ((x + 1) - 1) * Advance = x * A  BY <3>5 DEF A
    <3> QED  BY <2>1, <3>1, <3>2, <3>4, <3>6 DEF L
  <2>7. CASE ~(x <= y)
    <3>1. y + 1 \in 1..1 + y  BY <2>3
    <3>2. y * A <= x * A  BY <1>1, <2>3, <2>7
    <3>3. y * A + 1 <= q /\ ~(y * A + T < L) /\ y * A \in Nat
      <4>1. y * A \in Nat /\ x * A \in Nat  BY <2>3, <2>4
      <4> QED  BY <1>1, <2>3, <3>2, <4>1
    <3>4. WindowEnd(tokens, y + 1) = L
      BY <2>3, <2>5, <3>3
    <3>5. (y + 1) - 1 = y  BY <2>3
    <3>6. ((y + 1) - 1) * Advance = y * A  BY <3>5 DEF A
    <3> QED  BY <1>1, <2>1, <3>1, <3>3, <3>4, <3>6 DEF L
  <2> QED  BY <2>6, <2>7
<1> QED  BY <1>2, <1>3

\* What is harmful scores.
Pair(tokens, q) == q \in Nat \ {0} /\ q + 1 <= Len(tokens) /\ SubSeq(tokens, q, q + 1) = Harmful

\* Two words in a row that are harmful score, whatever is around them.
LEMMA PairScores ==
  ASSUME NEW W, NEW tokens \in Seq(W), NEW q, Pair(tokens, q)
  PROVE  Score(tokens) = 95
<1>1. Len(tokens) \in Nat  BY LenProperties
<1>2. q \in 1..(Len(tokens) - 1)  BY <1>1 DEF Pair
<1> QED  BY <1>2 DEF Score, Pair

(* What is harmful in a text scores in one of its windows.                 *)
LEMMA WindowScores ==
  ASSUME NEW W, NEW tokens \in Seq(W), NEW q, Pair(tokens, q)
  PROVE  \E k \in 1..WindowCount(tokens) : Score(Window(tokens, k)) = 95
<1>1. Len(tokens) \in Nat /\ q \in Nat \ {0} /\ q + 1 <= Len(tokens)  BY LenProperties DEF Pair
<1>2. PICK k \in 1..WindowCount(tokens) :
           /\ (k - 1) * Advance \in Nat /\ (k - 1) * Advance < q
           /\ q + 1 <= WindowEnd(tokens, k) /\ WindowEnd(tokens, k) <= Len(tokens)
           /\ WindowEnd(tokens, k) \in Nat
  BY <1>1, SomeWindow
<1> DEFINE before == (k - 1) * Advance
           m == before + 1
           n == WindowEnd(tokens, k)
           i == q - before
<1>3. Window(tokens, k) = SubSeq(tokens, m, n)  BY DEF Window, WindowEnd
<1> HIDE DEF before, n
<1>4. before \in Nat /\ before < q /\ n \in Nat /\ q + 1 <= n /\ n <= Len(tokens)
  BY <1>2 DEF before, n
<1>5. /\ m \in Nat \ {0} /\ i \in Nat \ {0} /\ i + 1 \in Nat /\ i <= i + 1
      /\ i + 1 <= n - m + 1 /\ m <= n /\ m + i - 1 = q /\ m + (i + 1) - 1 = q + 1
  BY <1>1, <1>4
<1> HIDE DEF m, i
<1>6. /\ SubSeq(tokens, m, n) \in Seq(W) /\ Len(SubSeq(tokens, m, n)) = n - m + 1
      /\ SubSeq(SubSeq(tokens, m, n), i, i + 1) = SubSeq(tokens, q, q + 1)
  <2>1. SubSeq(tokens, m, n) \in Seq(W) /\ Len(SubSeq(tokens, m, n)) = n - m + 1
    BY <1>4, <1>5, PartFacts
  <2> DEFINE j == i + 1
  <2> HIDE DEF j
  <2>2. j \in Nat /\ i <= j /\ j <= n - m + 1 /\ m + j - 1 = q + 1  BY <1>5 DEF j
  <2>3. SubSeq(SubSeq(tokens, m, n), i, j) = SubSeq(tokens, m + i - 1, m + j - 1)
    BY <1>4, <1>5, <2>2, PartOfPart
  <2> QED  BY <1>5, <2>1, <2>2, <2>3 DEF j
<1>7. Pair(SubSeq(tokens, m, n), i)  BY <1>5, <1>6 DEF Pair
<1>8. Score(SubSeq(tokens, m, n)) = 95  BY <1>6, <1>7, PairScores
<1> QED  BY <1>3, <1>8

\* So it is its score, if it is not cut.
LEMMA MaxScore ==
  ASSUME NEW W, NEW s, NEW text, Cut(text, MaxBytes(s.maxWindows)) = text,
         Words(text) \in Seq(W), NEW q, Pair(Words(text), q)
  PROVE  MaxWindowScore(s, text) = 95
<1> DEFINE tokens == Words(text)
           scores == {Score(Window(tokens, k)) : k \in 1..WindowCount(tokens)}
<1>1. MaxWindowScore(s, text) = CHOOSE x \in scores : \A y \in scores : y <= x
  BY DEF MaxWindowScore
<1>2. 95 \in scores
  <2>1. \E k \in 1..WindowCount(tokens) : Score(Window(tokens, k)) = 95  BY WindowScores
  <2> QED  BY <2>1
<1>3. scores \subseteq {5, 95}  BY DEF Score
<1> HIDE DEF scores
<1>4. \A x \in scores : (\A y \in scores : y <= x) => x = 95  BY <1>2, <1>3
<1>5. \A y \in scores : y <= 95  BY <1>3
<1> QED  BY <1>1, <1>2, <1>4, <1>5

\* Lengths in bytes are numbers.
LEMMA BytesType ==
  ASSUME NEW W, NEW text \in Seq(W)
  PROVE  Bytes(text) \in Nat
<1> DEFINE S == {i \in DOMAIN text : text[i] \in LongWords}
<1>1. Len(text) \in Nat /\ DOMAIN text = 1..Len(text)  BY LenProperties
<1>2. IsFiniteSet(1..Len(text))  BY <1>1, FS_Interval
<1>3. S \subseteq 1..Len(text)  BY <1>1
<1> HIDE DEF S
<1>4. IsFiniteSet(S)  BY <1>2, <1>3, FS_Subset
<1>5. Cardinality(S) \in Nat  BY <1>4, FS_CardinalityType
<1>6. LongWordBytes - 1 \in Nat  BY WindowAssumption
<1>7. (LongWordBytes - 1) * Cardinality(S) \in Nat
  <2>1. \A x \in Nat : \A y \in Nat : x * y \in Nat  OBVIOUS
  <2> QED  BY <1>5, <1>6, <2>1
<1>8. Bytes(text) = Len(text) + (LongWordBytes - 1) * Cardinality(S)  BY DEF Bytes, S
<1> HIDE DEF S
<1> QED  BY <1>1, <1>7, <1>8

\* The limit in bytes is a number.
LEMMA MaxBytesType == ASSUME NEW n \in Nat \ {0} PROVE MaxBytes(n) \in Nat
<1>1. /\ WindowTokens \in Nat /\ WindowTokens - WindowStride \in Nat /\ n - 1 \in Nat
      /\ BytesPerToken \in Nat
  BY WindowAssumption
<1> DEFINE a == (n - 1) * (WindowTokens - WindowStride)
           b == WindowTokens + a
<1>2. a \in Nat  BY <1>1
<1> HIDE DEF a
<1>3. b \in Nat  BY <1>1, <1>2
<1> HIDE DEF b
<1>4. b * BytesPerToken \in Nat  BY <1>1, <1>3
<1> QED  BY <1>4 DEF MaxBytes, a, b

(* What is not too long is not cut.                                        *)
LEMMA NotCut ==
  ASSUME NEW W, NEW text \in Seq(W), text # <<>>, NEW limit \in Nat, Bytes(text) <= limit
  PROVE  Cut(text, limit) = text
<1> DEFINE fits == {n \in 0..Len(text) : Bytes(SubSeq(text, 1, n)) <= limit}
           last == CHOOSE n \in fits : \A k \in fits : k <= n
<1>1. Len(text) \in Nat /\ Len(text) > 0  BY EmptySeq, LenProperties
<1>2. SubSeq(text, 1, Len(text)) = text  BY <1>1, UptoEnds DEF Upto
<1>a. Bytes(SubSeq(text, 1, Len(text))) <= limit  BY <1>2
<1>b. Len(text) \in 0..Len(text)  BY <1>1
<1>3. Len(text) \in fits  BY <1>a, <1>b
<1>4. \A k \in fits : k \in Nat /\ k <= Len(text)  BY <1>1
<1> HIDE DEF fits
<1>5. last \in fits /\ \A k \in fits : k <= last  BY <1>3, <1>4
<1>6. last = Len(text)  BY <1>1, <1>3, <1>4, <1>5
<1> HIDE DEF last
<1>7. Cut(text, limit) = SubSeq(text, 1, last)  BY DEF Cut, fits, last
<1> QED  BY <1>2, <1>6, <1>7

\* An ONNX stage with the settings that validation lets through.
Measures(s) == s.threshold \in Int /\ s.maxWindows \in Nat \ {0}

(* Such a stage does not let pass what is harmful.                         *)
LEMMA StrictStops ==
  ASSUME NEW W, NEW s, Strict(s), Measures(s), NEW messages,
         NEW text \in Seq(W), text = TextForRoles(messages, s.roles), text # <<>>,
         Words(text) \in Seq(W), Words(text) # <<>>, NEW q, Pair(Words(text), q)
  PROVE  Evaluate(s, messages).kind \in {"block", "tooLong"}
<1> DEFINE limit == MaxBytes(s.maxWindows)
<1>1. Evaluate(s, messages) = EvaluateOnnx(s, messages)  BY DEF Evaluate, Strict
<1>2. limit \in Nat  BY MaxBytesType DEF Measures
<1>3. Bytes(text) \in Nat  BY BytesType
<1>4. CASE TooLong(s, text)
  <2>1. EvaluateOnnx(s, messages) = [kind |-> "tooLong"]  BY <1>4 DEF EvaluateOnnx
  <2> QED  BY <1>1, <2>1
<1>5. CASE ~TooLong(s, text)
  <2>1. Bytes(text) <= limit  BY <1>2, <1>3, <1>5 DEF TooLong
  <2> HIDE DEF limit
  <2>2. Cut(text, limit) = text  BY <1>2, <2>1, NotCut
  <2>3. MaxWindowScore(s, text) = 95  BY <2>2, MaxScore DEF limit
  <2>4. Score(Harmful) = 95
    <3>1. Harmful \in Seq(STRING \ {"\n"}) /\ Len(Harmful) = 2  BY PatternAssumption
    <3>2. SubSeq(Harmful, 1, 2) = Harmful
      <4>1. Len(Harmful) > 0  BY <3>1
      <4> QED  BY <3>1, <4>1, UptoEnds DEF Upto
    <3>3. 1 \in 1..(Len(Harmful) - 1) /\ SubSeq(Harmful, 1, 1 + 1) = Harmful  BY <3>1, <3>2
    <3> QED  BY <3>3 DEF Score
  <2>5. ~(MaxWindowScore(s, text) < s.threshold) /\ ~s.logOnly
    BY <2>3, <2>4 DEF Strict, Measures
  <2>6. EvaluateOnnx(s, messages)
          = Block(IF s.id = "toxicity" THEN "toxicity" ELSE "prompt_injection")
    BY <1>5, <2>5 DEF EvaluateOnnx
  <2> QED  BY <1>1, <2>6 DEF Block
<1> QED  BY <1>4, <1>5

-----------------------------------------------------------------------------
\* Each text is part of what they are joined to.
LEMMA JoinWithin ==
  ASSUME NEW W, "\n" \in W, NEW texts \in Seq(Seq(W)), NEW j \in DOMAIN texts
  PROVE  Within(W, texts[j], Join(texts))
<1> DEFINE newline == <<"\n">>
           f == [i \in DOMAIN texts |-> IF i = 1 THEN texts[i] ELSE newline \o texts[i]]
<1>1. Join(texts) = FlattenSeq(f)  BY DEF Join
<1>2. newline \in Seq(W)  OBVIOUS
<1>3. Len(texts) \in Nat /\ DOMAIN texts = 1..Len(texts) /\ \A i \in DOMAIN texts : texts[i] \in Seq(W)
  BY LenProperties, ElementOfSeq
<1> HIDE DEF newline
<1>4. ASSUME NEW i \in DOMAIN texts
      PROVE  f[i] \in Seq(W) /\ Within(W, texts[i], f[i])
  <2>1. newline \o texts[i] \in Seq(W) /\ Within(W, texts[i], newline \o texts[i])
    BY <1>2, <1>3, ConcatProperties, WithinSelf, WithinRight
  <2> QED  BY <1>3, <2>1, WithinSelf
<1>5. f \in [1..Len(texts) -> Seq(W)] /\ DOMAIN f = DOMAIN texts  BY <1>3, <1>4
<1> HIDE DEF f
<1>6. f \in Seq(Seq(W))  BY <1>3, <1>5, FunctionIsSequence
<1>7. Within(W, f[j], FlattenSeq(f))  BY <1>5, <1>6, FlattenWithin
<1>8. Within(W, texts[j], FlattenSeq(f))  BY <1>3, <1>4, <1>7, WithinTwice
<1> QED  BY <1>1, <1>8

\* A part of a message is part of its text.
LEMMA AsTextWithin ==
  ASSUME NEW W, "\n" \in W, NEW message, message.parts \in Seq(Piece(W)),
         NEW q \in ToSet(message.parts), ~q.image
  PROVE  q.text \in Seq(W) /\ AsText(message) \in Seq(W) /\ Within(W, q.text, AsText(message))
<1> DEFINE parts == message.parts
           wanted == {p \in ToSet(parts) : ~p.image}
           texts == Only(parts, wanted)
           all == [i \in DOMAIN texts |-> texts[i].text]
<1>1. AsText(message) = Join(all)  BY DEF AsText
<1>a. q \in wanted  OBVIOUS
<1> HIDE DEF wanted
<1>2. texts \in Seq(Piece(W)) /\ ToSet(texts) = ToSet(parts) \cap wanted
  BY OnlyType, OnlyHolds
<1> HIDE DEF texts
<1>3. /\ Len(texts) \in Nat /\ DOMAIN texts = 1..Len(texts)
      /\ \A i \in DOMAIN texts : texts[i] \in Piece(W)
  BY <1>2, LenProperties, ElementOfSeq
<1>4. \A i \in DOMAIN texts : texts[i].text \in Seq(W)  BY <1>3 DEF Piece
<1>5. all \in [1..Len(texts) -> Seq(W)]  BY <1>3, <1>4
<1>6. all \in Seq(Seq(W)) /\ DOMAIN all = DOMAIN texts /\ \A i \in DOMAIN all : all[i] = texts[i].text
  BY <1>3, <1>5, FunctionIsSequence
<1>7. q \in ToSet(texts)  BY <1>a, <1>2
<1>8. PICK i \in DOMAIN texts : texts[i] = q  BY <1>7 DEF ToSet
<1> HIDE DEF all
<1>9. Within(W, all[i], Join(all)) /\ Join(all) \in Seq(W)  BY <1>6, JoinWithin, JoinHolds
<1> QED  BY <1>1, <1>4, <1>6, <1>8, <1>9

(* A part of what someone in one of the roles says is part of what an ONNX  *)
(* stage with these roles looks at.                                        *)
LEMMA RolesWithin ==
  ASSUME NEW R, NEW W, "\n" \in W, NEW messages \in Turns(R, W), NEW roles,
         NEW i \in DOMAIN messages, messages[i].role \in roles,
         NEW q \in ToSet(messages[i].parts), ~q.image
  PROVE  /\ q.text \in Seq(W) /\ TextForRoles(messages, roles) \in Seq(W)
         /\ Within(W, q.text, TextForRoles(messages, roles))
<1> DEFINE Turn == [role : R, parts : Seq(Piece(W))]
           wanted == {m \in ToSet(messages) : m.role \in roles}
           spoken == Only(messages, wanted)
           f == [n \in DOMAIN spoken |-> AsText(spoken[n])]
<1>1. TextForRoles(messages, roles) = Join(f)  BY DEF TextForRoles
<1>2. messages \in Seq(Turn)  BY DEF Turns
<1>3. \A m \in Turn : m.parts \in Seq(Piece(W))  OBVIOUS
<1>4. messages[i] \in wanted /\ messages[i] \in ToSet(messages)  BY DEF ToSet
<1> HIDE DEF wanted, Turn
<1>5. spoken \in Seq(Turn) /\ ToSet(spoken) = ToSet(messages) \cap wanted
  BY <1>2, OnlyType, OnlyHolds
<1> HIDE DEF spoken
<1>6. /\ Len(spoken) \in Nat /\ DOMAIN spoken = 1..Len(spoken)
      /\ \A n \in DOMAIN spoken : spoken[n] \in Turn
  BY <1>5, LenProperties, ElementOfSeq
<1>7. \A n \in DOMAIN spoken : AsText(spoken[n]) \in Seq(W)  BY <1>3, <1>6, AsTextHolds
<1>8. f \in [1..Len(spoken) -> Seq(W)]  BY <1>6, <1>7
<1>9. f \in Seq(Seq(W)) /\ DOMAIN f = DOMAIN spoken /\ \A n \in DOMAIN f : f[n] = AsText(spoken[n])
  BY <1>6, <1>8, FunctionIsSequence
<1> HIDE DEF f
<1>10. messages[i] \in ToSet(spoken)  BY <1>4, <1>5
<1>11. PICK n \in DOMAIN spoken : spoken[n] = messages[i]  BY <1>10 DEF ToSet
<1>12. Join(f) \in Seq(W) /\ Within(W, f[n], Join(f))  BY <1>9, <1>11, JoinHolds, JoinWithin
<1>13. messages[i].parts \in Seq(Piece(W))  BY <1>3, <1>6, <1>11
<1>14. q.text \in Seq(W) /\ f[n] \in Seq(W) /\ Within(W, q.text, f[n])
  BY <1>9, <1>11, <1>13, AsTextWithin
<1>15. Within(W, q.text, Join(f))  BY <1>12, <1>14, WithinTwice
<1> QED  BY <1>1, <1>12, <1>14, <1>15

(* The words of two texts, one after the other.                            *)
LEMMA WordsConcat ==
  ASSUME NEW W, NEW s \in Seq(W), NEW t \in Seq(W)
  PROVE  Words(s) \in Seq(W) /\ Words(s \o t) = Words(s) \o Words(t)
<1> DEFINE word == W \ {"\n"}
<1>1. \A x \in Seq(W) : Words(x) = Only(x, word)
  <2> SUFFICES ASSUME NEW x \in Seq(W) PROVE Words(x) = Only(x, word)  OBVIOUS
  <2>1. ToSet(x) \subseteq W
    <3>1. \A n \in DOMAIN x : x[n] \in W  BY ElementOfSeq, LenProperties
    <3> QED  BY <3>1 DEF ToSet
  <2>2. \A y \in ToSet(x) : y \in ToSet(x) \ {"\n"} <=> y \in word  BY <2>1
  <2> HIDE DEF word
  <2> QED  BY <2>2, OnlySame DEF Words
<1>2. s \o t \in Seq(W)  BY ConcatProperties
<1> HIDE DEF word
<1>3. Only(s, word) \in Seq(W)  BY OnlyType
<1>4. Only(s \o t, word) = Only(s, word) \o Only(t, word)  BY OnlyConcat, SMTT(30)
<1> QED  BY <1>1, <1>2, <1>3, <1>4

(* What is harmful stays a pair of words wherever it is.                   *)
LEMMA HarmPair ==
  ASSUME NEW W, NEW s \in Seq(W), NEW text \in Seq(W), Within(W, s, text), Words(s) = Harmful
  PROVE  /\ Words(text) \in Seq(W) /\ Words(text) # <<>> /\ text # <<>>
         /\ \E q : Pair(Words(text), q)
<1>1. PICK a \in Seq(W), b \in Seq(W) : text = (a \o s) \o b  BY DEF Within
<1> DEFINE A == Words(a)
           B == Words(b)
           H == Words(s)
           mid == a \o s
           AH == A \o H
           all == AH \o B
<1>2. A \in Seq(W) /\ H \in Seq(W) /\ Words(mid) = AH
  BY WordsConcat
<1>3. mid \in Seq(W)  BY ConcatProperties
<1>4. text = mid \o b  BY <1>1
<1> HIDE DEF mid
<1>5. B \in Seq(W) /\ Words(text) = all
  <2>1. Words(mid \o b) = Words(mid) \o Words(b)  BY <1>3, WordsConcat
  <2>2. B \in Seq(W)  BY WordsConcat
  <2> QED  BY <1>2, <1>4, <2>1, <2>2
<1>6. Len(H) = 2 /\ H = Harmful  BY PatternAssumption
<1> HIDE DEF A, B, H
<1>7. Joined(W, AH, A, H)  BY <1>2, ConcatItems
<1>8. AH \in Seq(W)  BY <1>7 DEF Joined
<1> HIDE DEF AH
<1>9. Joined(W, all, AH, B)  BY <1>5, <1>8, ConcatItems
<1> HIDE DEF all
<1> DEFINE q == Len(A) + 1
<1>10. /\ Len(A) \in Nat /\ Len(A) + 2 <= Len(all)
       /\ SubSeq(all, Len(A) + 1, Len(A) + 2) = H
  <2> DEFINE two == 2
  <2>1. two \in Nat \ {0} /\ Len(H) = two  BY <1>6
  <2> HIDE DEF two
  <2>2. /\ Len(A) \in Nat /\ Len(A) + two <= Len(all)
        /\ SubSeq(all, Len(A) + 1, Len(A) + two) = H
    BY <1>2, <1>5, <1>7, <1>9, <2>1, MiddleOf
  <2> QED  BY <2>2 DEF two
<1>11. q \in Nat \ {0} /\ q + 1 = Len(A) + 2  BY <1>10
<1>12. Pair(all, q)  BY <1>6, <1>10, <1>11 DEF Pair
<1>13. all \in Seq(W) /\ all # <<>>  BY <1>9, <1>10 DEF Joined
<1>14. text # <<>>
  <2>1. Words(<<>>) = <<>>  BY OnlyEmpty DEF Words
  <2> QED  BY <1>5, <1>13, <2>1
<1> QED  BY <1>5, <1>12, <1>13, <1>14

(* A harmful part of a text is not empty.                                  *)
LEMMA HarmPart ==
  ASSUME NEW W, NEW text \in Seq(W), NEW i \in DOMAIN text, NEW j \in DOMAIN text,
         Words(SubSeq(text, i, j)) = Harmful
  PROVE  i \in Nat \ {0} /\ j \in Nat /\ i <= j /\ j <= Len(text)
<1>1. Len(text) \in Nat /\ DOMAIN text = 1..Len(text)  BY LenProperties
<1>2. i \in Nat \ {0} /\ j \in Nat \ {0} /\ i <= Len(text) /\ j <= Len(text)  BY <1>1
<1>3. CASE j < i
  <2>1. SubSeq(text, i, j) = <<>>  BY <1>1, <1>2, <1>3, SubSeqEmpty
  <2>2. Words(<<>>) = <<>>  BY OnlyEmpty DEF Words
  <2>3. Harmful = <<>>  BY <2>1, <2>2
  <2>4. Len(Harmful) = 2  BY PatternAssumption
  <2> QED  BY <2>3, <2>4
<1> QED  BY <1>2, <1>3

(* What such a stage lets pass is not harmful, whoever in its roles says    *)
(* it.                                                                     *)
LEMMA AllowedIsHarmless ==
  ASSUME NEW R, NEW W, "\n" \in W, NEW messages \in Turns(R, W), NEW s, Strict(s), Measures(s),
         Evaluate(s, messages).kind \notin {"block", "tooLong"},
         NEW i \in DOMAIN messages, messages[i].role \in s.roles,
         NEW q \in ToSet(messages[i].parts), ~q.image
  PROVE  ~HarmIn(q.text)
<1> SUFFICES ASSUME HarmIn(q.text) PROVE FALSE  OBVIOUS
<1> DEFINE all == TextForRoles(messages, s.roles)
<1>1. q.text \in Seq(W) /\ all \in Seq(W) /\ Within(W, q.text, all)  BY RolesWithin
<1>2. PICK a \in DOMAIN q.text, b \in DOMAIN q.text : Words(SubSeq(q.text, a, b)) = Harmful
  BY DEF HarmIn
<1> DEFINE text == q.text
           harm == SubSeq(text, a, b)
<1>3. text \in Seq(W) /\ a \in DOMAIN text /\ b \in DOMAIN text /\ Words(harm) = Harmful
      /\ Within(W, text, all)
  BY <1>1, <1>2
<1> HIDE DEF text, all
<1>4. a \in Nat \ {0} /\ b \in Nat /\ a <= b /\ b <= Len(text)  BY <1>3, HarmPart
<1>5. harm \in Seq(W) /\ Within(W, harm, text)  BY <1>3, <1>4, PartFacts, PartWithin
<1> HIDE DEF harm
<1>6. Within(W, harm, all)  BY <1>1, <1>3, <1>5, WithinTwice
<1>7. /\ Words(all) \in Seq(W) /\ Words(all) # <<>> /\ all # <<>>
      /\ \E n : Pair(Words(all), n)
  BY <1>1, <1>3, <1>5, <1>6, HarmPair
<1>8. PICK n : Pair(Words(all), n)  BY <1>7
<1>9. all = TextForRoles(messages, s.roles)  BY DEF all
<1>10. Evaluate(s, messages).kind \in {"block", "tooLong"}
  BY <1>1, <1>7, <1>8, <1>9, StrictStops
<1> QED  BY <1>10

(* A redaction makes nothing harmful but with the words that it makes.      *)
LEMMA RedactedIsHarmless ==
  ASSUME NEW W, NEW pii, Ordered(pii), Made(pii) \subseteq W, Made(pii) \subseteq Replacements,
         NEW text \in Seq(W), HarmIn(RedactText(pii, text))
  PROVE  HarmIn(text)
<1> DEFINE new == RedactText(pii, text)
<1>1. new \in Seq(W)  BY RedactTextHolds
<1>2. DOMAIN new = DOMAIN text  BY DEF RedactText
<1>5. \A n \in DOMAIN text : new[n] \in Made(pii) \/ new[n] = text[n]  BY RedactTextAt
<1>3. HarmIn(new)  OBVIOUS
<1> HIDE DEF new
<1>4. DOMAIN new = DOMAIN text /\ Len(text) \in Nat /\ Len(new) \in Nat
      /\ DOMAIN text = 1..Len(text) /\ DOMAIN new = 1..Len(new) /\ Len(new) = Len(text)
  <2>1. DOMAIN new = DOMAIN text  BY <1>2
  <2>2. Len(text) \in Nat /\ DOMAIN text = 1..Len(text)
        /\ Len(new) \in Nat /\ DOMAIN new = 1..Len(new)
    BY <1>1, LenProperties
  <2>3. \A x, y \in Nat : 1..x = 1..y => x = y
    <3> SUFFICES ASSUME NEW x \in Nat, NEW y \in Nat, 1..x = 1..y, x < y PROVE FALSE  OBVIOUS
    <3>1. y \in 1..y /\ y \notin 1..x  OBVIOUS
    <3> QED  BY <3>1
  <2>4. 1..Len(new) = 1..Len(text)  BY <2>1, <2>2
  <2>5. Len(new) = Len(text)  BY <2>2, <2>3, <2>4
  <2> QED  BY <2>1, <2>2, <2>5
<1>6. PICK i \in DOMAIN new, j \in DOMAIN new :
           /\ Words(SubSeq(new, i, j)) = Harmful
           /\ ToSet(SubSeq(new, i, j)) \cap Replacements = {}
  BY <1>3 DEF HarmIn
<1>7. i \in Nat \ {0} /\ j \in Nat /\ i <= j /\ j <= Len(new)  BY <1>1, <1>6, HarmPart
<1> DEFINE m == j - i + 1
           old == SubSeq(text, i, j)
           now == SubSeq(new, i, j)
<1>8. /\ now \in Seq(W) /\ Len(now) = m /\ \A x \in 1..m : now[x] = new[i + x - 1]
  BY <1>1, <1>7, PartFacts
<1>9. /\ old \in Seq(W) /\ Len(old) = m /\ \A x \in 1..m : old[x] = text[i + x - 1]
  BY <1>4, <1>7, PartFacts
<1>10. ToSet(now) \cap Replacements = {}  BY <1>6
<1> HIDE DEF old, now
<1>11. ASSUME NEW x \in 1..m PROVE now[x] = old[x]
  <2>1. i + x - 1 \in DOMAIN text  BY <1>4, <1>7
  <2>2. m \in Nat  BY <1>7
  <2>3. DOMAIN now = 1..m  BY <1>8, LenProperties
  <2>4. now[x] \notin Replacements  BY <1>10, <2>3 DEF ToSet
  <2>5. new[i + x - 1] = text[i + x - 1]  BY <1>5, <1>8, <2>1, <2>4
  <2> QED  BY <1>8, <1>9, <2>5
<1>12. now = old
  <2>1. Len(now) = Len(old) /\ \A x \in 1..Len(now) : now[x] = old[x]  BY <1>8, <1>9, <1>11
  <2> QED  BY <1>8, <1>9, <2>1, SeqEqual
<1> QED  BY <1>4, <1>6, <1>12 DEF HarmIn, now, old

-----------------------------------------------------------------------------
(* The harm that no strict stage lets through.                             *)
\* An ONNX stage of a pipeline that was built has settings that were validated.
LEMMA BuiltMeasures ==
  ASSUME NEW v \in Usable, NEW k \in DOMAIN StagesOf[v],
         StagesOf[v][k].id \in {"onnx_injection", "toxicity"}
  PROVE  Measures(StagesOf[v][k])
<1> DEFINE c == Loaded(v)
           ids == Only(c.pipeline.request_stages, StagesOn(c))
           built == [i \in DOMAIN ids |-> Stage(c, ids[i])]
<1>1. StagesOf[v] = built  BY DEF StagesOf, BuiltPipeline
<1>2. v \in Readable /\ Valid(c)  BY DEF Usable, LoadFails
<1>3. c.pipeline.request_stages \in Seq(STRING)  BY <1>2, SchemaAssumption
<1>4. OnnxStageValid(c.stages.onnx_injection) /\ OnnxStageValid(c.stages.toxicity)
  BY <1>2 DEF Valid
<1> HIDE DEF c
<1>5. ids \in Seq(STRING) /\ ToSet(ids) \subseteq StagesOn(c)  BY <1>3, OnlyType, OnlyHolds
<1> HIDE DEF ids
<1>6. k \in DOMAIN ids /\ built[k] = Stage(c, ids[k]) /\ StagesOf[v][k] = built[k]
  BY <1>1
<1> HIDE DEF built
<1>7. ids[k] \in StagesOn(c)  BY <1>5, <1>6 DEF ToSet
<1>8. Stage(c, ids[k]).id = ids[k]
  <2>1. ids[k] \in RequestStages  BY <1>7 DEF StagesOn
  <2> QED  BY <2>1 DEF Stage, RegexStage, PiiStage, PolicyStage, OnnxStage, RequestStages
<1>9. ids[k] \in {"onnx_injection", "toxicity"}  BY <1>6, <1>8
<1>10. c.stages[ids[k]].enabled  BY <1>7, <1>9 DEF StagesOn
<1>11. OnnxStageValid(c.stages[ids[k]])  BY <1>4, <1>9
<1>12. c.stages[ids[k]].threshold \in 0..100 /\ c.stages[ids[k]].max_windows \in Nat \ {0}
  BY <1>10, <1>11 DEF OnnxStageValid
<1>13. Stage(c, ids[k]) = OnnxStage(c, ids[k])  BY <1>9 DEF Stage
<1>14. /\ Stage(c, ids[k]).threshold = c.stages[ids[k]].threshold
       /\ Stage(c, ids[k]).maxWindows = c.stages[ids[k]].max_windows
  BY <1>13 DEF OnnxStage
<1> QED  BY <1>6, <1>12, <1>14 DEF Measures

\* A message's pointers lead to what its role says.
LEMMA PointersHeeded ==
  ASSUME NEW c, NEW table, NEW m \in Heeded(c, table)
  PROVE  ToSet(Pointers(m)) \subseteq Heard(c, table, m.role)
<1> DEFINE heard == Heard(c, table, m.role)
           segments == m.segments
           wanted == {s \in ToSet(segments) : ~s.image}
           texts == Only(segments, wanted)
           all == [i \in DOMAIN texts |-> texts[i].at]
<1>1. Pointers(m) = all  BY DEF Pointers
<1>2. segments \in Seq(SegmentAt(c.body, heard))  BY DEF Heeded
<1> HIDE DEF heard, segments
<1>3. \A s \in wanted : s \in ToSet(segments) /\ ~s.image  OBVIOUS
<1> HIDE DEF wanted
<1>4. texts \in Seq(SegmentAt(c.body, heard)) /\ ToSet(texts) = ToSet(segments) \cap wanted
  BY <1>2, OnlyType, OnlyHolds
<1> HIDE DEF texts
<1>5. ASSUME NEW i \in DOMAIN texts PROVE texts[i].at \in heard
  <2>1. texts[i] \in ToSet(texts)  BY DEF ToSet
  <2>2. ~texts[i].image  BY <1>3, <1>4, <2>1
  <2>3. texts[i] \in SegmentAt(c.body, heard)  BY <1>4, LenProperties, ElementOfSeq
  <2> QED  BY <2>2, <2>3 DEF SegmentAt
<1>6. ToSet(all) \subseteq heard  BY <1>5 DEF ToSet
<1> QED  BY <1>1, <1>6 DEF heard

\* Nothing that is said in these roles is harmful.
Harmless(messages, roles) ==
  \A i \in DOMAIN messages : messages[i].role \in roles =>
    \A q \in ToSet(messages[i].parts) : ~q.image => ~HarmIn(q.text)

\* A redaction keeps a request harmless, and its messages' roles.
LEMMA RedactedStaysHarmless ==
  ASSUME NEW R, NEW W, NEW pii, Ordered(pii), Made(pii) \subseteq W, Made(pii) \subseteq Replacements,
         NEW messages \in Turns(R, W)
  PROVE  LET new == RedactRequest(pii, messages)
         IN  /\ DOMAIN new = DOMAIN messages
             /\ \A i \in DOMAIN messages : new[i].role = messages[i].role
             /\ \A roles : Harmless(messages, roles) => Harmless(new, roles)
<1> DEFINE new == RedactRequest(pii, messages)
           Turn == [role : R, parts : Seq(Piece(W))]
<1>1. DOMAIN new = DOMAIN messages  BY DEF RedactRequest
<1>2. \A i \in DOMAIN messages : messages[i] \in Turn
  BY LenProperties, ElementOfSeq DEF Turns
<1>3. ASSUME NEW i \in DOMAIN messages
      PROVE  /\ new[i].role = messages[i].role
             /\ new[i].parts = RedactParts(pii, messages[i].parts)
  <2>1. new[i] = [messages[i] EXCEPT !.parts = RedactParts(pii, messages[i].parts)]
    BY DEF RedactRequest
  <2> QED  BY <1>2, <2>1
<1> HIDE DEF new
<1>4. ASSUME NEW roles, Harmless(messages, roles), NEW i \in DOMAIN messages,
             messages[i].role \in roles, NEW q \in ToSet(new[i].parts), ~q.image, HarmIn(q.text)
      PROVE  FALSE
  <2> DEFINE parts == messages[i].parts
  <2>1. parts \in Seq(Piece(W))  BY <1>2
  <2>2. q \in ToSet(RedactParts(pii, parts))  BY <1>3
  <2>3. \A p \in ToSet(parts) : ~p.image => ~HarmIn(p.text)  BY <1>4 DEF Harmless
  <2> HIDE DEF parts
  <2>4. PICK n \in DOMAIN parts :
             q = [parts[n] EXCEPT !.text = RedactText(pii, parts[n].text)]
    BY <2>2 DEF ToSet, RedactParts
  <2>5. parts[n] \in Piece(W)  BY <2>1, LenProperties, ElementOfSeq
  <2>6. q.image = parts[n].image /\ q.text = RedactText(pii, parts[n].text)
        /\ parts[n].text \in Seq(W)
    BY <2>4, <2>5 DEF Piece
  <2>7. parts[n] \in ToSet(parts)  BY DEF ToSet
  <2>8. HarmIn(parts[n].text)
    <3>1. HarmIn(RedactText(pii, parts[n].text))  BY <1>4, <2>6
    <3> QED  BY <2>6, <3>1, RedactedIsHarmless
  <2> QED  BY <1>4, <2>3, <2>6, <2>7, <2>8
<1>5. \A roles : Harmless(messages, roles) => Harmless(new, roles)
  BY <1>1, <1>3, <1>4 DEF Harmless
<1> QED  BY <1>1, <1>3, <1>5 DEF new

\* What is written of a message is what its role says, and leads there.
Voiced ==
  /\ DOMAIN pointers = DOMAIN request
  /\ \A i \in DOMAIN request :
       ToSet(pointers[i]) \subseteq Heard(client, TableOf(client), request[i].role)

\* No strict stage that has run has let harm through, but one that failed open.
CalmSoFar ==
  \A k \in DOMAIN stages :
    k < stage /\ Strict(stages[k]) /\ ~Contains(failedOpen, stages[k].id)
      => Harmless(request, stages[k].roles)

(* While a request is screened, its messages' places are those of their     *)
(* roles, and what a strict stage has let through has no harm in it.        *)
Calm ==
  /\ failedOpen \in Seq({"onnx_injection", "toxicity"})
  /\ at \in {"screening", "writing"} => Voiced /\ CalmSoFar

\* Harm is what it was, if the stages are.
LEMMA HarmSettled ==
  ASSUME Replacements' = Replacements
  PROVE  /\ \A text : HarmIn(text)' <=> HarmIn(text)
         /\ \A messages, roles : Harmless(messages, roles)' <=> Harmless(messages, roles)
<1>1. \A text : HarmIn(text)' <=> HarmIn(text)  BY DEF HarmIn
<1> QED  BY <1>1 DEF Harmless

(* Parsing gives every message the places of its role.                     *)
LEMMA ParseCalm ==
  ASSUME Routed, Screened, Calm, Parse
  PROVE  Calm'
<1>1. /\ client' = client /\ stage' = stage /\ stage = 1 /\ version' = version
      /\ at = "parsing" /\ failedOpen' = failedOpen /\ stages' = stages
  BY SettledStages DEF Parse, Screened
<1>2. CASE at' = "done"  BY <1>1, <1>2 DEF Calm
<1>3. CASE at' # "done"
  <2> DEFINE extracted == ParseApiBody(client.body, api)
  <2>1. /\ request'  = [i \in DOMAIN extracted |-> Finish(extracted[i])]
        /\ pointers' = [i \in DOMAIN extracted |-> Pointers(extracted[i])]
    BY <1>3 DEF Parse, Refuse
  <2>2. IsDocument(client.body) /\ ScannedApi(client.path) # "none"
    BY <1>1, BodyWording, ScannedRoute DEF Routed
  <2>3. extracted \in Seq(Heeded(client, TableOf(client)))  BY <2>2, ParseHeeds DEF api
  <2> HIDE DEF extracted
  <2>4. \A i \in DOMAIN extracted : extracted[i] \in Heeded(client, TableOf(client))
    BY <2>3, LenProperties, ElementOfSeq
  <2>5. ASSUME NEW i \in DOMAIN extracted
        PROVE  ToSet(pointers'[i]) \subseteq Heard(client, TableOf(client), request'[i].role)
    <3>1. pointers'[i] = Pointers(extracted[i]) /\ request'[i] = Finish(extracted[i])  BY <2>1
    <3>2. request'[i].role = extracted[i].role  BY <3>1 DEF Finish
    <3>3. ToSet(Pointers(extracted[i])) \subseteq Heard(client, TableOf(client), extracted[i].role)
      BY <2>4, PointersHeeded
    <3> QED  BY <3>1, <3>2, <3>3
  <2>6. DOMAIN request' = DOMAIN extracted /\ DOMAIN pointers' = DOMAIN extracted  BY <2>1
  <2>7. Voiced'  BY <1>1, <2>5, <2>6 DEF Voiced
  <2>8. CalmSoFar'
    <3>1. DOMAIN stages = 1..Len(stages) /\ Len(stages) \in Nat
      BY BuiltStages DEF Routed, stages, ArePipeline
    <3>2. \A k \in DOMAIN stages' : ~(k < stage')  BY <1>1, <3>1
    <3> QED  BY <3>2 DEF CalmSoFar
  <2> QED  BY <1>1, <2>7, <2>8 DEF Calm
<1> QED  BY <1>2, <1>3

\* A strict stage that goes on has heard no harm.
LEMMA StrictGoesOn ==
  ASSUME Routed, Screened, RunStage, at' # "done", Strict(stages[stage])
  PROVE  request' = request /\ Harmless(request, stages[stage].roles)
<1> DEFINE s == stages[stage]
           R == Speakers(client.body)
<1>1. at = "screening" /\ stage <= Len(stages)  BY DEF RunStage
<1>2. ArePipeline(stages)  BY BuiltStages DEF Routed, stages
<1>3. stage \in DOMAIN stages /\ request \in Turns(R, Wording)
  BY <1>1, <1>2 DEF Screened, ArePipeline
<1>4. Measures(s)
  <2>1. s.id \in {"onnx_injection", "toxicity"}  BY DEF Strict
  <2> QED  BY <1>3, <2>1, BuiltMeasures DEF Routed, stages
<1>5. s.id # "pii_redactor" /\ s.onOversize = "block"  BY DEF Strict
<1>6. request' = request /\ Evaluate(s, request).kind = "allow"
  <2> HIDE DEF s
  <2>1. \/ Evaluate(s, request).kind \in {"allow", "tooLong"} /\ request' = request
        \/ Evaluate(s, request).kind = "redact" /\ s.id = "pii_redactor"
    BY StageMakes DEF s
  <2>2. Evaluate(s, request).kind = "tooLong" => s.onOversize # "block"
    BY StageMakes DEF s
  <2> QED  BY <1>5, <2>1, <2>2
<1>7. "\n" \in Wording  BY DEF Wording
<1>8. Strict(s)  OBVIOUS
<1> HIDE DEF s, R
<1>9. Harmless(request, s.roles)
  BY <1>3, <1>4, <1>6, <1>7, <1>8, AllowedIsHarmless DEF Harmless
<1> QED  BY <1>6, <1>9 DEF s

(* A stage that has run has stopped what is harmful, or failed open.        *)
LEMMA StageCalm ==
  ASSUME Routed, Screened, Calm, RunStage \/ StageFails
  PROVE  Calm'
<1> DEFINE R == Speakers(client.body)
<1>1. /\ version' = version /\ client' = client /\ pointers' = pointers
      /\ at = "screening" /\ stage <= Len(stages)
  BY DEF RunStage, StageFails
<1>2. stages' = stages /\ Replacements' = Replacements  BY <1>1, SettledStages
<1>3. ArePipeline(stages)  BY BuiltStages DEF Routed, stages
<1>4. /\ stage \in Nat \ {0} /\ stage \in DOMAIN stages /\ DOMAIN stages \subseteq Nat
      /\ request \in Turns(R, Wording) /\ Voiced /\ CalmSoFar
  BY <1>1, <1>3 DEF Screened, ArePipeline, Calm
<1>5. /\ failedOpen' \in Seq({"onnx_injection", "toxicity"})
      /\ \A x : Contains(failedOpen, x) => Contains(failedOpen', x)
      /\ StageFails /\ at' # "done" => Contains(failedOpen', stages[stage].id)
  <2> DEFINE Ids == {"onnx_injection", "toxicity"}
  <2>1. failedOpen \in Seq(Ids)  BY DEF Calm
  <2>2. CASE failedOpen' = failedOpen /\ ~(StageFails /\ at' # "done")  BY <2>1, <2>2
  <2>3. CASE StageFails /\ at' # "done"
    <3>1. stages[stage].id \in Ids /\ failedOpen' = Append(failedOpen, stages[stage].id)
      BY <2>3 DEF StageFails, BlockWith, Refuse
    <3> HIDE DEF Ids
    <3> DEFINE id == stages[stage].id
               old == failedOpen
               now == Append(old, id)
    <3>2. old \in Seq(Ids) /\ id \in Ids  BY <2>1, <3>1
    <3> HIDE DEF old, id
    <3>3. /\ now \in Seq(Ids) /\ Len(old) \in Nat /\ Len(now) = Len(old) + 1
          /\ now[Len(old) + 1] = id /\ \A i \in 1..Len(old) : now[i] = old[i]
      BY <3>2, AppendProperties, LenProperties
    <3> HIDE DEF now
    <3>4. Contains(now, id)
      <4>1. Len(old) + 1 \in 1..Len(now)  BY <3>3
      <4> QED  BY <3>3, <4>1 DEF Contains
    <3>5. \A x : Contains(old, x) => Contains(now, x)
      <4>1. \A i \in 1..Len(old) : i \in 1..Len(now)  BY <3>3
      <4> QED  BY <3>3, <4>1 DEF Contains
    <3> QED  BY <3>1, <3>3, <3>4, <3>5 DEF now, old, id, Ids
  <2>4. CASE StageFails /\ at' = "done"
    <3>1. failedOpen' = failedOpen  BY <1>1, <2>4 DEF StageFails, Continue
    <3> QED  BY <2>2, <2>4, <3>1
  <2>5. CASE RunStage /\ ~(StageFails /\ at' # "done")
    <3>1. failedOpen' = failedOpen  BY <2>5 DEF RunStage
    <3> QED  BY <2>2, <2>5, <3>1
  <2> QED  BY <2>3, <2>4, <2>5
<1>6. CASE at' = "done"  BY <1>5, <1>6 DEF Calm
<1>7. CASE at' # "done"
  <2>1. Continue
    <3>1. CASE StageFails  BY <1>7, <3>1 DEF StageFails, BlockWith, Refuse
    <3>2. CASE RunStage  BY <1>7, <3>2, StageMakes
    <3> QED  BY <3>1, <3>2
  <2>2. stage' = stage + 1  BY <2>1 DEF Continue
  <2>3. \/ request' = request
        \/ stages[stage].id = "pii_redactor" /\ request' = RedactRequest(stages[stage], request)
    <3>1. CASE StageFails  BY <1>7, <3>1 DEF StageFails, BlockWith, Refuse
    <3>2. CASE RunStage  BY <1>7, <3>2, StageMakes
    <3> QED  BY <3>1, <3>2
  <2>4. /\ DOMAIN request' = DOMAIN request
        /\ \A i \in DOMAIN request : request'[i].role = request[i].role
        /\ \A roles : Harmless(request, roles) => Harmless(request', roles)
    <3>1. CASE request' = request  BY <3>1
    <3>2. CASE stages[stage].id = "pii_redactor" /\ request' = RedactRequest(stages[stage], request)
      <4> DEFINE s == stages[stage]
      <4>1. Made(s) \subseteq Replacements  BY <1>4, <3>2 DEF Replacements
      <4>2. Made(s) \subseteq Wording
        <5> HIDE DEF s
        <5> QED  BY <4>1 DEF Wording
      <4>3. request' = RedactRequest(s, request)  BY <3>2
      <4>4. Ordered(s)  BY <1>3, <1>4, <3>2 DEF ArePipeline
      <4> HIDE DEF s, R
      <4> QED  BY <1>4, <4>1, <4>2, <4>3, <4>4, RedactedStaysHarmless
    <3> QED  BY <2>3, <3>1, <3>2
  <2>5. Voiced'  BY <1>1, <1>4, <2>4 DEF Voiced
  <2>6. CalmSoFar'
    <3> SUFFICES ASSUME NEW k \in DOMAIN stages, k < stage + 1, Strict(stages[k]),
                        ~Contains(failedOpen', stages[k].id)
                 PROVE  Harmless(request', stages[k].roles)
      BY <1>2, <2>2, HarmSettled DEF CalmSoFar
    <3>1. k < stage \/ k = stage  BY <1>4
    <3>2. CASE k < stage
      <4>1. ~Contains(failedOpen, stages[k].id)  BY <1>5
      <4> QED  BY <1>4, <2>4, <3>2, <4>1 DEF CalmSoFar
    <3>3. CASE k = stage
      <4>1. ~StageFails  BY <1>5, <1>7, <3>3
      <4>2. RunStage  BY <4>1
      <4> QED  BY <1>7, <3>3, <4>2, StrictGoesOn
    <3> QED  BY <3>1, <3>2, <3>3
  <2> QED  BY <1>5, <2>5, <2>6 DEF Calm
<1> QED  BY <1>6, <1>7

\* Every step keeps the places by role, and the harm out.
LEMMA CalmStep ==
  ASSUME Routed, Screened, Calm, Next
  PROVE  Calm'
<1>1. version' = version /\ client' = client  BY SettledRoute
<1>2. stages' = stages /\ Replacements' = Replacements  BY <1>1, SettledStages
<1>3. ASSUME failedOpen' = failedOpen, at' \notin {"screening", "writing"} PROVE Calm'
  BY <1>3 DEF Calm
<1>4. CASE Arrive
  <2>1. failedOpen' = failedOpen /\ at' \in {"done", "admitting"}
    BY <1>4 DEF Arrive, Refuse, runVars
  <2> QED  BY <1>3, <2>1
<1>5. CASE Admit
  <2>1. failedOpen' = failedOpen /\ at' \in {"done", "parsing", "forwarding"}
    BY <1>5 DEF Admit, Refuse, runVars
  <2> QED  BY <1>3, <2>1
<1>6. CASE Parse  BY <1>6, ParseCalm
<1>7. CASE RunStage \/ StageFails  BY <1>7, StageCalm
<1>8. CASE Decide
  <2>1. /\ stage' = stage /\ request' = request /\ pointers' = pointers
        /\ failedOpen' = failedOpen /\ at = "screening"
    BY <1>8 DEF Decide, runVars
  <2>2. CalmSoFar'
    <3> SUFFICES ASSUME NEW k \in DOMAIN stages, k < stage, Strict(stages[k]),
                        ~Contains(failedOpen, stages[k].id)
                 PROVE  Harmless(request, stages[k].roles)
      BY <1>2, <2>1, HarmSettled DEF CalmSoFar
    <3> QED  BY <2>1 DEF Calm, CalmSoFar
  <2>3. Voiced'  BY <1>1, <2>1 DEF Calm, Voiced
  <2> QED  BY <2>1, <2>2, <2>3 DEF Calm
<1>9. CASE Write
  <2>1. failedOpen' = failedOpen /\ at' \in {"done", "answered"}  BY <1>9 DEF Write, Refuse
  <2> QED  BY <1>3, <2>1
<1>10. CASE ForwardPassthrough
  <2>1. failedOpen' = failedOpen /\ at' = "answered"  BY <1>10 DEF ForwardPassthrough, runVars
  <2> QED  BY <1>3, <2>1
<1>11. CASE UpstreamFails
  <2>1. failedOpen' = failedOpen /\ at' = "done"  BY <1>11 DEF UpstreamFails, Refuse
  <2> QED  BY <1>3, <2>1
<1>12. CASE \E a \in Answers : Relay(a) \/ BreakOff(a)
  <2>1. failedOpen' = failedOpen /\ at' = "done"  BY <1>12 DEF Relay, BreakOff, Refuse
  <2> QED  BY <1>3, <2>1
<1> QED  BY <1>4, <1>5, <1>6, <1>7, <1>8, <1>9, <1>10, <1>11, <1>12 DEF Next

\* Always: what the strict stages so far have let through has no harm in it.
LEMMA CalmAlways == Spec => [](Routed /\ Screened /\ Calm)
<1>1. Init => Calm  BY EmptySeq DEF Init, Calm
<1>2. Routed /\ Screened /\ Calm /\ [Next]_vars => Calm'
  <2> SUFFICES ASSUME Routed, Screened, Calm, [Next]_vars PROVE Calm'  OBVIOUS
  <2>1. CASE Next  BY <2>1, CalmStep
  <2>2. CASE UNCHANGED vars
    <3>1. stages' = stages /\ Replacements' = Replacements
      BY <2>2, SettledStages DEF vars
    <3>2. CalmSoFar => CalmSoFar'
      <4> SUFFICES ASSUME CalmSoFar, NEW k \in DOMAIN stages, k < stage, Strict(stages[k]),
                          ~Contains(failedOpen, stages[k].id)
                   PROVE  Harmless(request, stages[k].roles)
        BY <2>2, <3>1, HarmSettled DEF CalmSoFar, vars
      <4> QED  BY DEF CalmSoFar
    <3>3. Voiced => Voiced'  BY <2>2 DEF vars, Voiced
    <3> QED  BY <2>2, <3>2, <3>3 DEF vars, Calm
  <2> QED  BY <2>1, <2>2
<1> QED  BY <1>1, <1>2, ScreenedAlways, PTL DEF Spec

\* A body that is sent has no harm in it that a strict stage looked for.
LEMMA SentCalmStep ==
  ASSUME Routed, Screened, Calm, NoHarmForwarded, Next
  PROVE  NoHarmForwarded'
<1>1. version' = version /\ client' = client /\ route' = route  BY SettledRoute
<1>2. stages' = stages /\ Replacements' = Replacements  BY <1>1, SettledStages
<1>3. CASE sent' = sent
  <2>1. CASE sent = <<>>  BY <1>3, <2>1 DEF NoHarmForwarded, Forwarded
  <2>2. CASE sent # <<>>
    <3>1. at \in {"answered", "done"}  BY <2>2 DEF Routed
    <3>2. failedOpen' = failedOpen
      BY <3>1 DEF Next, Arrive, Admit, Parse, RunStage, StageFails, Decide, Write,
                  ForwardPassthrough, UpstreamFails, Relay, BreakOff, runVars
    <3>3. \A text : HarmIn(text)' <=> HarmIn(text)  BY <1>2, HarmSettled
    <3> QED  BY <1>1, <1>2, <1>3, <3>2, <3>3 DEF NoHarmForwarded, Forwarded
  <2> QED  BY <2>1, <2>2
<1>4. CASE sent' # sent /\ ~Write
  <2>1. ForwardPassthrough
    BY <1>4 DEF Next, Arrive, Admit, Parse, RunStage, StageFails, Decide, UpstreamFails, Relay, BreakOff
  <2>2. route = "passthrough"  BY <2>1 DEF ForwardPassthrough, Routed
  <2> QED  BY <1>1, <2>2 DEF NoHarmForwarded, Forwarded
<1>5. CASE sent' # sent /\ Write
  <2>1. /\ at = "writing" /\ ~ApplyFails(client.body, pointers, request)
        /\ sent'.body = Apply(client.body, pointers, request) /\ failedOpen' = failedOpen
    BY <1>5 DEF Write
  <2>2. /\ request \in Turns(Speakers(client.body), Wording)
        /\ pointers \in Seq(Seq({<<>>} \cup DOMAIN client.body))
        /\ \A p \in ScannedPlaces(client) : \E i \in DOMAIN pointers : p \in ToSet(pointers[i])
        /\ stage > Len(stages) /\ stage \in Nat /\ Voiced /\ CalmSoFar
    BY <2>1 DEF Screened, Calm
  <2>3. ScannedOf[client] = ScannedPlaces(client)
    <3>1. client.method = "POST" /\ ScannedApi(client.path) # "none" /\ client \in Clients
      BY <2>1, ScannedRoute DEF Routed
    <3> QED  BY <3>1 DEF ScannedOf
  <2>4. \A k \in DOMAIN stages : k < stage
    <3>1. ArePipeline(stages)  BY BuiltStages DEF Routed, stages
    <3> QED  BY <2>2, <3>1 DEF ArePipeline
  <2>5. ASSUME NEW k \in DOMAIN stages, Strict(stages[k]), ~Contains(failedOpen, stages[k].id),
               NEW p \in ScannedOf[client], HarmIn(sent'.body[p])
        PROVE  RoleAt(client, p) \notin stages[k].roles
    <3>1. p \in DOMAIN client.body
      BY <2>3 DEF ScannedPlaces, Listing
    <3>a. PartAt(pointers, request, p, Apply(client.body, pointers, request)[p])
      BY <2>1, <2>2, <2>3, <3>1, AppliedIsAPart
    <3>2. PICK i \in DOMAIN request :
                 /\ p \in ToSet(pointers[i])
                 /\ \E q \in ToSet(request[i].parts) : ~q.image /\ sent'.body[p] = q.text
      BY <2>1, <3>a DEF PartAt
    <3>3. PICK q \in ToSet(request[i].parts) : ~q.image /\ sent'.body[p] = q.text
      BY <3>2
    <3>4. request[i].role = RoleAt(client, p)  BY <2>2, <3>2 DEF Voiced, Heard
    <3>5. Harmless(request, stages[k].roles)  BY <2>2, <2>4, <2>5 DEF CalmSoFar
    <3>6. HarmIn(q.text)  BY <2>5, <3>3
    <3> QED  BY <3>3, <3>4, <3>5, <3>6 DEF Harmless
  <2>6. \A text : HarmIn(text)' <=> HarmIn(text)  BY <1>2, HarmSettled
  <2>7. \A p : HarmIn(sent.body[p])' <=> HarmIn(sent'.body[p])  BY <1>2 DEF HarmIn
  <2> QED  BY <1>1, <1>2, <2>1, <2>5, <2>7 DEF NoHarmForwarded
<1> QED  BY <1>3, <1>4, <1>5

(* Whatever a request has, and however it is cut into texts and windows:    *)
(* with a model stage that blocks what is harmful and what is too long,     *)
(* nothing harmful that someone in its roles says goes upstream, unless the *)
(* record says that the stage failed open.                                 *)
THEOREM ExchangeNoHarmForwarded == Spec => []NoHarmForwarded
<1>1. Init => NoHarmForwarded  BY DEF Init, NoHarmForwarded, Forwarded
<1>2. Routed /\ Screened /\ Calm /\ NoHarmForwarded /\ [Next]_vars => NoHarmForwarded'
  <2> SUFFICES ASSUME Routed, Screened, Calm, NoHarmForwarded, [Next]_vars
               PROVE  NoHarmForwarded'
    OBVIOUS
  <2>1. CASE Next  BY <2>1, SentCalmStep
  <2>2. CASE UNCHANGED vars
    <3>1. stages' = stages /\ Replacements' = Replacements /\ route' = route
      BY <2>2, SettledStages DEF vars, route, config
    <3>2. \A p : HarmIn(sent.body[p])' <=> HarmIn(sent.body[p])  BY <2>2, <3>1 DEF HarmIn, vars
    <3> QED  BY <2>2, <3>1, <3>2 DEF vars, NoHarmForwarded, Forwarded
  <2> QED  BY <2>1, <2>2
<1> QED  BY <1>1, <1>2, CalmAlways, PTL DEF Spec

-----------------------------------------------------------------------------
(* What a redaction does to the texts, and to the places they came from.   *)
\* A redactor that was built has the entities and an action that are valid,
\* and all redactors of a pipeline are the same.
LEMMA BuiltRedactor ==
  ASSUME NEW v \in Usable, NEW k \in DOMAIN StagesOf[v], StagesOf[v][k].id = "pii_redactor"
  PROVE  /\ StagesOf[v][k] = PiiStage(Loaded(v), "pii_redactor")
         /\ ToSet(StagesOf[v][k].entities) \subseteq Entities
         /\ StagesOf[v][k].action \in {"block", "redact", "log_only"}
<1> DEFINE c == Loaded(v)
           ids == Only(c.pipeline.request_stages, StagesOn(c))
           built == [i \in DOMAIN ids |-> Stage(c, ids[i])]
<1>1. StagesOf[v] = built  BY DEF StagesOf, BuiltPipeline
<1>2. v \in Readable /\ Valid(c)  BY DEF Usable, LoadFails
<1>3. /\ c.pipeline.request_stages \in Seq(STRING)
      /\ c.stages.pii_redactor.action \in {"block", "redact", "log_only"}
  BY <1>2, SchemaAssumption
<1>4. PiiValid(c.stages.pii_redactor)  BY <1>2 DEF Valid
<1> HIDE DEF c
<1>5. ids \in Seq(STRING) /\ ToSet(ids) \subseteq StagesOn(c)  BY <1>3, OnlyType, OnlyHolds
<1> HIDE DEF ids
<1>6. k \in DOMAIN ids /\ built[k] = Stage(c, ids[k]) /\ StagesOf[v][k] = built[k]
  BY <1>1
<1> HIDE DEF built
<1>7. ids[k] \in StagesOn(c)  BY <1>5, <1>6 DEF ToSet
<1>8. ids[k] = "pii_redactor"
  <2>1. ids[k] \in RequestStages  BY <1>7 DEF StagesOn
  <2>2. Stage(c, ids[k]).id = ids[k]
    BY <2>1 DEF Stage, RegexStage, PiiStage, PolicyStage, OnnxStage, RequestStages
  <2> QED  BY <1>6, <2>2
<1>9. c.stages.pii_redactor.enabled  BY <1>7, <1>8 DEF StagesOn
<1>10. ToSet(c.stages.pii_redactor.entities) \subseteq Entities  BY <1>4, <1>9 DEF PiiValid
<1>11. StagesOf[v][k] = PiiStage(c, "pii_redactor")  BY <1>6, <1>8 DEF Stage
<1>12. /\ PiiStage(c, "pii_redactor").entities = c.stages.pii_redactor.entities
       /\ PiiStage(c, "pii_redactor").action = c.stages.pii_redactor.action
  BY DEF PiiStage, PiiRedactor
<1> QED  BY <1>3, <1>10, <1>11, <1>12 DEF c

\* All redactors of a pipeline are one, and none finds a line break.
LEMMA OneRedactor ==
  ASSUME Routed, NEW k \in DOMAIN stages, stages[k].id = "pii_redactor"
  PROVE  /\ \A j \in DOMAIN stages : stages[j].id = "pii_redactor" => stages[j] = stages[k]
         /\ stages[k].action \in {"block", "redact", "log_only"}
         /\ Ordered(stages[k])
         /\ Finds(stages[k], "\n") = {}
         /\ \A w : Matching(stages[k], w) \subseteq Entities
<1>1. version \in Usable /\ stages = StagesOf[version]  BY DEF Routed, stages
<1>2. \A j \in DOMAIN stages : stages[j].id = "pii_redactor" =>
        stages[j] = PiiStage(Loaded(version), "pii_redactor")
  BY <1>1, BuiltRedactor
<1>3. /\ ToSet(stages[k].entities) \subseteq Entities
      /\ stages[k].action \in {"block", "redact", "log_only"}
  BY <1>1, BuiltRedactor
<1>4. \A e \in Entities : "\n" \notin PiiWords[e]  BY ExchangeAssumption, PatternAssumption
<1>5. Ordered(stages[k])
  <2>1. ArePipeline(stages)  BY <1>1, BuiltStages
  <2> QED  BY <2>1 DEF ArePipeline
<1>6. \A w : Matching(stages[k], w) \subseteq ToSet(stages[k].entities)  BY DEF Matching
<1>7. Matching(stages[k], "\n") = {}  BY <1>3, <1>4 DEF Matching
<1>8. Finds(stages[k], "\n") = {}  BY <1>5, <1>7, WordRedacted
<1> QED  BY <1>2, <1>3, <1>5, <1>6, <1>8

\* The texts of a message that is redacted are its texts, redacted.
LEMMA TextsRedacted ==
  ASSUME NEW W, NEW pii, Ordered(pii), Made(pii) \subseteq W, NEW old, old.parts \in Seq(Piece(W)),
         NEW new, new.parts = RedactParts(pii, old.parts)
  PROVE  /\ Len(Texts(new)) = Len(Texts(old))
         /\ \A j \in DOMAIN Texts(old) : Texts(new)[j] = RedactText(pii, Texts(old)[j])
<1> DEFINE s == old.parts
           t == new.parts
           v == {p \in ToSet(s) : ~p.image}
           w == {p \in ToSet(t) : ~p.image}
           left == Only(s, v)
           right == Only(t, w)
           R == {z \in Piece(W) \X Piece(W) : z[2].text = RedactText(pii, z[1].text)}
<1>1. /\ Texts(old) = [i \in DOMAIN left |-> left[i].text]
      /\ Texts(new) = [i \in DOMAIN right |-> right[i].text]
  BY DEF Texts
<1>2. s \in Seq(Piece(W)) /\ t \in Seq(Piece(W))  BY RedactPartsHolds
<1>3. /\ Len(s) \in Nat /\ DOMAIN s = 1..Len(s) /\ Len(t) \in Nat /\ DOMAIN t = 1..Len(t)
      /\ \A n \in DOMAIN s : s[n] \in Piece(W) /\ s[n] \in ToSet(s)
      /\ \A n \in DOMAIN t : t[n] \in Piece(W) /\ t[n] \in ToSet(t)
  BY <1>2, LenProperties, ElementOfSeq DEF ToSet
<1>4. DOMAIN t = DOMAIN s /\ \A n \in DOMAIN s : t[n] = [s[n] EXCEPT !.text = RedactText(pii, s[n].text)]
  BY DEF RedactParts
<1>5. Len(t) = Len(s)
  <2> HIDE DEF s, t
  <2> QED  BY <1>2, <1>4, SameLength
<1> HIDE DEF s, t
<1>6. ASSUME NEW n \in DOMAIN s
      PROVE  (s[n] \in v <=> t[n] \in w) /\ (s[n] \in v => <<s[n], t[n]>> \in R)
  <2>1. t[n].image = s[n].image /\ t[n].text = RedactText(pii, s[n].text)
    BY <1>3, <1>4 DEF Piece
  <2> QED  BY <1>3, <1>4, <2>1
<1>7. \A z \in R : z[2].text = RedactText(pii, z[1].text)  OBVIOUS
<1> HIDE DEF v, w, R
<1>8. /\ Len(left) = Len(right)
      /\ \A j \in DOMAIN left : <<left[j], right[j]>> \in R
  BY <1>2, <1>5, <1>6, OnlyBeside
<1>9. left \in Seq(Piece(W)) /\ right \in Seq(Piece(W))  BY <1>2, OnlyType
<1> HIDE DEF left, right
<1>10. DOMAIN left = 1..Len(left) /\ DOMAIN right = 1..Len(left) /\ Len(left) \in Nat
  BY <1>8, <1>9, LenProperties
<1>11. \A j \in DOMAIN left : right[j].text = RedactText(pii, left[j].text)
  BY <1>7, <1>8
<1>12. Texts(old) \in Seq(Seq(W)) /\ Texts(new) \in Seq(Seq(W))
  <2>1. new.parts \in Seq(Piece(W))  BY RedactPartsHolds
  <2> QED  BY <2>1, TextsHold
<1>13. DOMAIN Texts(old) = 1..Len(left) /\ DOMAIN Texts(new) = 1..Len(left)  BY <1>1, <1>10
<1>14. Len(Texts(new)) = Len(Texts(old))  BY <1>12, <1>13, SameLength
<1> QED  BY <1>1, <1>10, <1>11, <1>14

\* A message as it came: its texts are what the client has at the places.
Verbatim(body, places, message) ==
  \/ places = <<>> /\ ToSet(Texts(message)) \subseteq {<<>>}
  \/ /\ Len(Texts(message)) = Len(places)
     /\ \A j \in DOMAIN places : Texts(message)[j] = body[places[j]]

\* So it is when it has been parsed.
LEMMA FinishVerbatim ==
  ASSUME NEW W, NEW body, \A p \in DOMAIN body : body[p] \in Seq(W), NEW P,
         NEW m \in Message(body), m.segments \in Seq(SegmentAt(body, P))
  PROVE  Verbatim(body, Pointers(m), Finish(m))
<1> DEFINE s == m.segments
           t == Finish(m).parts
           v == {x \in ToSet(s) : ~x.image}
           w == {x \in ToSet(t) : ~x.image}
           left == Only(s, v)
           right == Only(t, w)
           R == {z \in SegmentAt(body, P) \X Piece(W) : ~z[1].image /\ z[2].text = z[1].text}
<1>1. /\ Pointers(m) = [i \in DOMAIN left |-> left[i].at]
      /\ Texts(Finish(m)) = [i \in DOMAIN right |-> right[i].text]
  BY DEF Pointers, Texts
<1>2. t \in Seq(Piece(W)) /\ s \in Seq(SegmentAt(body, P))
  <2>1. Finish(m) \in [role : Speakers(body), parts : Seq(Piece(W))]  BY FinishType
  <2> QED  BY <2>1
<1>3. CASE s = <<>>
  <2>1. Pointers(m) = <<>>
    <3>1. left = <<>>  BY <1>3, OnlyEmpty
    <3> HIDE DEF left
    <3> QED  BY <1>1, <3>1
  <2>2. ASSUME NEW text \in ToSet(Texts(Finish(m))) PROVE text = <<>>
    <3>1. PICK j \in DOMAIN Texts(Finish(m)) : text = Texts(Finish(m))[j]  BY DEF ToSet
    <3>2. PICK q \in ToSet(t) : text = q.text  BY <1>2, <3>1, TextsArePieces
    <3>3. t = <<[image |-> FALSE, text |-> <<>>]>>  BY <1>3 DEF Finish
    <3>4. q = [image |-> FALSE, text |-> <<>>]  BY <3>2, <3>3 DEF ToSet
    <3> QED  BY <3>2, <3>4
  <2> QED  BY <2>1, <2>2 DEF Verbatim
<1>4. CASE s # <<>>
  <2>1. t = [i \in DOMAIN s |-> [image |-> s[i].image, text |-> s[i].text]]
    BY <1>4 DEF Finish
  <2> HIDE DEF s, t
  <2>2. /\ Len(s) \in Nat /\ DOMAIN s = 1..Len(s) /\ Len(t) \in Nat /\ DOMAIN t = 1..Len(t)
        /\ \A n \in DOMAIN s : s[n] \in SegmentAt(body, P) /\ s[n] \in ToSet(s)
        /\ \A n \in DOMAIN t : t[n] \in Piece(W) /\ t[n] \in ToSet(t)
    BY <1>2, LenProperties, ElementOfSeq DEF ToSet
  <2>3. Len(t) = Len(s) /\ DOMAIN t = DOMAIN s
    <3>1. DOMAIN t = DOMAIN s  BY <2>1
    <3> QED  BY <1>2, <3>1, SameLength
  <2>4. ASSUME NEW n \in DOMAIN s
        PROVE  (s[n] \in v <=> t[n] \in w) /\ (s[n] \in v => <<s[n], t[n]>> \in R)
    <3>1. t[n].image = s[n].image /\ t[n].text = s[n].text  BY <2>1
    <3> QED  BY <2>2, <2>3, <3>1
  <2>5. \A z \in R : z[1] \in SegmentAt(body, P) /\ ~z[1].image /\ z[2].text = z[1].text
    OBVIOUS
  <2> HIDE DEF v, w, R
  <2>6. /\ Len(left) = Len(right)
        /\ \A j \in DOMAIN left : <<left[j], right[j]>> \in R
    BY <1>2, <2>3, <2>4, OnlyBeside
  <2>7. left \in Seq(SegmentAt(body, P)) /\ right \in Seq(Piece(W))  BY <1>2, OnlyType
  <2> HIDE DEF left, right
  <2>8. DOMAIN left = 1..Len(left) /\ DOMAIN right = 1..Len(left) /\ Len(left) \in Nat
    BY <2>6, <2>7, LenProperties
  <2>9. ASSUME NEW j \in DOMAIN left PROVE right[j].text = body[left[j].at]
    <3>1. <<left[j], right[j]>> \in R  BY <2>6
    <3>2. left[j] \in SegmentAt(body, P) /\ ~left[j].image /\ right[j].text = left[j].text
      BY <2>5, <3>1
    <3> QED  BY <3>2 DEF SegmentAt
  <2>10. Len(Pointers(m)) = Len(left) /\ Len(Texts(Finish(m))) = Len(left)
    <3> DEFINE pointersOf == [i \in 1..Len(left) |-> left[i].at]
               textsOf == [i \in 1..Len(left) |-> right[i].text]
    <3>1. Pointers(m) = pointersOf /\ Texts(Finish(m)) = textsOf  BY <1>1, <2>8
    <3>2. /\ pointersOf \in [1..Len(left) -> {left[i].at : i \in 1..Len(left)}]
          /\ textsOf \in [1..Len(left) -> {right[i].text : i \in 1..Len(left)}]
      OBVIOUS
    <3> HIDE DEF pointersOf, textsOf
    <3> QED  BY <2>8, <3>1, <3>2, FunctionIsSequence
  <2>11. \A j \in DOMAIN Pointers(m) : Texts(Finish(m))[j] = body[Pointers(m)[j]]
    BY <1>1, <2>8, <2>9
  <2> QED  BY <2>10, <2>11 DEF Verbatim
<1> QED  BY <1>3, <1>4

\* What a text is after redactions, word by word.
Altered(old, new) == Len(new) = Len(old) /\ \A n \in DOMAIN old : Reworded(old[n], new[n])

(* A message lines up with the places it came from: it has none and says    *)
(* nothing, or each text is what the client has at its place, reworded.     *)
Lined(body, places, message) ==
  \/ places = <<>> /\ ToSet(Texts(message)) \subseteq {<<>>}
  \/ /\ Len(Texts(message)) = Len(places)
     /\ \A j \in DOMAIN places : Altered(body[places[j]], Texts(message)[j])

\* It does as it came.
LEMMA VerbatimLined ==
  ASSUME NEW body, NEW places, NEW message, Verbatim(body, places, message)
  PROVE  Lined(body, places, message)
<1>1. \A text : Altered(text, text)  BY DEF Altered, Reworded
<1> QED  BY <1>1 DEF Verbatim, Lined

\* What was reworded is, when it is redacted once more.
LEMMA RewordedAgain ==
  ASSUME Routed, NEW k \in Redacting, NEW old, NEW mid, Reworded(old, mid)
  PROVE  Reworded(old, Final(stages[k], mid))
<1> DEFINE pii == stages[k]
           new == Final(pii, mid)
<1>1. k \in DOMAIN stages /\ pii.id = "pii_redactor"  BY DEF Redacting
<1>2. \A j \in Redacting : stages[j] = pii  BY <1>1, OneRedactor DEF Redacting
<1>3. Ordered(pii)  BY <1>1, OneRedactor
<1> HIDE DEF pii, new
<1>4. Redacted(pii, mid, new) /\ (Matching(pii, mid) # {} => new \in Made(pii))
  BY <1>3, WordRedacted DEF new
<1>5. Reworded(old, mid) => mid = old \/ Redacted(pii, old, mid)  BY <1>2 DEF Reworded
<1>6. Redacted(pii, old, new) => Reworded(old, new)  BY DEF Reworded, pii
<1>7. CASE Matching(pii, mid) = {}
  <2>1. new = mid  BY <1>4, <1>7 DEF Redacted
  <2> QED  BY <2>1 DEF new, pii
<1>8. CASE mid = old  BY <1>4, <1>6, <1>8 DEF new, pii
<1>9. CASE mid # old /\ Matching(pii, mid) # {}
  <2>1. Redacted(pii, old, mid) /\ new \in Made(pii)  BY <1>4, <1>5, <1>9
  <2>2. Matching(pii, old) # {}  BY <1>9, <2>1 DEF Redacted
  <2>3. PICK e \in Matching(pii, old) :
             LET word == Replaced(pii, e, old)
             IN  mid = word \/ (mid \in Made(pii) /\ Matching(pii, word) # {})
    BY <2>1, <2>2 DEF Redacted
  <2>4. Matching(pii, Replaced(pii, e, old)) # {}  BY <1>9, <2>3
  <2>5. Redacted(pii, old, new)  BY <2>1, <2>2, <2>3, <2>4 DEF Redacted
  <2> QED  BY <1>6, <2>5 DEF new, pii
<1> QED  BY <1>7, <1>8, <1>9

\* The same of a text.
LEMMA AlteredAgain ==
  ASSUME Routed, NEW k \in Redacting, NEW W, Made(stages[k]) \subseteq W,
         NEW old \in Seq(W), NEW mid \in Seq(W), Altered(old, mid)
  PROVE  Altered(old, RedactText(stages[k], mid))
<1> DEFINE pii == stages[k]
           new == RedactText(pii, mid)
<1>1. Ordered(pii)  BY OneRedactor DEF Redacting
<1>2. new \in Seq(W)  BY <1>1, RedactTextHolds
<1>3. DOMAIN new = DOMAIN mid /\ \A n \in DOMAIN mid : new[n] = Final(pii, mid[n])
  BY <1>1, RedactTextAt DEF RedactText
<1> HIDE DEF new
<1>4. Len(new) = Len(mid)  BY <1>2, <1>3, SameLength
<1>5. DOMAIN old = DOMAIN mid  BY LenProperties DEF Altered
<1>6. ASSUME NEW n \in DOMAIN old PROVE Reworded(old[n], new[n])
  <2>1. Reworded(old[n], mid[n])  BY DEF Altered
  <2>2. Reworded(old[n], Final(pii, mid[n]))  BY <2>1, RewordedAgain
  <2> QED  BY <1>3, <1>5, <2>2
<1> QED  BY <1>4, <1>6 DEF Altered, new

\* And of a message.
LEMMA LinedAgain ==
  ASSUME Routed, NEW k \in Redacting, NEW W, Made(stages[k]) \subseteq W,
         NEW body, NEW places, \A j \in DOMAIN places : body[places[j]] \in Seq(W),
         Len(places) \in Nat, DOMAIN places = 1..Len(places),
         NEW old, old.parts \in Seq(Piece(W)), Lined(body, places, old),
         NEW new, new.parts = RedactParts(stages[k], old.parts)
  PROVE  Lined(body, places, new)
<1> DEFINE pii == stages[k]
<1>0. Ordered(pii)  BY OneRedactor DEF Redacting
<1>1. /\ Len(Texts(new)) = Len(Texts(old))
      /\ \A j \in DOMAIN Texts(old) : Texts(new)[j] = RedactText(pii, Texts(old)[j])
  BY <1>0, TextsRedacted
<1>2. Texts(old) \in Seq(Seq(W)) /\ Texts(new) \in Seq(Seq(W))
  <2>1. new.parts \in Seq(Piece(W))  BY <1>0, RedactPartsHolds
  <2> QED  BY <2>1, TextsHold
<1>3. /\ DOMAIN Texts(new) = DOMAIN Texts(old) /\ DOMAIN Texts(old) = 1..Len(Texts(old))
      /\ \A j \in DOMAIN Texts(old) : Texts(old)[j] \in Seq(W)
  BY <1>1, <1>2, LenProperties, ElementOfSeq
<1>4. CASE places = <<>> /\ ToSet(Texts(old)) \subseteq {<<>>}
  <2>1. RedactText(pii, <<>>) = <<>>  BY DEF RedactText
  <2>2. \A j \in DOMAIN Texts(old) : Texts(old)[j] = <<>>  BY <1>4 DEF ToSet
  <2>3. \A j \in DOMAIN Texts(new) : Texts(new)[j] = <<>>  BY <1>1, <1>3, <2>1, <2>2
  <2> QED  BY <1>4, <2>3 DEF Lined, ToSet
<1>5. CASE /\ Len(Texts(old)) = Len(places)
           /\ \A j \in DOMAIN places : Altered(body[places[j]], Texts(old)[j])
  <2>1. ASSUME NEW j \in DOMAIN places PROVE Altered(body[places[j]], Texts(new)[j])
    <3>1. j \in DOMAIN Texts(old)  BY <1>3, <1>5
    <3>2. Altered(body[places[j]], RedactText(pii, Texts(old)[j]))
      BY <1>3, <1>5, <3>1, AlteredAgain
    <3> QED  BY <1>1, <3>1, <3>2
  <2> QED  BY <1>1, <1>5, <2>1 DEF Lined
<1> QED  BY <1>4, <1>5 DEF Lined

\* Each message lines up with its places.
Aligned == \A i \in DOMAIN request : Lined(client.body, pointers[i], request[i])

\* What the places and the messages are while a request is worked on.
LEMMA PlacesInBody ==
  ASSUME Routed, Screened, Calm, at \in {"screening", "writing"}
  PROVE  /\ Len(pointers) = Len(request) /\ DOMAIN pointers = DOMAIN request
         /\ \A i \in DOMAIN request :
              /\ ToSet(pointers[i]) \subseteq ScannedPlaces(client)
              /\ Len(pointers[i]) \in Nat /\ DOMAIN pointers[i] = 1..Len(pointers[i])
              /\ request[i].parts \in Seq(Piece(Wording))
         /\ ScannedPlaces(client) \subseteq DOMAIN client.body
<1> DEFINE Turn == [role : Speakers(client.body), parts : Seq(Piece(Wording))]
           Place == {<<>>} \cup DOMAIN client.body
<1>1. request \in Seq(Turn) /\ pointers \in Seq(Seq(Place)) /\ Voiced
  BY DEF Screened, Calm, Turns
<1>2. \A m \in Turn : m.parts \in Seq(Piece(Wording))  OBVIOUS
<1> HIDE DEF Turn, Place
<1>3. DOMAIN pointers = DOMAIN request  BY <1>1 DEF Voiced
<1>4. Len(pointers) = Len(request)  BY <1>1, <1>3, SameLength
<1>5. ScannedPlaces(client) = Listing(client.body, TableOf(client))
  BY DEF ScannedPlaces, TableOf
<1>6. ASSUME NEW i \in DOMAIN request
      PROVE  /\ ToSet(pointers[i]) \subseteq ScannedPlaces(client)
             /\ Len(pointers[i]) \in Nat /\ DOMAIN pointers[i] = 1..Len(pointers[i])
             /\ request[i].parts \in Seq(Piece(Wording))
  <2>1. pointers[i] \in Seq(Place) /\ request[i] \in Turn
    BY <1>1, <1>3, LenProperties, ElementOfSeq
  <2>2. ToSet(pointers[i]) \subseteq Listing(client.body, TableOf(client))
    BY <1>1 DEF Voiced, Heard
  <2> QED  BY <1>2, <1>5, <2>1, <2>2, LenProperties
<1> QED  BY <1>3, <1>4, <1>6 DEF ScannedPlaces, Listing

(* The write-back never fails.                                             *)
LEMMA NeverFails ==
  ASSUME Routed, Screened, Calm, Aligned, at \in {"screening", "writing"}
  PROVE  ~ApplyFails(client.body, pointers, request)
<1>1. /\ Len(pointers) = Len(request)
      /\ \A i \in DOMAIN request : ToSet(pointers[i]) \subseteq DOMAIN client.body
  BY PlacesInBody
<1>2. \A i \in DOMAIN request :
        \/ pointers[i] = <<>> /\ ToSet(Texts(request[i])) \subseteq {<<>>}
        \/ Len(Texts(request[i])) = Len(pointers[i])
  BY DEF Aligned, Lined
<1> QED  BY <1>1, <1>2 DEF ApplyFails

(* What is written is the client's body, reworded where it was scanned.    *)
LEMMA AppliedIsAltered ==
  ASSUME Routed, Screened, Calm, Aligned, at \in {"screening", "writing"},
         NEW p \in DOMAIN client.body
  PROVE  LET now == Apply(client.body, pointers, request)[p]
         IN  \/ now = client.body[p]
             \/ p \in ScannedPlaces(client) /\ Altered(client.body[p], now)
<1> DEFINE from == {w \in UNION {{i} \X DOMAIN pointers[i] : i \in DOMAIN pointers} :
                      pointers[w[1]][w[2]] = p}
           w == CHOOSE x \in from : TRUE
           now == Apply(client.body, pointers, request)[p]
<1>1. now = IF from = {} THEN client.body[p] ELSE Texts(request[w[1]])[w[2]]
  BY DEF Apply
<1>2. CASE from = {}  BY <1>1, <1>2
<1>3. CASE from # {}
  <2>1. w \in from  BY <1>3
  <2>2. w[1] \in DOMAIN pointers /\ w[2] \in DOMAIN pointers[w[1]] /\ pointers[w[1]][w[2]] = p
    BY <2>1
  <2>3. now = Texts(request[w[1]])[w[2]]  BY <1>1, <1>3
  <2> HIDE DEF from, w, now
  <2>4. w[1] \in DOMAIN request /\ p \in ScannedPlaces(client)
    <3>1. w[1] \in DOMAIN request /\ ToSet(pointers[w[1]]) \subseteq ScannedPlaces(client)
      BY <2>2, PlacesInBody
    <3> QED  BY <2>2, <3>1 DEF ToSet
  <2>5. pointers[w[1]] # <<>>  BY <2>2
  <2>6. Altered(client.body[p], now)  BY <2>2, <2>3, <2>4, <2>5 DEF Aligned, Lined
  <2> QED  BY <2>4, <2>6 DEF now
<1> QED  BY <1>2, <1>3

-----------------------------------------------------------------------------
(* The words that are named: what the redactor finds in what is said.      *)
\* What the client has in the places that are scanned.
Said == UNION {ToSet(client.body[p]) : p \in ScannedPlaces(client)}

\* A message as it came says what the client has at its places.
LEMMA VerbatimSays ==
  ASSUME NEW W, NEW body, NEW places, Len(places) \in Nat, DOMAIN places = 1..Len(places),
         NEW message, message.parts \in Seq(Piece(W)), Verbatim(body, places, message)
  PROVE  SpokenWords(message.parts) = UNION {ToSet(body[places[j]]) : j \in DOMAIN places}
<1> DEFINE texts == Texts(message)
           words == SpokenWords(message.parts)
<1>1. /\ texts \in Seq(Seq(W))
      /\ \A i \in DOMAIN texts : ToSet(texts[i]) \subseteq words
      /\ \A w \in words : \E i \in DOMAIN texts : w \in ToSet(texts[i])
  BY TextsHold
<1>2. /\ Len(texts) \in Nat /\ DOMAIN texts = 1..Len(texts)  BY <1>1, LenProperties
<1>3. CASE places = <<>> /\ ToSet(texts) \subseteq {<<>>}
  <2>1. ASSUME NEW w \in words PROVE FALSE
    <3>1. PICK i \in DOMAIN texts : w \in ToSet(texts[i])  BY <1>1
    <3>2. texts[i] = <<>>  BY <1>3 DEF ToSet
    <3> QED  BY <3>1, <3>2 DEF ToSet
  <2>2. DOMAIN places = {}  BY <1>3
  <2> QED  BY <2>1, <2>2
<1>4. CASE Len(texts) = Len(places) /\ \A j \in DOMAIN places : texts[j] = body[places[j]]
  BY <1>1, <1>2, <1>4
<1> QED  BY <1>3, <1>4 DEF Verbatim

\* What a redactor that finds no line break finds in the text of all messages.
LEMMA EntitiesSaid ==
  ASSUME NEW R, NEW W, "\n" \in W, NEW messages \in Turns(R, W),
         NEW pii, Finds(pii, "\n") = {}
  PROVE  EntitiesIn(pii, messages) = UNION {Finds(pii, w) : w \in Spoken(messages)}
<1> DEFINE all == AllText(messages)
<1>1. /\ Spoken(messages) \subseteq ToSet(all)
      /\ ToSet(all) \subseteq Spoken(messages) \cup {"\n"}
  BY AllTextHolds
<1>2. EntitiesIn(pii, messages) = UNION {Finds(pii, all[i]) : i \in DOMAIN all}
  BY DEF EntitiesIn
<1> HIDE DEF all
<1>3. UNION {Finds(pii, all[i]) : i \in DOMAIN all} = UNION {Finds(pii, w) : w \in ToSet(all)}
  BY DEF ToSet
<1> QED  BY <1>1, <1>2, <1>3

\* The redactors of a pipeline are one, so what is named is what it matches first.
LEMMA NamedIs ==
  ASSUME Routed, NEW k \in Redacting
  PROVE  /\ \A words, e : e \in Named(words) <=> \E w \in words : e \in Foremost(stages[k], w)
         /\ \A e : e \in Further <=> \E w \in Replacements : e \in Matching(stages[k], w)
<1>1. k \in DOMAIN stages /\ stages[k].id = "pii_redactor"  BY DEF Redacting
<1>2. \A j \in Redacting : stages[j] = stages[k]  BY <1>1, OneRedactor DEF Redacting
<1>3. \A words, e : e \in Named(words) <=> \E w \in words : e \in Foremost(stages[k], w)
  BY <1>2 DEF Named
<1>4. \A e : e \in Further <=> \E w \in Replacements : e \in Matching(stages[k], w)
  BY <1>2 DEF Further
<1> QED  BY <1>3, <1>4

\* Without a redactor that redacts nothing is named; what is, is an entity.
LEMMA NamedEntities ==
  ASSUME Routed
  PROVE  /\ Redacting = {} => \A words : Named(words) = {}
         /\ \A words : "redacted" \notin Named(words)
         /\ "redacted" \notin Further
         /\ Named(Replacements) \subseteq Further
<1>1. Redacting = {} => \A words : Named(words) = {}  BY DEF Named
<1>2. "redacted" \notin Entities  BY DEF Entities, ReplacementDefaults
<1>3. \A k \in Redacting : \A w : Matching(stages[k], w) \subseteq Entities
  BY OneRedactor DEF Redacting
<1>4. \A k \in Redacting : \A w : Foremost(stages[k], w) \subseteq Matching(stages[k], w)
  BY DEF Foremost
<1>5. \A words : "redacted" \notin Named(words)  BY <1>2, <1>3, <1>4 DEF Named
<1>6. "redacted" \notin Further  BY <1>2, <1>3 DEF Further
<1>7. Named(Replacements) \subseteq Further  BY <1>4 DEF Named, Further
<1> QED  BY <1>1, <1>5, <1>6, <1>7

(* Until the first redaction the request says what the client has; what has *)
(* been found by then is what is named in that, and perhaps what matches    *)
(* what the redactor made of it.                                           *)
FoundSoFar ==
  /\ "redacted" \notin found => found = {} /\ Spoken(request) = Said
  /\ Spoken(request) \subseteq Said \cup Replacements
  /\ "redacted" \in found \/ (\E k \in Redacting : k < stage) => Named(Said) \subseteq found
  /\ "redacted" \in found => Named(Said) # {}
  /\ found \subseteq {"redacted"} \cup Named(Said) \cup Further

\* At the end: nothing, or everything that is named.
FoundAll ==
  /\ found = {} \/ "redacted" \in found
  /\ "redacted" \in found <=> Named(Said) # {}
  /\ Named(Said) \subseteq found
  /\ found \subseteq {"redacted"} \cup Named(Said) \cup Further

\* There is one record, of what has been found, when the request is done.
Recorded ==
  /\ at \in {"routing", "admitting", "parsing"} => found = {}
  /\ at # "done" => audit = <<>>
  /\ at = "answered" => sent # <<>>
  /\ at \in {"screening", "writing"} => Aligned /\ FoundSoFar
  /\ at = "answered" /\ route = "scanned" => FoundAll

\* What the settings say is settled while the file is.
LEMMA NamedSettled ==
  ASSUME version' = version, client' = client
  PROVE  /\ Redacting' = Redacting /\ Replacements' = Replacements /\ Said' = Said
         /\ stages' = stages /\ Further' = Further
         /\ \A words : Named(words)' = Named(words)
         /\ \A old, new : Reworded(old, new)' <=> Reworded(old, new)
         /\ \A body, places, message : Lined(body, places, message)' <=> Lined(body, places, message)
<1>1. stages' = stages /\ Replacements' = Replacements  BY SettledStages
<1>2. Redacting' = Redacting  BY <1>1 DEF Redacting
<1>3. Said' = Said  BY DEF Said
<1>4. \A words : Named(words)' = Named(words)  BY <1>1, <1>2 DEF Named, Foremost, Matching
<1>5. \A old, new : Reworded(old, new)' <=> Reworded(old, new)
  BY <1>1, <1>2 DEF Reworded, Redacted, Matching, Made
<1>6. \A old, new : Altered(old, new)' <=> Altered(old, new)  BY <1>5 DEF Altered
<1>7. \A body, places, message : Lined(body, places, message)' <=> Lined(body, places, message)
  BY <1>6 DEF Lined
<1>8. Further' = Further  BY <1>1, <1>2 DEF Further, Matching
<1> QED  BY <1>1, <1>2, <1>3, <1>4, <1>5, <1>7, <1>8

(* Parsing leaves nothing out of what is said, and adds nothing.           *)
LEMMA ParseRecorded ==
  ASSUME Routed, Screened, Calm, Recorded, Parse
  PROVE  Recorded'
<1>1. /\ client' = client /\ stage' = stage /\ stage = 1 /\ version' = version
      /\ at = "parsing" /\ found' = found /\ found = {} /\ audit' = audit /\ audit = <<>>
  BY DEF Parse, Screened, Recorded
<1>2. CASE at' = "done"  BY <1>2 DEF Recorded
<1>3. CASE at' # "done"
  <2> DEFINE extracted == ParseApiBody(client.body, api)
             Place == {<<>>} \cup DOMAIN client.body
  <2>1. /\ request'  = [i \in DOMAIN extracted |-> Finish(extracted[i])]
        /\ pointers' = [i \in DOMAIN extracted |-> Pointers(extracted[i])]
        /\ at' = "screening"
    BY <1>3 DEF Parse, Refuse
  <2>2. /\ IsDocument(client.body) /\ ScannedApi(client.path) # "none"
        /\ \A p \in DOMAIN client.body : client.body[p] \in Seq(Wording)
    BY <1>1, BodyWording, ScannedRoute DEF Routed
  <2>3. extracted \in Seq(Heeded(client, TableOf(client)))  BY <2>2, ParseHeeds DEF api
  <2>4. Screened' /\ Calm'  BY ParseScreened, ParseCalm
  <2>5. /\ \A p \in ScannedPlaces(client) : \E i \in DOMAIN pointers' : p \in ToSet(pointers'[i])
        /\ \A i \in DOMAIN request' :
             ToSet(pointers'[i]) \subseteq Heard(client, TableOf(client), request'[i].role)
    BY <1>1, <2>1, <2>4 DEF Screened, Calm, Voiced
  <2>6. DOMAIN request' = DOMAIN extracted /\ DOMAIN pointers' = DOMAIN extracted  BY <2>1
  <2>7. ScannedPlaces(client) = Listing(client.body, TableOf(client))
    BY DEF ScannedPlaces, TableOf
  <2> HIDE DEF extracted, Place
  <2>8. \A i \in DOMAIN extracted : extracted[i] \in Heeded(client, TableOf(client))
    BY <2>3, LenProperties, ElementOfSeq
  <2>9. ASSUME NEW i \in DOMAIN extracted
        PROVE  /\ Verbatim(client.body, pointers'[i], request'[i])
               /\ request'[i].parts \in Seq(Piece(Wording))
               /\ Len(pointers'[i]) \in Nat /\ DOMAIN pointers'[i] = 1..Len(pointers'[i])
    <3> DEFINE m == extracted[i]
               P == Heard(client, TableOf(client), m.role)
    <3>1. m \in Message(client.body) /\ m.segments \in Seq(SegmentAt(client.body, P))
      BY <2>8 DEF Heeded
    <3>2. pointers'[i] = Pointers(m) /\ request'[i] = Finish(m)  BY <2>1
    <3> HIDE DEF m, P
    <3>3. Verbatim(client.body, Pointers(m), Finish(m))  BY <2>2, <3>1, FinishVerbatim
    <3>4. Finish(m).parts \in Seq(Piece(Wording))
      <4>1. Finish(m) \in [role : Speakers(client.body), parts : Seq(Piece(Wording))]
        BY <2>2, <3>1, FinishType
      <4> QED  BY <4>1
    <3>5. Pointers(m) \in Seq(Place)  BY <3>1, PointersHold DEF Place
    <3> QED  BY <3>2, <3>3, <3>4, <3>5, LenProperties
  <2>10. Aligned'
    <3>1. \A i \in DOMAIN extracted : Lined(client.body, pointers'[i], request'[i])
      BY <2>9, VerbatimLined
    <3> QED  BY <1>1, <2>6, <3>1, NamedSettled DEF Aligned
  <2>11. Spoken(request') = Said
    <3>1. \A i \in DOMAIN extracted :
            SpokenWords(request'[i].parts)
              = UNION {ToSet(client.body[pointers'[i][j]]) : j \in DOMAIN pointers'[i]}
      BY <2>9, VerbatimSays
    <3>2. ASSUME NEW w \in Spoken(request') PROVE w \in Said
      <4>1. PICK i \in DOMAIN extracted : w \in SpokenWords(request'[i].parts)
        BY <2>6 DEF Spoken
      <4>2. PICK j \in DOMAIN pointers'[i] : w \in ToSet(client.body[pointers'[i][j]])
        BY <3>1, <4>1
      <4>3. pointers'[i][j] \in ScannedPlaces(client)  BY <2>5, <2>6, <2>7 DEF Heard, ToSet
      <4> QED  BY <4>2, <4>3 DEF Said
    <3>3. ASSUME NEW w \in Said PROVE w \in Spoken(request')
      <4>1. PICK p \in ScannedPlaces(client) : w \in ToSet(client.body[p])  BY DEF Said
      <4>2. PICK i \in DOMAIN extracted : p \in ToSet(pointers'[i])  BY <2>5, <2>6
      <4>3. PICK j \in DOMAIN pointers'[i] : pointers'[i][j] = p  BY <4>2 DEF ToSet
      <4>4. w \in SpokenWords(request'[i].parts)  BY <3>1, <4>1, <4>3
      <4> QED  BY <2>6, <4>4 DEF Spoken
    <3> QED  BY <3>2, <3>3
  <2>12. FoundSoFar'
    <3>1. /\ Redacting' = Redacting /\ Replacements' = Replacements
          /\ Further' = Further /\ Said' = Said
          /\ \A words : Named(words)' = Named(words)
      BY <1>1, NamedSettled
    <3>2. ~\E k \in Redacting : k < stage
      <4>1. DOMAIN stages = 1..Len(stages) /\ Len(stages) \in Nat
        BY BuiltStages DEF Routed, stages, ArePipeline
      <4> QED  BY <1>1, <4>1 DEF Redacting
    <3>3. Spoken(request)' = Spoken(request')  BY DEF Spoken
    <3> QED  BY <1>1, <2>11, <3>1, <3>2, <3>3 DEF FoundSoFar
  <2> QED  BY <1>1, <2>1, <2>10, <2>12 DEF Recorded
<1> QED  BY <1>2, <1>3

\* What the redactor says of a request, by what is named in it.
LEMMA RedactorSays ==
  ASSUME Routed, Screened, at = "screening", stage \in DOMAIN stages,
         stages[stage].id = "pii_redactor"
  PROVE  LET said == Evaluate(stages[stage], request)
             named == Named(Spoken(request))
         IN  /\ said.kind = "redact" =>
                   /\ stage \in Redacting /\ named # {}
                   /\ named \subseteq said.entities
                   /\ said.entities \subseteq named \cup Further
             /\ stage \in Redacting /\ named # {} => said.kind = "redact"
<1> DEFINE s == stages[stage]
           entities == EntitiesIn(s, request)
           named == Named(Spoken(request))
           redact == [kind |-> "redact", entities |-> entities,
                      mutated |-> RedactRequest(s, request)]
<1>1. /\ s.action \in {"block", "redact", "log_only"}
      /\ Finds(s, "\n") = {} /\ Ordered(s)
  BY OneRedactor
<1>2. s.action = "redact" <=> stage \in Redacting  BY DEF Redacting
<1>3. stage \in Redacting =>
        /\ named \subseteq entities /\ entities \subseteq named \cup Further
        /\ named = {} <=> entities = {}
  <2> SUFFICES ASSUME stage \in Redacting
               PROVE  /\ named \subseteq entities /\ entities \subseteq named \cup Further
                      /\ named = {} <=> entities = {}
    OBVIOUS
  <2>1. request \in Turns(Speakers(client.body), Wording) /\ "\n" \in Wording
    BY DEF Screened, Wording
  <2>2. /\ \A e : e \in named <=> \E w \in Spoken(request) : e \in Foremost(s, w)
        /\ \A e : e \in Further <=> \E w \in Replacements : e \in Matching(s, w)
    BY NamedIs
  <2>3. Made(s) \subseteq Replacements  BY DEF Replacements
  <2> HIDE DEF s
  <2>4. entities = UNION {Finds(s, w) : w \in Spoken(request)}  BY <1>1, <2>1, EntitiesSaid
  <2>5. \A w : /\ Matching(s, w) = {} <=> Finds(s, w) = {}
               /\ Foremost(s, w) \subseteq Finds(s, w)
               /\ Foremost(s, w) = {} <=> Matching(s, w) = {}
               /\ Finds(s, w) \subseteq Foremost(s, w) \cup UNION {Matching(s, v) : v \in Made(s)}
    BY <1>1, WordRedacted
  <2> HIDE DEF entities, named
  <2>6. named \subseteq entities  BY <2>2, <2>4, <2>5
  <2>7. entities \subseteq named \cup Further
    <3>1. ASSUME NEW e \in entities PROVE e \in named \/ e \in Further
      <4>1. PICK w \in Spoken(request) : e \in Finds(s, w)  BY <2>4, <3>1
      <4>2. e \in Foremost(s, w) \/ \E v \in Made(s) : e \in Matching(s, v)  BY <2>5, <4>1
      <4> QED  BY <2>2, <2>3, <4>1, <4>2
    <3> QED  BY <3>1
  <2>8. named = {} => entities = {}
    <3>1. ASSUME NEW e \in entities PROVE named # {}
      <4>1. PICK w \in Spoken(request) : e \in Finds(s, w)  BY <2>4, <3>1
      <4>2. Foremost(s, w) # {}  BY <2>5, <4>1
      <4> QED  BY <2>2, <4>1, <4>2
    <3> QED  BY <3>1
  <2> QED  BY <2>6, <2>7, <2>8
<1>4. Evaluate(s, request) = EvaluatePii(s, request)  BY DEF Evaluate
<1>5. /\ entities = {} \/ s.action = "log_only" => EvaluatePii(s, request) = Allow
      /\ entities # {} /\ s.action = "block" => EvaluatePii(s, request) = Block("pii_detected")
      /\ entities # {} /\ s.action = "redact" => EvaluatePii(s, request) = redact
  <2> HIDE DEF s
  <2>1. CASE entities = {} \/ s.action = "log_only"  BY <2>1 DEF EvaluatePii, entities
  <2>2. CASE entities # {} /\ s.action = "block"  BY <2>2 DEF EvaluatePii, entities
  <2>3. CASE entities # {} /\ s.action = "redact"  BY <2>3 DEF EvaluatePii, entities
  <2> QED  BY <2>1, <2>2, <2>3
<1>6. Allow.kind = "allow" /\ Block("pii_detected").kind = "block"  BY DEF Allow, Block
<1>7. redact.kind = "redact" /\ redact.entities = entities  OBVIOUS
<1> HIDE DEF entities, named, redact
<1> QED  BY <1>1, <1>2, <1>3, <1>4, <1>5, <1>6, <1>7 DEF s, named

(* A stage that goes on leaves everything as it is, or it is the redactor,  *)
(* which redacts and tells what is named in the request, and perhaps what   *)
(* matches what it has made.                                               *)
LEMMA StageFinds ==
  ASSUME Routed, Screened, RunStage, at' # "done"
  PROVE  LET named == Named(Spoken(request))
         IN  \/ /\ request' = request /\ found' = found
                /\ stage \in Redacting => named = {}
             \/ /\ stage \in Redacting /\ named # {}
                /\ request' = RedactRequest(stages[stage], request)
                /\ \E told : /\ named \subseteq told /\ told \subseteq named \cup Further
                             /\ found' = found \cup told \cup {"redacted"}
<1> DEFINE s == stages[stage]
           said == Evaluate(s, request)
           named == Named(Spoken(request))
<1>1. at = "screening" /\ stage \in DOMAIN stages
  <2>1. at = "screening" /\ stage <= Len(stages)  BY DEF RunStage
  <2>2. ArePipeline(stages)  BY BuiltStages DEF Routed, stages
  <2> QED  BY <2>1, <2>2 DEF Screened, ArePipeline
<1>2. said.kind \in {"allow", "block", "redact", "tooLong"}
  BY DEF Evaluate, EvaluateRules, EvaluatePii, EvaluatePolicy, EvaluateOnnx, Allow, Block
<1>3. \/ said.kind \in {"allow", "tooLong"} /\ request' = request /\ found' = found
      \/ said.kind = "redact" /\ found' = found \cup said.entities \cup {"redacted"}
  <2> HIDE DEF s
  <2> QED  BY <1>2 DEF RunStage, BlockWith, Refuse, said, s
<1>4. \/ said.kind \in {"allow", "tooLong"}
      \/ /\ said.kind = "redact" /\ s.id = "pii_redactor"
         /\ request' = RedactRequest(s, request)
  BY StageMakes
<1>5. s.id = "pii_redactor" =>
        /\ said.kind = "redact" =>
             /\ stage \in Redacting /\ named # {}
             /\ named \subseteq said.entities
             /\ said.entities \subseteq named \cup Further
        /\ stage \in Redacting /\ named # {} => said.kind = "redact"
  BY <1>1, RedactorSays
<1>6. stage \in Redacting => s.id = "pii_redactor"  BY DEF Redacting
<1> HIDE DEF s, said, named
<1> QED  BY <1>3, <1>4, <1>5, <1>6 DEF s, named

\* A redaction keeps the places in line, and says nothing new but its own.
LEMMA RedactionLined ==
  ASSUME Routed, Screened, Calm, Aligned, at = "screening", NEW k \in Redacting
  PROVE  LET new == RedactRequest(stages[k], request)
         IN  /\ DOMAIN new = DOMAIN request
             /\ \A i \in DOMAIN request : Lined(client.body, pointers[i], new[i])
             /\ Spoken(new) \subseteq Replacements \cup Spoken(request)
<1> DEFINE pii == stages[k]
           new == RedactRequest(pii, request)
           R == Speakers(client.body)
<1>1. /\ DOMAIN pointers = DOMAIN request
      /\ \A i \in DOMAIN request :
           /\ ToSet(pointers[i]) \subseteq ScannedPlaces(client)
           /\ Len(pointers[i]) \in Nat /\ DOMAIN pointers[i] = 1..Len(pointers[i])
           /\ request[i].parts \in Seq(Piece(Wording))
      /\ ScannedPlaces(client) \subseteq DOMAIN client.body
  BY PlacesInBody
<1>2. Made(pii) \subseteq Replacements  BY DEF Replacements, Redacting
<1>3. Made(pii) \subseteq Wording
  <2> HIDE DEF pii
  <2> QED  BY <1>2 DEF Wording
<1>8. Ordered(pii)  BY OneRedactor DEF Redacting
<1>4. request \in Turns(R, Wording)  BY DEF Screened
<1>5. DOMAIN new = DOMAIN request  BY DEF RedactRequest
<1>6. ASSUME NEW i \in DOMAIN request PROVE Lined(client.body, pointers[i], new[i])
  <2> DEFINE old == request[i]
             now == new[i]
             places == pointers[i]
  <2>1. old.parts \in Seq(Piece(Wording))  BY <1>1
  <2>2. now.parts = RedactParts(pii, old.parts)
    <3>1. now = [old EXCEPT !.parts = RedactParts(pii, old.parts)]  BY DEF RedactRequest
    <3> DEFINE Turn == [role : R, parts : Seq(Piece(Wording))]
    <3>2. request \in Seq(Turn)  BY <1>4 DEF Turns
    <3>3. \A m \in Turn : \A x : [m EXCEPT !.parts = x].parts = x  OBVIOUS
    <3> HIDE DEF Turn
    <3>4. old \in Turn  BY <3>2, LenProperties, ElementOfSeq
    <3> QED  BY <3>1, <3>3, <3>4
  <2>3. \A j \in DOMAIN places : client.body[places[j]] \in Seq(Wording)
    <3>1. \A j \in DOMAIN places : places[j] \in DOMAIN client.body  BY <1>1 DEF ToSet
    <3> QED  BY <3>1, BodyWording
  <2>4. Lined(client.body, places, old)  BY DEF Aligned
  <2>5. Len(places) \in Nat /\ DOMAIN places = 1..Len(places)  BY <1>1
  <2>6. Made(stages[k]) \subseteq Wording  BY <1>3
  <2> HIDE DEF old, now, places
  <2> QED  BY <2>1, <2>2, <2>3, <2>4, <2>5, <2>6, LinedAgain DEF old, now, places
<1>7. Spoken(new) \subseteq Replacements \cup Spoken(request)
  <2> HIDE DEF pii, R
  <2>1. \A w \in Spoken(new) : w \in Made(pii) \/ w \in Spoken(request)
    BY <1>3, <1>4, <1>8, RedactRequestHolds DEF new
  <2> QED  BY <1>2, <2>1
<1> QED  BY <1>5, <1>6, <1>7

\* What is named in several words is what is named in some of them.
LEMMA NamedGrows ==
  ASSUME NEW a, NEW b
  PROVE  /\ Named(a \cup b) = Named(a) \cup Named(b)
         /\ a \subseteq b => Named(a) \subseteq Named(b)
BY DEF Named

(* A stage that has run has redacted what it finds, and told it.           *)
LEMMA StageRecorded ==
  ASSUME Routed, Screened, Calm, Recorded, RunStage \/ StageFails
  PROVE  Recorded'
<1>1. /\ version' = version /\ client' = client /\ pointers' = pointers
      /\ at = "screening" /\ stage <= Len(stages) /\ audit = <<>> /\ Aligned /\ FoundSoFar
  BY DEF RunStage, StageFails, Recorded
<1>2. /\ stage \in DOMAIN stages /\ \A k \in DOMAIN stages : k \in Nat
      /\ stage \in Nat
  <2>1. ArePipeline(stages)  BY BuiltStages DEF Routed, stages
  <2> QED  BY <1>1, <2>1 DEF Screened, ArePipeline
<1>3. CASE at' = "done"  BY <1>3 DEF Recorded
<1>4. CASE at' # "done"
  <2> DEFINE named == Named(Spoken(request))
             Same == /\ request' = request /\ found' = found
                     /\ stage \in Redacting => named = {}
             Told == /\ stage \in Redacting /\ named # {}
                     /\ request' = RedactRequest(stages[stage], request)
                     /\ \E told : /\ named \subseteq told /\ told \subseteq named \cup Further
                                  /\ found' = found \cup told \cup {"redacted"}
  <2>1. Continue /\ (Same \/ Told)
    <3>1. CASE StageFails
      <4>1. Continue /\ request' = request /\ found' = found
            /\ stages[stage].id \in {"onnx_injection", "toxicity"}
        BY <1>4, <3>1 DEF StageFails, BlockWith, Refuse
      <4>2. stage \notin Redacting  BY <4>1 DEF Redacting
      <4> QED  BY <4>1, <4>2
    <3>2. CASE RunStage
      <4>1. Continue  BY <1>4, <3>2, StageMakes
      <4> QED  BY <1>4, <3>2, <4>1, StageFinds
    <3> QED  BY <3>1, <3>2
  <2>2. stage' = stage + 1 /\ at' = at /\ audit' = audit  BY <2>1 DEF Continue
  <2>3. /\ Redacting' = Redacting /\ Replacements' = Replacements /\ Further' = Further /\ Said' = Said
        /\ \A words : Named(words)' = Named(words)
        /\ \A body, places, message : Lined(body, places, message)' <=> Lined(body, places, message)
    BY <1>1, NamedSettled
  <2>4. /\ DOMAIN request' = DOMAIN request
        /\ \A i \in DOMAIN request : Lined(client.body, pointers[i], request'[i])
        /\ Spoken(request') \subseteq Replacements \cup Spoken(request)
    <3>1. CASE Same  BY <1>1, <3>1 DEF Aligned
    <3>2. CASE Told  BY <1>1, <3>2, RedactionLined
    <3> QED  BY <2>1, <3>1, <3>2
  <2>5. Aligned'  BY <1>1, <2>3, <2>4 DEF Aligned
  <2>6. \A k \in Redacting : k < stage + 1 => k < stage \/ k = stage
    BY <1>2 DEF Redacting
  <2>7. named \subseteq Named(Said) \cup Further
    <3>1. Spoken(request) \subseteq Said \cup Replacements  BY <1>1 DEF FoundSoFar
    <3>2. Named(Replacements) \subseteq Further  BY NamedEntities
    <3>3. named \subseteq Named(Said \cup Replacements)  BY <3>1, NamedGrows
    <3>4. Named(Said \cup Replacements) = Named(Said) \cup Named(Replacements)  BY NamedGrows
    <3> HIDE DEF named
    <3> QED  BY <3>2, <3>3, <3>4
  <2>8. "redacted" \notin found => named = Named(Said)  BY <1>1 DEF FoundSoFar
  <2> HIDE DEF named
  <2>9. FoundSoFar'
    <3>1. Spoken(request)' = Spoken(request')  BY DEF Spoken
    <3>2. /\ "redacted" \notin found' => found' = {} /\ Spoken(request') = Said
          /\ Spoken(request') \subseteq Said \cup Replacements
          /\ "redacted" \in found' \/ (\E k \in Redacting : k < stage + 1)
               => Named(Said) \subseteq found'
          /\ "redacted" \in found' => Named(Said) # {}
          /\ found' \subseteq {"redacted"} \cup Named(Said) \cup Further
      <4>1. CASE Same
        <5>1. (\E k \in Redacting : k < stage + 1) =>
                (\E k \in Redacting : k < stage) \/ stage \in Redacting
          BY <2>6
        <5>2. stage \in Redacting /\ "redacted" \notin found => Named(Said) = {}
          BY <2>8, <4>1
        <5> QED  BY <1>1, <4>1, <5>1, <5>2 DEF FoundSoFar
      <4>2. CASE Told
        <5>1. /\ "redacted" \in found' /\ found \subseteq found' /\ named \subseteq found'
              /\ found' \subseteq found \cup named \cup Further \cup {"redacted"}
          BY <4>2
        <5>2. Named(Said) \subseteq found'
          BY <1>1, <2>8, <5>1 DEF FoundSoFar
        <5>3. Named(Said) # {}  BY <1>1, <2>8, <4>2 DEF FoundSoFar
        <5>4. found' \subseteq {"redacted"} \cup Named(Said) \cup Further
          BY <1>1, <2>7, <5>1 DEF FoundSoFar
        <5>5. Spoken(request') \subseteq Said \cup Replacements
          BY <1>1, <2>4 DEF FoundSoFar
        <5> QED  BY <5>1, <5>2, <5>3, <5>4, <5>5
      <4> QED  BY <2>1, <4>1, <4>2
    <3> QED  BY <2>2, <2>3, <3>1, <3>2 DEF FoundSoFar
  <2> QED  BY <1>1, <2>2, <2>5, <2>9 DEF Recorded
<1> QED  BY <1>3, <1>4

\* When all stages have run, what was found is what is named.
LEMMA FoundIsAll ==
  ASSUME Routed, Screened, Recorded, at = "writing"
  PROVE  FoundAll
<1>1. ArePipeline(stages)  BY BuiltStages DEF Routed, stages
<1>2. stage > Len(stages) /\ stage \in Nat /\ FoundSoFar  BY DEF Screened, Recorded
<1>3. \A k \in Redacting : k < stage  BY <1>1, <1>2 DEF ArePipeline, Redacting
<1>4. Redacting = {} => Named(Said) = {}  BY NamedEntities
<1>5. "redacted" \notin Named(Said)  BY NamedEntities
<1>6. Named(Said) \subseteq found
  <2>1. CASE Redacting = {}  BY <1>4, <2>1
  <2>2. CASE Redacting # {}  BY <1>2, <1>3, <2>2 DEF FoundSoFar
  <2> QED  BY <2>1, <2>2
<1> QED  BY <1>2, <1>5, <1>6 DEF FoundSoFar, FoundAll

\* Something was sent if it is a record of what was.
LEMMA SentIsSome ==
  ASSUME NEW a, NEW b, NEW c, NEW d
  PROVE  [method |-> a, path |-> b, headers |-> c, body |-> d] # <<>>
<1> DEFINE r == [method |-> a, path |-> b, headers |-> c, body |-> d]
<1>1. "method" \in DOMAIN r  OBVIOUS
<1>2. DOMAIN <<>> = {}  OBVIOUS
<1> HIDE DEF r
<1>3. r # <<>>  BY <1>1, <1>2
<1> QED  BY <1>3 DEF r

\* What is written is what the client sent, altered; it is always written.
LEMMA WriteSends ==
  ASSUME Routed, Screened, Calm, Recorded, Write
  PROVE  /\ at = "writing" /\ at' = "answered" /\ audit' = audit /\ found' = found
         /\ sent' # <<>> /\ sent'.body = Apply(client.body, pointers, request)
<1>1. at = "writing" /\ Aligned  BY DEF Write, Recorded
<1>2. ~ApplyFails(client.body, pointers, request)  BY <1>1, NeverFails
<1>3. /\ at' = "answered" /\ audit' = audit /\ found' = found
      /\ \E headers : sent' = [method |-> "POST", path |-> client.path, headers |-> headers,
                               body |-> Apply(client.body, pointers, request)]
  BY <1>2 DEF Write
<1>4. PICK headers : sent' = [method |-> "POST", path |-> client.path, headers |-> headers,
                              body |-> Apply(client.body, pointers, request)]
  BY <1>3
<1>5. sent' # <<>>  BY <1>4, SentIsSome
<1> QED  BY <1>1, <1>3, <1>4, <1>5

\* Every step keeps the places in line, and tells what is found.
LEMMA RecordedStep ==
  ASSUME Routed, Screened, Calm, Recorded, Next
  PROVE  Recorded'
<1>1. version' = version /\ client' = client /\ route' = route  BY SettledRoute
<1>2. /\ Redacting' = Redacting /\ Replacements' = Replacements /\ Further' = Further /\ Said' = Said
      /\ \A words : Named(words)' = Named(words)
      /\ \A body, places, message : Lined(body, places, message)' <=> Lined(body, places, message)
  BY <1>1, NamedSettled
<1>3. CASE Arrive
  <2>1. /\ at = "routing" /\ at' \in {"done", "admitting"} /\ found' = found
        /\ at' # "done" => audit' = audit
    BY <1>3 DEF Arrive, Refuse, runVars
  <2> QED  BY <2>1 DEF Recorded
<1>4. CASE Admit
  <2>1. /\ at = "admitting" /\ at' \in {"done", "parsing", "forwarding"} /\ found' = found
        /\ at' # "done" => audit' = audit
    BY <1>4 DEF Admit, Refuse, runVars
  <2> QED  BY <2>1 DEF Recorded
<1>5. CASE Parse  BY <1>5, ParseRecorded
<1>6. CASE RunStage \/ StageFails  BY <1>6, StageRecorded
<1>7. CASE Decide
  <2>1. /\ stage' = stage /\ request' = request /\ pointers' = pointers /\ found' = found
        /\ audit' = audit /\ at = "screening" /\ at' = "writing"
    BY <1>7 DEF Decide, runVars
  <2>2. Spoken(request)' = Spoken(request)  BY <2>1 DEF Spoken
  <2>3. Aligned'  BY <1>1, <1>2, <2>1 DEF Recorded, Aligned
  <2>4. FoundSoFar'  BY <1>2, <2>1, <2>2 DEF Recorded, FoundSoFar
  <2> QED  BY <2>1, <2>3, <2>4 DEF Recorded
<1>8. CASE Write
  <2>1. /\ at = "writing" /\ at' = "answered" /\ audit' = audit /\ found' = found /\ sent' # <<>>
    BY <1>8, WriteSends
  <2>2. FoundAll'
    <3>1. FoundAll  BY <2>1, FoundIsAll
    <3> QED  BY <1>2, <2>1, <3>1 DEF FoundAll
  <2> QED  BY <2>1, <2>2 DEF Recorded
<1>9. CASE ForwardPassthrough
  <2>1. /\ at = "forwarding" /\ at' = "answered" /\ audit' = audit
        /\ sent' = [method |-> client.method, path |-> client.path,
                    headers |-> ForwardableHeaders(client.headers, StrippedRequest),
                    body |-> client.body]
    BY <1>9 DEF ForwardPassthrough, runVars
  <2>2. sent' # <<>>  BY <2>1, SentIsSome
  <2>3. route' = "passthrough"  BY <1>1, <2>1 DEF Routed
  <2> QED  BY <2>1, <2>2, <2>3 DEF Recorded
<1>10. CASE UpstreamFails \/ \E a \in Answers : Relay(a) \/ BreakOff(a)
  <2>1. at' = "done"  BY <1>10 DEF UpstreamFails, Relay, BreakOff, Refuse
  <2> QED  BY <2>1 DEF Recorded
<1> QED  BY <1>3, <1>4, <1>5, <1>6, <1>7, <1>8, <1>9, <1>10 DEF Next

\* Always: the places are in line, and what was found is told.
LEMMA RecordedAlways == Spec => [](Routed /\ Screened /\ Calm /\ Recorded)
<1>1. Init => Recorded  BY DEF Init, Recorded
<1>2. Routed /\ Screened /\ Calm /\ Recorded /\ [Next]_vars => Recorded'
  <2> SUFFICES ASSUME Routed, Screened, Calm, Recorded, [Next]_vars PROVE Recorded'  OBVIOUS
  <2>1. CASE Next  BY <2>1, RecordedStep
  <2>2. CASE UNCHANGED vars
    <3>1. /\ Redacting' = Redacting /\ Replacements' = Replacements
          /\ Further' = Further /\ Said' = Said
          /\ \A words : Named(words)' = Named(words)
          /\ \A body, places, message : Lined(body, places, message)' <=> Lined(body, places, message)
      BY <2>2, NamedSettled DEF vars
    <3>2. Spoken(request)' = Spoken(request) /\ route' = route
      BY <2>2 DEF vars, Spoken, route, config
    <3>3. Aligned => Aligned'  BY <2>2, <3>1 DEF vars, Aligned
    <3>4. FoundSoFar => FoundSoFar'  BY <2>2, <3>1, <3>2 DEF vars, FoundSoFar
    <3>5. FoundAll => FoundAll'  BY <2>2, <3>1 DEF vars, FoundAll
    <3> QED  BY <2>2, <3>2, <3>3, <3>4, <3>5 DEF vars, Recorded
  <2> QED  BY <2>1, <2>2
<1> QED  BY <1>1, <1>2, CalmAlways, PTL DEF Spec

-----------------------------------------------------------------------------
(* What RedactionsOnly says, in three parts.                               *)
\* The body: redactions, where it is scanned.
BodyReworded ==
  Forwarded =>
    /\ DOMAIN sent.body = DOMAIN client.body
    /\ \A p \in DOMAIN client.body :
         \/ sent.body[p] = client.body[p]
         \/ p \in ScannedPlaces(client) /\ Altered(client.body[p], sent.body[p])

\* The record: the decision, and the entities.
RecordTold ==
  Forwarded /\ at = "done" =>
    /\ Len(audit) = 1
    /\ audit[1].decision = IF Named(Said) = {} THEN "allow" ELSE "redact"
    /\ Named(Said) \subseteq audit[1].entities
    /\ audit[1].entities \subseteq
         IF Named(Said) = {} THEN {} ELSE Named(Said) \cup Further

\* The reply: what has not been sent did not fail in here.
NeverInternal == at = "done" /\ sent = <<>> => reply.code # "guardrail_internal_error"

LEMMA ThreeParts ==
  ASSUME Routed, BodyReworded, RecordTold, NeverInternal
  PROVE  RedactionsOnly
<1>1. Forwarded => ScannedOf[client] = ScannedPlaces(client)
  <2> SUFFICES ASSUME Forwarded PROVE ScannedOf[client] = ScannedPlaces(client)  OBVIOUS
  <2>1. client.method = "POST" /\ ScannedApi(client.path) # "none" /\ client \in Clients
    BY ScannedRoute DEF Routed, Forwarded
  <2> QED  BY <2>1 DEF ScannedOf
<1> DEFINE named == Named(UNION {ToSet(client.body[p]) : p \in ScannedOf[client]})
<1>2. Forwarded => named = Named(Said)  BY <1>1 DEF Said
<1> HIDE DEF named
<1>3. Forwarded =>
        /\ DOMAIN sent.body = DOMAIN client.body
        /\ \A p \in DOMAIN client.body :
             \/ sent.body[p] = client.body[p]
             \/ /\ p \in ScannedOf[client]
                /\ Len(sent.body[p]) = Len(client.body[p])
                /\ \A i \in DOMAIN client.body[p] : Reworded(client.body[p][i], sent.body[p][i])
  BY <1>1 DEF BodyReworded, Altered
<1>4. Forwarded /\ at = "done" =>
        /\ Len(audit) = 1
        /\ audit[1].decision = IF named = {} THEN "allow" ELSE "redact"
        /\ named \subseteq audit[1].entities
        /\ audit[1].entities \subseteq IF named = {} THEN {} ELSE named \cup Further
  BY <1>2 DEF RecordTold
<1> QED  BY <1>3, <1>4 DEF RedactionsOnly, NeverInternal, named

\* The body that is sent is reworded.
LEMMA BodyRewordedStep ==
  ASSUME Routed, Screened, Calm, Recorded, BodyReworded, Next
  PROVE  BodyReworded'
<1>1. version' = version /\ client' = client /\ route' = route  BY SettledRoute
<1>2. \A old, new : Altered(old, new)' <=> Altered(old, new)
  <2>1. \A old, new : Reworded(old, new)' <=> Reworded(old, new)  BY <1>1, NamedSettled
  <2> QED  BY <2>1 DEF Altered
<1>3. CASE sent' = sent
  <2>1. \A p : Altered(client.body[p], sent.body[p])' <=> Altered(client.body[p], sent.body[p])
    BY <1>1, <1>2, <1>3
  <2> QED  BY <1>1, <1>3, <2>1 DEF BodyReworded, Forwarded
<1>4. CASE sent' # sent /\ ~Write
  <2>1. ForwardPassthrough
    BY <1>4 DEF Next, Arrive, Admit, Parse, RunStage, StageFails, Decide, UpstreamFails, Relay, BreakOff
  <2>2. route = "passthrough"  BY <2>1 DEF ForwardPassthrough, Routed
  <2> QED  BY <1>1, <2>2 DEF BodyReworded, Forwarded
<1>5. CASE Write
  <2> DEFINE now == Apply(client.body, pointers, request)
  <2>1. at = "writing" /\ sent'.body = now /\ Aligned  BY <1>5, WriteSends DEF Recorded
  <2>2. DOMAIN now = DOMAIN client.body  BY DEF Apply
  <2>3. \A p \in DOMAIN client.body :
          now[p] = client.body[p] \/ (p \in ScannedPlaces(client) /\ Altered(client.body[p], now[p]))
    BY <2>1, AppliedIsAltered
  <2> HIDE DEF now
  <2>4. \A p : Altered(client.body[p], sent.body[p])' <=> Altered(client.body[p], now[p])
    BY <1>1, <1>2, <2>1
  <2> QED  BY <1>1, <2>1, <2>2, <2>3, <2>4 DEF BodyReworded
<1> QED  BY <1>3, <1>4, <1>5

\* The record that is emitted tells what was named.
LEMMA RecordToldStep ==
  ASSUME Routed, Screened, Calm, Recorded, RecordTold, Next
  PROVE  RecordTold'
<1>1. version' = version /\ client' = client /\ route' = route  BY SettledRoute
<1>2. /\ Replacements' = Replacements /\ Further' = Further /\ Said' = Said
      /\ \A words : Named(words)' = Named(words)
  BY <1>1, NamedSettled
<1>3. CASE UpstreamFails \/ \E a \in Answers : Relay(a) \/ BreakOff(a)
  <2>1. at = "answered" /\ RecordForwarded  BY <1>3 DEF UpstreamFails, Relay, BreakOff
  <2>2. CASE route # "scanned"  BY <1>1, <2>2 DEF RecordTold, Forwarded
  <2>3. CASE route = "scanned"
    <3> DEFINE decision == IF "redacted" \in found THEN "redact" ELSE "allow"
               record == [decision |-> decision, code |-> "none",
                          entities |-> found \ {"redacted"}, failedOpen |-> failedOpen,
                          messages |-> Len(request)]
    <3>1. audit' = Append(audit, record) /\ audit = <<>> /\ FoundAll
      BY <2>1, <2>3 DEF RecordForwarded, Emit, Recorded
    <3>2. record.decision = decision /\ record.entities = found \ {"redacted"}  OBVIOUS
    <3> HIDE DEF record
    <3>3. Append(<<>>, record) = <<record>>  OBVIOUS
    <3>4. Len(audit') = 1 /\ audit'[1] = record  BY <3>1, <3>3
    <3>5. "redacted" \notin Named(Said) /\ "redacted" \notin Further
      BY NamedEntities
    <3>6. record.decision = IF Named(Said) = {} THEN "allow" ELSE "redact"
      BY <3>1, <3>2 DEF FoundAll
    <3>7. /\ Named(Said) \subseteq record.entities
          /\ record.entities \subseteq
               IF Named(Said) = {} THEN {} ELSE Named(Said) \cup Further
      BY <3>1, <3>2, <3>5 DEF FoundAll
    <3> QED  BY <1>2, <3>4, <3>6, <3>7 DEF RecordTold
  <2> QED  BY <2>2, <2>3
<1>4. CASE Arrive \/ Admit \/ Parse \/ RunStage \/ StageFails \/ Decide
  <2>1. sent' = sent /\ at \notin {"answered", "done"}
    BY <1>4 DEF Arrive, Admit, Parse, RunStage, StageFails, Decide
  <2>2. sent' = <<>>  BY <2>1 DEF Routed
  <2> QED  BY <2>2 DEF RecordTold, Forwarded
<1>5. CASE Write
  <2>1. at' = "answered"  BY <1>5, WriteSends
  <2> QED  BY <2>1 DEF RecordTold
<1>6. CASE ForwardPassthrough
  <2>1. at' = "answered"  BY <1>6 DEF ForwardPassthrough
  <2> QED  BY <2>1 DEF RecordTold
<1> QED  BY <1>3, <1>4, <1>5, <1>6 DEF Next

\* What is refused before it is sent is refused for a reason of its own.
LEMMA NeverInternalStep ==
  ASSUME Routed, Screened, Calm, Recorded, NeverInternal, Next
  PROVE  NeverInternal'
<1>1. \A status, code : Refuse(status, code) => reply'.code = code  BY DEF Refuse
<1>2. ASSUME reply'.code # "guardrail_internal_error" PROVE NeverInternal'
  BY <1>2 DEF NeverInternal
<1>3. ASSUME at' # "done" PROVE NeverInternal'  BY <1>3 DEF NeverInternal
<1>4. CASE Arrive
  <2>1. at' = "admitting" \/ Refuse(200, "ok") \/ Refuse(405, "method_not_allowed")
        \/ Refuse(404, "not_found")
    BY <1>4 DEF Arrive
  <2> QED  BY <1>1, <1>2, <1>3, <2>1
<1>5. CASE Admit
  <2>1. at' \in {"forwarding", "parsing"} \/ Refuse(401, "unauthorized")
        \/ Refuse(413, "payload_too_large") \/ Refuse(400, "bad_request")
    BY <1>5 DEF Admit
  <2> QED  BY <1>1, <1>2, <1>3, <2>1
<1>6. CASE Parse
  <2>1. at' = "screening" \/ Refuse(400, "bad_request") \/ Refuse(400, "streaming_not_allowed")
    BY <1>6 DEF Parse
  <2> QED  BY <1>1, <1>2, <1>3, <2>1
<1>7. CASE RunStage
  <2> DEFINE said == Evaluate(stages[stage], request)
  <2>1. said.kind \in {"allow", "block", "redact", "tooLong"}
    BY DEF Evaluate, EvaluateRules, EvaluatePii, EvaluatePolicy, EvaluateOnnx, Allow, Block
  <2>2. said.kind = "block" => said.code # "guardrail_internal_error"  BY CodesOfStages
  <2>3. \/ Continue \/ BlockWith("input_too_long_for_classifier")
        \/ said.kind = "block" /\ BlockWith(said.code)
    BY <1>7, <2>1 DEF RunStage
  <2>4. at = "screening"  BY <1>7 DEF RunStage
  <2> HIDE DEF said
  <2> QED  BY <1>1, <1>2, <1>3, <2>2, <2>3, <2>4 DEF Continue, BlockWith
<1>8. CASE StageFails
  <2>1. at = "screening" /\ (Continue \/ BlockWith("stage_error"))  BY <1>8 DEF StageFails
  <2> QED  BY <1>1, <1>2, <1>3, <2>1 DEF Continue, BlockWith
<1>9. CASE Decide  BY <1>3, <1>9 DEF Decide
<1>10. CASE Write
  <2>1. at' = "answered"  BY <1>10, WriteSends
  <2> QED  BY <1>3, <2>1
<1>11. CASE ForwardPassthrough  BY <1>3, <1>11 DEF ForwardPassthrough
<1>12. CASE UpstreamFails \/ \E a \in Answers : Relay(a) \/ BreakOff(a)
  <2>1. at = "answered" /\ sent' = sent  BY <1>12 DEF UpstreamFails, Relay, BreakOff
  <2>2. sent' # <<>>  BY <2>1 DEF Recorded
  <2> QED  BY <2>2 DEF NeverInternal
<1> QED  BY <1>4, <1>5, <1>6, <1>7, <1>8, <1>9, <1>10, <1>11, <1>12 DEF Next

(* Whatever a client sends and whatever the pipeline is: what goes upstream *)
(* is the client's body but for redactions in the places that are scanned,  *)
(* the record says what was redacted, and no request fails because it does  *)
(* not line up with its body any more.                                     *)
THEOREM ExchangeRedactionsOnly == Spec => []RedactionsOnly
<1> DEFINE Parts == BodyReworded /\ RecordTold /\ NeverInternal
<1>1. Init => Parts
  <2> SUFFICES ASSUME Init PROVE Parts  OBVIOUS
  <2>1. sent = <<>> /\ at = "routing"  BY DEF Init
  <2> QED  BY <2>1 DEF BodyReworded, RecordTold, NeverInternal, Forwarded
<1>2. Routed /\ Screened /\ Calm /\ Recorded /\ Parts /\ [Next]_vars => Parts'
  <2> SUFFICES ASSUME Routed, Screened, Calm, Recorded, Parts, [Next]_vars PROVE Parts'
    OBVIOUS
  <2>1. CASE Next  BY <2>1, BodyRewordedStep, RecordToldStep, NeverInternalStep
  <2>2. CASE UNCHANGED vars
    <3>1. /\ Replacements' = Replacements /\ Further' = Further /\ Said' = Said /\ route' = route
          /\ \A words : Named(words)' = Named(words)
          /\ \A old, new : Reworded(old, new)' <=> Reworded(old, new)
      BY <2>2, NamedSettled DEF vars, route, config
    <3>2. \A old, new : Altered(old, new)' <=> Altered(old, new)  BY <3>1 DEF Altered
    <3>3. \A p : Altered(client.body[p], sent.body[p])' <=> Altered(client.body[p], sent.body[p])
      BY <2>2, <3>2 DEF vars
    <3>4. BodyReworded'  BY <2>2, <3>1, <3>3 DEF vars, BodyReworded, Forwarded
    <3>5. RecordTold'  BY <2>2, <3>1 DEF vars, RecordTold, Forwarded
    <3>6. NeverInternal'  BY <2>2 DEF vars, NeverInternal
    <3> QED  BY <3>4, <3>5, <3>6
  <2> QED  BY <2>1, <2>2
<1>3. Routed /\ Parts => RedactionsOnly  BY ThreeParts
<1> HIDE DEF Parts
<1> QED  BY <1>1, <1>2, <1>3, RecordedAlways, PTL DEF Spec
=============================================================================
