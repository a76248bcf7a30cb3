------------------------------ MODULE Screening ------------------------------
(***************************************************************************)
(* What the stages say of a request: the injection scanner, the PII        *)
(* redactor and the policy engine, and the windows of the ONNX stages, of  *)
(* guardrail-classifiers and guardrail-core.  A stage is a record that     *)
(* Settings built.                                                         *)
(*                                                                         *)
(* A text is a sequence of words, "\n" among them, with a space between    *)
(* two words.  A pattern, of a rule or of an entity, is a word, a keyword  *)
(* may also be blank.  A word is one token, and some are long.             *)
(* For the models, two words in a row are harmful, and only a window that  *)
(* has both shows it.  An answer is a record of its kind and what goes     *)
(* with it.  How the redactor's passes meet in one text is in PiiText.     *)
(***************************************************************************)
EXTENDS Naturals, FiniteSets, Lists

CONSTANTS
  PiiWords,      \* entity -> the words its pattern matches, or a part of
  Leftovers,     \* <<entity, word, replacement>> -> what the pass makes of the
                 \* word, where that is not the replacement alone
  LuhnInvalid,   \* card numbers that fail the Luhn check
  Harmful,       \* the two words the models look for
  LongWords,     \* words of LongWordBytes bytes; others have one
  LongWordBytes,
  WindowTokens,  \* MAX_WINDOW_TOKENS
  WindowStride,  \* WINDOW_STRIDE_TOKENS, what two windows share
  BytesPerToken  \* MAX_BYTES_PER_TOKEN

ASSUME WindowAssumption ==
  /\ WindowStride \in Nat \ {0} /\ WindowTokens \in Nat /\ WindowStride < WindowTokens
  /\ BytesPerToken \in Nat \ {0} /\ LongWordBytes \in Nat \ {0}

\* No entity's pattern matches a line break alone, and no word is one.
ASSUME PatternAssumption ==
  /\ \A e \in DOMAIN PiiWords : "\n" \notin PiiWords[e]
  /\ Harmful \in Seq(STRING \ {"\n"}) /\ Len(Harmful) = 2

-----------------------------------------------------------------------------
(* request.rs: a request is its messages.                                  *)
\* Texts joined with newlines.
Join(texts) == FlattenSeq([i \in DOMAIN texts |-> IF i = 1 THEN texts[i] ELSE <<"\n">> \o texts[i]])

AsText(message) ==
  LET texts == Only(message.parts, {p \in ToSet(message.parts) : ~p.image})
  IN  Join([i \in DOMAIN texts |-> texts[i].text])

TextForRoles(request, roles) ==
  LET spoken == Only(request, {m \in ToSet(request) : m.role \in roles})
  IN  Join([i \in DOMAIN spoken |-> AsText(spoken[i])])

AllText(request) == Join([i \in DOMAIN request |-> AsText(request[i])])

\* split_whitespace
Words(text) == Only(text, ToSet(text) \ {"\n"})

-----------------------------------------------------------------------------
Allow       == [kind |-> "allow"]
Block(code) == [kind |-> "block", code |-> code]

(* injection.rs: evaluate_sync.                                            *)
EvaluateRules(stage, request) ==
  IF stage.block /\ ToSet(stage.rules) \cap ToSet(AllText(request)) # {}
  THEN Block("prompt_injection") ELSE Allow

-----------------------------------------------------------------------------
(* pii.rs                                                                  *)
\* Mutant of Hits: without the Luhn check.
HitsAnyCard(redactor, e, word) == word \in PiiWords[e]

\* An entity's pattern matches; a card number must pass the Luhn check.
Hits(redactor, e, word) ==
  word \in PiiWords[e] /\ ~(e = "credit_card" /\ redactor.luhn /\ word \in LuhnInvalid)

\* What the pass for an entity makes of a word that its pattern matches.
Replaced(redactor, e, word) ==
  LET pass == <<e, word, redactor.replacements[e]>>
  IN  IF pass \in DOMAIN Leftovers THEN Leftovers[pass] ELSE redactor.replacements[e]

\* The word after the first n entities, each of which sees what those before left.
After(redactor, word) ==
  LET after[n \in 0..Len(redactor.entities)] ==
        IF n = 0 THEN word
        ELSE IF Hits(redactor, redactor.entities[n], after[n - 1])
          THEN Replaced(redactor, redactor.entities[n], after[n - 1])
          ELSE after[n - 1]
  IN  after

\* Mutant of Finds: all entities are tried on the word as it came.
FindsAtOnce(redactor, word) == {e \in ToSet(redactor.entities) : Hits(redactor, e, word)}

\* The entities that are recorded for a word: each that matched when its turn came.
Finds(redactor, word) ==
  LET passes == {n \in DOMAIN redactor.entities :
                   Hits(redactor, redactor.entities[n], After(redactor, word)[n - 1])}
  IN  {redactor.entities[n] : n \in passes}

\* redact_text
RedactText(redactor, text) ==
  [i \in DOMAIN text |-> After(redactor, text[i])[Len(redactor.entities)]]

\* Mutant of RedactParts: a content of several parts is left as it is.
RedactPlain(redactor, parts) ==
  IF Len(parts) > 1 THEN parts
  ELSE [i \in DOMAIN parts |-> [parts[i] EXCEPT !.text = RedactText(redactor, @)]]

RedactParts(redactor, parts) ==
  [i \in DOMAIN parts |-> [parts[i] EXCEPT !.text = RedactText(redactor, @)]]

RedactRequest(redactor, request) ==
  [i \in DOMAIN request |-> [request[i] EXCEPT !.parts = RedactParts(redactor, @)]]

\* The records are of the texts; what joins them is no match.
EntitiesIn(redactor, request) ==
  UNION {Finds(redactor, AllText(request)[i]) : i \in DOMAIN AllText(request)}

EvaluatePii(stage, request) ==
  LET entities == EntitiesIn(stage, request) IN
  CASE entities = {} \/ stage.action = "log_only" -> Allow
    [] entities # {} /\ stage.action = "block"    -> Block("pii_detected")
    [] OTHER ->
         [kind |-> "redact", entities |-> entities, mutated |-> RedactRequest(stage, request)]

-----------------------------------------------------------------------------
(* policy.rs: the first rule that is enabled and matches decides.          *)
\* `contains`: a blank keyword is in every text, or in every two words.
HasKeyword(text, keyword) ==
  \/ keyword \in ToSet(text)
  \/ keyword = ""
  \/ keyword = " " /\ \E i \in 1..(Len(text) - 1) : "\n" \notin {text[i], text[i + 1]}

ApproxTokens(request) == (Len(Words(AllText(request))) * 13) \div 10

RuleMatches(condition, request) ==
  CASE condition.type = "ContentContains" ->
         \E keyword \in condition.keywords : HasKeyword(AllText(request), keyword)
    [] condition.type = "SystemPromptAbsent" -> \A i \in DOMAIN request : request[i].role # "system"
    [] condition.type = "TokenCountExceeds" -> ApproxTokens(request) > condition.limit
    [] condition.type = "Always" -> TRUE

EvaluatePolicy(stage, request) ==
  LET matching == {i \in DOMAIN stage.rules :
                     stage.rules[i].enabled /\ RuleMatches(stage.rules[i].condition, request)}
  IN  IF matching = {} THEN Allow
      ELSE LET first == CHOOSE i \in matching : \A j \in matching : i <= j
           IN  IF stage.rules[first].action = "block" THEN Block("policy_violation") ELSE Allow

-----------------------------------------------------------------------------
(* onnx.rs                                                                 *)
Bytes(text) ==
  Len(text) + (LongWordBytes - 1) * Cardinality({i \in DOMAIN text : text[i] \in LongWords})

\* WindowLimit::max_bytes: more bytes than that are not tokenized.
MaxBytes(maxWindows) ==
  (WindowTokens + (maxWindows - 1) * (WindowTokens - WindowStride)) * BytesPerToken

\* Mutant of Advance: windows do not overlap.
AdvanceFull == WindowTokens

\* From one window to the next.
Advance == WindowTokens - WindowStride

WindowCount(tokens) ==
  IF Len(tokens) <= WindowTokens THEN 1
  ELSE 1 + (Len(tokens) - WindowTokens + Advance - 1) \div Advance

Window(tokens, k) ==
  SubSeq(tokens, (k - 1) * Advance + 1,
         IF (k - 1) * Advance + WindowTokens < Len(tokens)
         THEN (k - 1) * Advance + WindowTokens ELSE Len(tokens))

\* The part of a text that is tokenized.
Cut(text, limit) ==
  LET fits == {n \in 0..Len(text) : Bytes(SubSeq(text, 1, n)) <= limit}
  IN  SubSeq(text, 1, CHOOSE n \in fits : \A k \in fits : k <= n)

\* Mutant of TooLong: what is not measured is scored as far as it was read.
TooLongMeasured(stage, text) ==
  WindowCount(Words(Cut(text, MaxBytes(stage.maxWindows)))) > stage.maxWindows

\* `windows`: over the limit, or longer than what is tokenized.
TooLong(stage, text) ==
  \/ WindowCount(Words(Cut(text, MaxBytes(stage.maxWindows)))) > stage.maxWindows
  \/ Bytes(text) > MaxBytes(stage.maxWindows)

\* The models' score of a window, in percent.
Score(window) ==
  IF \E i \in 1..(Len(window) - 1) : SubSeq(window, i, i + 1) = Harmful THEN 95 ELSE 5

\* `max_window_score`, over the windows of the part that was tokenized.
MaxWindowScore(stage, text) ==
  LET tokens == Words(Cut(text, MaxBytes(stage.maxWindows)))
      scores == {Score(Window(tokens, k)) : k \in 1..WindowCount(tokens)}
  IN  CHOOSE s \in scores : \A t \in scores : t <= s

EvaluateOnnx(stage, request) ==
  LET text == TextForRoles(request, stage.roles) IN
  CASE Words(text) = <<>> -> Allow
    [] Words(text) # <<>> /\ TooLong(stage, text) -> [kind |-> "tooLong"]
    [] OTHER ->
         IF MaxWindowScore(stage, text) < stage.threshold \/ stage.logOnly THEN Allow
         ELSE Block(IF stage.id = "toxicity" THEN "toxicity" ELSE "prompt_injection")

-----------------------------------------------------------------------------
\* Stage::evaluate
Evaluate(stage, request) ==
  CASE stage.id = "regex_injection" -> EvaluateRules(stage, request)
    [] stage.id = "pii_redactor"    -> EvaluatePii(stage, request)
    [] stage.id = "policy"          -> EvaluatePolicy(stage, request)
    [] OTHER                        -> EvaluateOnnx(stage, request)
=============================================================================
