------------------------------- MODULE PiiStream -----------------------------
(***************************************************************************)
(* StreamingPiiRedactor of guardrail-classifiers/src/pii_stream.rs: text   *)
(* arrives in pieces and is redacted without waiting for its end.          *)
(*                                                                         *)
(* Bytes are characters here, so that every position is a character        *)
(* boundary.  Nothing arrives after `finish`.                              *)
(***************************************************************************)
EXTENDS PiiText, TLC

CONSTANTS
  HoldBack,        \* HOLD_BACK_BYTES
  MaxCarry,        \* MAX_CARRY_BYTES
  RetryAfter,      \* RETRY_AFTER_BYTES
  MaxCutAttempts,  \* MAX_CUT_ATTEMPTS
  Pieces,          \* pieces the text arrives in
  MaxText          \* bound on the length of the text

ASSUME StreamAssumption ==
  /\ {HoldBack, MaxCarry, RetryAfter, MaxCutAttempts, MaxText} \subseteq Nat
  /\ LongestNumber <= HoldBack /\ HoldBack < MaxCarry
  /\ 0 < MaxCutAttempts
  /\ Pieces \subseteq Seq(Characters)

VARIABLES
  carry,        \* text that is held back
  nextAttempt,  \* next_attempt_len
  arrived,      \* text that has arrived so far (history)
  released,     \* what was released so far
  forced,       \* a cut was forced (history)
  finished      \* `finish` was called

streamVars == <<carry, nextAttempt, arrived, released, forced, finished>>

StreamInit ==
  /\ carry = <<>> /\ nextAttempt = 0
  /\ arrived = <<>> /\ released = <<>>
  /\ forced = FALSE /\ finished = FALSE

-----------------------------------------------------------------------------
(* `safe_cut`: how many characters may go.                                 *)

UpTo(s, cut) == SubSeq(s, 1, cut)
Rest(s, cut) == SubSeq(s, cut + 1, Len(s))

\* `word_starts_at_or_before`.
WordStarts(buf, max) == {p \in 1..max : buf[p] = " " /\ buf[p + 1] # " "}

Limit(buf) == Len(buf) - HoldBack

Candidates(buf) == IF Len(buf) <= HoldBack THEN {} ELSE WordStarts(buf, Limit(buf))

Tried(buf) ==
  {p \in Candidates(buf) : Cardinality({q \in Candidates(buf) : q > p}) < MaxCutAttempts}

\* Mutant of Acceptable: no look at the matches, nor at the two sides.
AcceptAny(buf, cut) == TRUE

\* A raw match neither spans the cut nor touches it, and redacting the two
\* sides gives what redacting the whole gives.
Acceptable(buf, cut) ==
  /\ ~\E m \in RawMatches(buf) : m[1] <= cut /\ m[2] > cut
  /\ Redact(UpTo(buf, cut)) \o Redact(Rest(buf, cut)) = Redact(buf)

Forced(buf) == Len(buf) > MaxCarry /\ Candidates(buf) = {}

SafeCut(buf) ==
  LET good == {p \in Tried(buf) : Acceptable(buf, p)}
  IN IF Forced(buf) THEN Limit(buf) ELSE IF good = {} THEN 0 ELSE Max(good)

-----------------------------------------------------------------------------
(* `push`.  Looking for a cut is put off until enough text has come.        *)
Hold(buf) ==
  /\ Len(buf) < Max({nextAttempt, HoldBack + 1})
  /\ carry' = buf
  /\ UNCHANGED <<nextAttempt, released, forced>>

\* Mutant of Release: the length of the next attempt adds to the one before.
ReleaseLater(buf) ==
  /\ Len(buf) >= Max({nextAttempt, HoldBack + 1})
  /\ carry' = Rest(buf, SafeCut(buf))
  /\ released' = released \o Redact(UpTo(buf, SafeCut(buf)))
  /\ forced' = (forced \/ Forced(buf))
  /\ nextAttempt' = nextAttempt + Len(carry') + RetryAfter

Release(buf) ==
  /\ Len(buf) >= Max({nextAttempt, HoldBack + 1})
  /\ carry' = Rest(buf, SafeCut(buf))
  /\ released' = released \o Redact(UpTo(buf, SafeCut(buf)))
  /\ forced' = (forced \/ Forced(buf))
  /\ nextAttempt' = Len(carry') + RetryAfter

StreamPush(piece) ==
  /\ ~finished /\ Len(arrived) + Len(piece) <= MaxText
  /\ arrived' = arrived \o piece
  /\ Hold(carry \o piece) \/ Release(carry \o piece)
  /\ UNCHANGED finished

\* Mutant of StreamFinish: only what a cut would release is released.
FinishAtCut ==
  /\ ~finished
  /\ released' = released \o Redact(UpTo(carry, SafeCut(carry)))
  /\ carry' = <<>>
  /\ finished' = TRUE
  /\ UNCHANGED <<nextAttempt, arrived, forced>>

(* `finish`: everything still held back is released.                       *)
StreamFinish ==
  /\ ~finished
  /\ released' = released \o Redact(carry)
  /\ carry' = <<>>
  /\ finished' = TRUE
  /\ UNCHANGED <<nextAttempt, arrived, forced>>

StreamNext == (\E piece \in Pieces : StreamPush(piece)) \/ StreamFinish

StreamSpec == StreamInit /\ [][StreamNext]_streamVars

-----------------------------------------------------------------------------
(* The contract of the module: what is released, together with what         *)
(* `finish` would release now, is the redaction of the whole text, however  *)
(* it was cut into pieces.  Only a forced cut is excused.                   *)
StreamContract == ~forced => released \o Redact(carry) = Redact(arrived)

\* Digits follow an e-mail address at once, so that a number begins where the
\* original text has no boundary.
Glued(s) == \E m \in Matches("email", s) : m[2] <= Len(s) /\ s[m[2]] = "d"

(* The contract as far as it holds: no match begins only once an earlier    *)
(* pattern has replaced what stood before it.                              *)
StreamContractApart == ~Glued(arrived) => StreamContract

(* Text without anything to redact is not held up: once an attempt is due,  *)
(* no word stays that began before the hold-back.  A forced cut may make a  *)
(* number of digits that stood behind a letter, so it is excused.           *)
Prompt ==
  ~forced /\ RawMatches(arrived) = {} =>
    \A p \in WordStarts(carry, Limit(carry)) : Len(carry) - p < HoldBack + RetryAfter
=============================================================================
