-------------------------------- MODULE PiiText ------------------------------
(***************************************************************************)
(* PiiRedactor::redact_text and raw_matches of                             *)
(* guardrail-classifiers/src/pii.rs: patterns that run one after the       *)
(* other, each on what the one before it made of the text.                 *)
(*                                                                         *)
(* A text is a sequence of characters: "d" stands for digits, "t" for      *)
(* letters, "B" for the word Bearer, "@" and " " for themselves and "#"    *)
(* for a replacement like [EMAIL], whose brackets are no word characters.  *)
(* Three patterns stand for the seven of the code, for what makes them     *)
(* differ where a text is cut:                                             *)
(*   email   [dt]+@t+           any length, no whitespace                   *)
(*   card    \b(?:d ?){2,3}\b   whitespace inside and perhaps at its end,    *)
(*                              bounded, its number checked after the match *)
(*   bearer  B +[dt]{2,}        whitespace, any length                      *)
(***************************************************************************)
EXTENDS Naturals, Sequences, FiniteSets, FiniteSetsExt

Characters == {"d", "t", "B", "@", " ", "#"}

IsWord(c) == c \in {"d", "t", "B"}

\* (?-u:\b) before position i.
Boundary(text, i) ==
  (i > 1 /\ IsWord(text[i - 1])) # (i <= Len(text) /\ IsWord(text[i]))

\* The patterns in the order of PiiRedactor::default.
Patterns == <<"email", "card", "bearer">>

MadeOf(s, chars) == \A i \in DOMAIN s : s[i] \in chars

Digits(s) == Cardinality({i \in DOMAIN s : s[i] = "d"})

(* What the patterns describe.                                             *)
Describes(pattern, s) ==
  \/ /\ pattern = "email"
     /\ \E k \in 2..(Len(s) - 1) :
          s[k] = "@" /\ MadeOf(SubSeq(s, 1, k - 1), {"d", "t"}) /\ MadeOf(SubSeq(s, k + 1, Len(s)), {"t"})
  \/ /\ pattern = "card"
     /\ MadeOf(s, {"d", " "}) /\ s[1] = "d" /\ Digits(s) \in 2..3
     /\ \A i \in 1..(Len(s) - 1) : s[i] = " " => s[i + 1] # " "
  \/ /\ pattern = "bearer"
     /\ s[1] = "B"
     /\ \E k \in 2..(Len(s) - 2) :
          MadeOf(SubSeq(s, 2, k), {" "}) /\ MadeOf(SubSeq(s, k + 1, Len(s)), {"d", "t"})

\* What a card number takes at most: three digits, a space behind each.
LongestNumber == 6

\* Where matches that begin at i end: the positions after them.
Ends(pattern, text, i) ==
  {e \in (i + 1)..(Len(text) + 1) :
     /\ Describes(pattern, SubSeq(text, i, e - 1))
     /\ pattern = "card" => Boundary(text, i) /\ Boundary(text, e)}

(* `find_iter`: from left to right, each match as long as it gets, the next *)
(* one behind it.  A match is <<where it begins, where it has ended>>.      *)
Matches(pattern, text) ==
  LET from[i \in 1..(Len(text) + 1)] ==
        IF i > Len(text) THEN {}
        ELSE LET ends == Ends(pattern, text, i) IN
             IF ends = {} THEN from[i + 1] ELSE {<<i, Max(ends)>>} \cup from[Max(ends)]
  IN from[1]

RawMatches(text) == UNION {Matches(Patterns[p], text) : p \in DOMAIN Patterns}

(* The check of a card's number: the ones of two digits pass.              *)
LuhnValid(s) == Digits(s) = 2

(* One pass: what is matched, and passes the check, is replaced.           *)
Replaced(pattern, text) ==
  LET valid == {m \in Matches(pattern, text) :
                  pattern = "card" => LuhnValid(SubSeq(text, m[1], m[2] - 1))}
      from[i \in 1..(Len(text) + 1)] ==
        IF i > Len(text) THEN <<>>
        ELSE IF \E m \in valid : m[1] = i
             THEN <<"#">> \o from[(CHOOSE m \in valid : m[1] = i)[2]]
             ELSE <<text[i]>> \o from[i + 1]
  IN from[1]

(* Mutant of Redact: only the first pattern that finds anything replaces.  *)
RedactFirst(text) ==
  LET found == {p \in DOMAIN Patterns : Matches(Patterns[p], text) # {}}
  IN IF found = {} THEN text ELSE Replaced(Patterns[Min(found)], text)

Redact(text) ==
  LET after[p \in 0..Len(Patterns)] ==
        IF p = 0 THEN text ELSE Replaced(Patterns[p], after[p - 1])
  IN after[Len(Patterns)]
=============================================================================
