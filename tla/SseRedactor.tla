----------------------------- MODULE SseRedactor -----------------------------
(***************************************************************************)
(* SseRedactor of guardrail-proxy/src/sse.rs, as redacting_sse_body of     *)
(* handler.rs drives it: events are put together from the bytes of the     *)
(* upstream, their text goes through one streaming redactor per index and  *)
(* leaves with them or in events of its own.                               *)
(*                                                                         *)
(* The text that event k brings for an index is the number k.  What a      *)
(* streaming redactor lets go is any first part of what it holds; what it  *)
(* replaces is the matter of PiiStream.  Events are told apart by what the *)
(* code does with them; fields it copies are left out.                     *)
(***************************************************************************)
EXTENDS Integers, Sequences, SequencesExt

CONSTANTS
  MaxIndex,   \* bound on the indices
  Indices,    \* indices of choices (OpenAI) or content blocks (Anthropic)
  Chunks,     \* what OpenAI chunks hold: functions from Indices to ChoiceKinds
  MaxEvents   \* bound on the events of a stream

ChoiceKinds == {"absent", "text", "end", "text and end"}

ASSUME SseAssumption ==
  /\ MaxIndex \in Nat /\ Indices \subseteq 0..MaxIndex
  /\ Chunks \subseteq [Indices -> ChoiceKinds]
  /\ MaxEvents \in Nat

NoChoice == [i \in Indices |-> "absent"]

(* The events of an upstream: `other` stands for comments, other types and  *)
(* data that is no JSON, `scalar` for JSON data that is no object.          *)
Events(format) ==
  LET event(kind, choices, index) == [kind |-> kind, choices |-> choices, index |-> index] IN
  {event(kind, NoChoice, -1) : kind \in {"done", "other", "scalar"}} \cup
  IF format = "openai" THEN {event("chunk", c, -1) : c \in Chunks}
  ELSE {event(kind, NoChoice, i) : kind \in {"delta", "stop"}, i \in Indices}

VARIABLES
  format,  \* SseRedactor.format
  stream,  \* the events the upstream would send
  ending,  \* how it ends their lines
  pos,     \* how many of its bytes have come
  buf,     \* SseRedactor.buf
  held,    \* SseRedactor.streams: the text each index holds back
  made,    \* `out` of `push`: what it has written and not returned yet
  out,     \* what was returned for the client, as events
  tail,    \* bytes sent to the client that are no whole event
  over     \* how the response ended

sseVars == <<format, stream, ending, pos, buf, held, made, out, tail, over>>

-----------------------------------------------------------------------------
(* Bytes, as far as events are told apart by them.                         *)

NL == <<"nl", 0>>
CR == <<"cr", 0>>

\* An event of two lines, and the empty line.
Bytes(k) ==
  LET line == <<"event", k>>
  IN IF ending = "crlf" THEN <<line, CR, NL, line, CR, NL, CR, NL>> ELSE <<line, NL, line, NL, NL>>

Wire == FlattenSeq([k \in DOMAIN stream |-> Bytes(k)])

\* `find_event_end`: where an event ends, and the length of what separates it.
Separator(b, i, len) ==
  \/ len = 2 /\ b[i] = NL /\ b[i + 1] = NL
  \/ len = 3 /\ b[i] = NL /\ b[i + 1] = CR /\ b[i + 2] = NL

\* Mutant of EventEnds: an empty line that ends with a carriage return is none.
EventEndsAtLF(b) == {i \in 1..(Len(b) - 1) : Separator(b, i, 2)}

EventEnds(b) == {i \in 1..(Len(b) - 1) : \E len \in {2, 3} : i + len - 1 <= Len(b) /\ Separator(b, i, len)}

FirstEnd(b) == CHOOSE i \in EventEnds(b) : \A j \in EventEnds(b) : i <= j

AfterEvent(b) ==
  LET len == CHOOSE n \in {2, 3} : FirstEnd(b) + n - 1 <= Len(b) /\ Separator(b, FirstEnd(b), n)
  IN SubSeq(b, FirstEnd(b) + len, Len(b))

-----------------------------------------------------------------------------
(* What is sent.                                                           *)

NoText == [i \in Indices |-> <<>>]

\* An event of the upstream, with the text it now has; 0 for one of our own.
Sent(k, text) == [event |-> k, text |-> text]

Synthetic(i) == Sent(0, [NoText EXCEPT ![i] = held[i]])

\* `flush_into` for each index, the smallest first.
Flushed(indices) ==
  LET flushed(i) == IF i \in indices /\ held[i] # <<>> THEN <<Synthetic(i)>> ELSE <<>>
  IN FlattenSeq([n \in 1..(MaxIndex + 1) |-> flushed(n - 1)])

Emptied(indices) == [i \in Indices |-> IF i \in indices THEN <<>> ELSE held[i]]

HasText(event, i) ==
  \/ event.kind = "chunk" /\ event.choices[i] \in {"text", "text and end"}
  \/ event.kind = "delta" /\ event.index = i

\* The event is the last the client needs for the text of i.
Finishes(event, i) ==
  \/ event.kind = "chunk" /\ event.choices[i] \in {"end", "text and end"}
  \/ event.kind = "stop" /\ event.index = i
  \/ event.kind = "done"

Incoming(k) == [i \in Indices |-> IF HasText(stream[k], i) THEN <<k>> ELSE <<>>]

-----------------------------------------------------------------------------
(* `push`: bytes come; each whole event is rewritten, one step each; then   *)
(* what was made of them is returned.                                      *)

\* No `push` is under way.
Idle == over = "no" /\ EventEnds(buf) = {} /\ made = <<>>

Push ==
  /\ Idle
  /\ \E upto \in (pos + 1)..Len(Wire) :
       /\ buf' = buf \o SubSeq(Wire, pos + 1, upto)
       /\ pos' = upto
  /\ UNCHANGED <<format, stream, ending, held, made, out, tail, over>>

\* Events that make nothing need no return: the body waits for more bytes.
Return ==
  /\ over = "no" /\ EventEnds(buf) = {} /\ made # <<>>
  /\ out' = out \o made
  /\ made' = <<>>
  /\ UNCHANGED <<format, stream, ending, pos, buf, held, tail, over>>

\* `rewrite_event` of the event k with the given kind.
Take(k, kinds) ==
  /\ over = "no" /\ EventEnds(buf) # {}
  /\ k = buf[1][2] /\ stream[k].kind \in kinds
  /\ buf' = AfterEvent(buf)
  /\ UNCHANGED <<format, stream, ending, pos, out, tail>>

PassThrough(k) ==
  /\ Take(k, IF format = "openai" THEN {"other"} ELSE {"other", "scalar"})
  /\ made' = Append(made, Sent(k, NoText))
  /\ UNCHANGED <<held, over>>

\* Indexing JSON that is no object with "choices" panics: what the same `push`
\* made of the events before is discarded with its locals.
Panic(k) ==
  /\ format = "openai" /\ Take(k, {"scalar"})
  /\ over' = "panicked"
  /\ made' = <<>>
  /\ UNCHANGED held

\* Mutant of Done: the client is told that all is said, and then the rest.
DoneFirst(k) ==
  /\ Take(k, {"done"})
  /\ made' = Append(made, Sent(k, NoText)) \o Flushed(Indices)
  /\ held' = NoText
  /\ UNCHANGED over

Done(k) ==
  /\ Take(k, {"done"})
  /\ made' = Append(made \o Flushed(Indices), Sent(k, NoText))
  /\ held' = NoText
  /\ UNCHANGED over

(* `rewrite_openai`.  A choice that finishes lets everything go; a text     *)
(* lets some of it go.  When no choice has another text than it came with,  *)
(* the event goes on as it came.                                           *)
All(k, i) == held[i] \o Incoming(k)[i]

Keeps(k) ==
  {keep \in [Indices -> 0..MaxEvents] :
     \A i \in Indices :
       IF Finishes(stream[k], i) THEN keep[i] = 0
       ELSE IF HasText(stream[k], i) THEN keep[i] <= Len(All(k, i))
       ELSE keep[i] = Len(held[i])}

Freed(k, keep) == [i \in Indices |-> SubSeq(All(k, i), 1, Len(All(k, i)) - keep[i])]

\* Mutant of Changed: only the choice with the highest index is looked at.
ChangedLast(k, freed) ==
  LET last == CHOOSE i \in Indices : \A j \in Indices : j <= i
  IN freed[last] # Incoming(k)[last]

Changed(k, freed) == \E i \in Indices : freed[i] # Incoming(k)[i]

Rewrite(k) ==
  /\ Take(k, {"chunk", "delta"})
  /\ \E keep \in Keeps(k) :
       /\ held' = [i \in Indices |-> SubSeq(All(k, i), Len(All(k, i)) - keep[i] + 1, Len(All(k, i)))]
       /\ made' = Append(made, Sent(k, IF Changed(k, Freed(k, keep)) THEN Freed(k, keep) ELSE Incoming(k)))
  /\ UNCHANGED over

\* A content block stops: its text goes before.
StopBlock(k) ==
  /\ Take(k, {"stop"})
  /\ LET i == stream[k].index IN
       /\ made' = Append(made \o Flushed({i}), Sent(k, NoText))
       /\ held' = Emptied({i})
  /\ UNCHANGED over

-----------------------------------------------------------------------------
(* The end of the upstream: `finish`, or an error, which ends the response  *)
(* as it is.                                                               *)

\* Mutant of Finish: the last bytes go before the text that was held.
FinishUnflushed ==
  /\ Idle
  /\ tail' = buf /\ buf' = <<>>
  /\ over' = "finished"
  /\ UNCHANGED <<format, stream, ending, pos, held, made, out>>

Finish ==
  /\ Idle
  /\ out' = out \o Flushed(Indices)
  /\ held' = NoText
  /\ tail' = buf /\ buf' = <<>>
  /\ over' = "finished"
  /\ UNCHANGED <<format, stream, ending, pos, made>>

Fail ==
  /\ Idle
  /\ over' = "failed"
  /\ UNCHANGED <<format, stream, ending, pos, buf, held, made, out, tail>>

SseInit ==
  /\ format \in {"openai", "anthropic"} /\ ending \in {"lf", "crlf"}
  /\ stream \in UNION {[1..n -> Events(format)] : n \in 0..MaxEvents}
  /\ pos = 0 /\ buf = <<>>
  /\ held = NoText
  /\ made = <<>> /\ out = <<>> /\ tail = <<>>
  /\ over = "no"

HandleEvent ==
  \E k \in DOMAIN stream :
    PassThrough(k) \/ Panic(k) \/ Done(k) \/ Rewrite(k) \/ StopBlock(k)

SseNext == Push \/ HandleEvent \/ Return \/ Finish \/ Fail

SseSpec == SseInit /\ [][SseNext]_sseVars

-----------------------------------------------------------------------------
Text(events, i) == FlattenSeq([n \in DOMAIN events |-> events[n].text[i]])

\* The text that the first n events brought for i.
Brought(n, i) == FlattenSeq([k \in 1..n |-> Incoming(k)[i]])

\* The events of the upstream among those sent.
Originals(events) ==
  FlattenSeq([n \in DOMAIN events |-> IF events[n].event = 0 THEN <<>> ELSE <<events[n].event>>])

\* Events of which every byte has come.
Whole == pos \div Len(Bytes(1))

\* What the client has been given or is about to be.
Rewritten == out \o made

(* The events of the upstream leave once each and in its order, and after   *)
(* each `push` none that is whole is left, however the bytes were split.    *)
EventsInOrder ==
  /\ \A n \in DOMAIN Originals(Rewritten) : Originals(Rewritten)[n] = n
  /\ EventEnds(buf) = {} /\ made = <<>> /\ over # "panicked" => Len(Originals(out)) = Whole

(* The client never has anything but a first part of what came for an       *)
(* index, nothing doubled, out of order or of another index; and nothing is *)
(* lost, what was written and what is held being all that came, unless      *)
(* `push` panicked, which discards both.                                   *)
TextKept ==
  \A i \in Indices :
    /\ IsPrefix(Text(out, i), Brought(Len(Originals(out)), i))
    /\ over # "panicked" => Text(Rewritten, i) \o held[i] = Brought(Len(Originals(Rewritten)), i)

(* The text of an index is with the client when it is told that no more     *)
(* comes: with the finish_reason, or before content_block_stop or [DONE].   *)
TextBeforeEnd ==
  \A n \in DOMAIN out : out[n].event # 0 =>
    \A i \in Indices :
      Finishes(stream[out[n].event], i) => Text(SubSeq(out, 1, n), i) = Brought(out[n].event, i)

(* A response that ends with its upstream leaves nothing behind: all text   *)
(* is sent, and then the bytes of the event that never became whole.        *)
EndedInFull ==
  over = "finished" =>
    /\ \A i \in Indices : Text(out, i) = Brought(Whole, i)
    /\ tail = SubSeq(Wire, Whole * Len(Bytes(1)) + 1, pos)

(* "Everything else (other fields, other event types, tool-call arguments,  *)
(* comments, unparseable data) is forwarded byte for byte" (sse.rs): no     *)
(* event that is whole is missing, whatever its data.                      *)
EverythingForwarded == EventEnds(buf) = {} /\ made = <<>> => Len(Originals(out)) = Whole
=============================================================================
