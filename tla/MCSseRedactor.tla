---------------------------- MODULE MCSseRedactor ----------------------------
(* Instances of SseRedactor for TLC.                                       *)
EXTENDS SseRedactor

Two == {0, 1}

Chunk(a, b) == [i \in Two |-> IF i = 0 THEN a ELSE b]

\* A text for one choice, for both, and ends with, without and beside a text.
SomeChunks == {
  Chunk("text", "absent"), Chunk("text", "text"), Chunk("end", "text"),
  Chunk("text and end", "absent"), Chunk("absent", "end")}
=============================================================================
