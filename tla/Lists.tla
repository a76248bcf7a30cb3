-------------------------------- MODULE Lists --------------------------------
(***************************************************************************)
(* Picking out of a list, as iter().filter() does.  It is written with     *)
(* FlattenSeq and a set, because nothing can be proved of SelectSeq.       *)
(***************************************************************************)
EXTENDS Sequences, SequencesExt

\* The elements of seq that are wanted, in their order.
Only(seq, wanted) ==
  FlattenSeq([n \in DOMAIN seq |-> IF seq[n] \in wanted THEN <<seq[n]>> ELSE <<>>])
=============================================================================
