----------------------------- MODULE MCPiiStream -----------------------------
(* Instances of PiiStream for TLC.                                         *)
EXTENDS PiiStream

\* Pieces that complete, extend, join and separate matches.
Fragments == {<<"d">>, <<"d", " ">>, <<"@", "t">>, <<"B", " ">>}

\* An e-mail address and the digits that follow it.
NumberFragments == {<<"d", "@", "t">>, <<"d", " ">>}
=============================================================================
