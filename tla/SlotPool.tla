------------------------------ MODULE SlotPool ------------------------------
(***************************************************************************)
(* What a classifier's session pool promises to the requests that use it,  *)
(* with no threads, sessions or futures in sight: at most Capacity         *)
(* requests hold a slot, a slot is never kept free while somebody waits,   *)
(* and waiting requests are served in the order they came.  A waiting      *)
(* request may give up; one that holds a slot keeps it until its work is   *)
(* over, whatever became of the request.                                   *)
(***************************************************************************)
EXTENDS Naturals, SequencesExt

CONSTANTS
  Requests,   \* who may ask for a slot
  Capacity    \* how many slots there are

VARIABLES
  waiting,    \* the requests waiting for a slot, oldest first
  holding     \* the requests holding one

slotVars == <<waiting, holding>>

Init == waiting = <<>> /\ holding = {}

(* A slot is free: take it.                                                *)
Enter(r) ==
  /\ r \notin holding \cup ToSet(waiting)
  /\ Cardinality(holding) < Capacity
  /\ waiting = <<>>
  /\ holding' = holding \cup {r}
  /\ UNCHANGED waiting

(* None is: get in line.                                                   *)
GetInLine(r) ==
  /\ r \notin holding \cup ToSet(waiting)
  /\ Cardinality(holding) = Capacity
  /\ waiting' = Append(waiting, r)
  /\ UNCHANGED holding

(* The slot of a request goes straight to the first in line, if any.       *)
Leave(r) ==
  /\ r \in holding
  /\ \/ /\ waiting = <<>>
        /\ holding' = holding \ {r}
        /\ UNCHANGED waiting
     \/ /\ waiting # <<>>
        /\ holding' = (holding \ {r}) \cup {Head(waiting)}
        /\ waiting' = Tail(waiting)

(* A request in line gives up; the others keep their places.               *)
Withdraw(r) ==
  /\ \E i \in DOMAIN waiting : waiting[i] = r /\ waiting' = RemoveAt(waiting, i)
  /\ UNCHANGED holding

Next == \E r \in Requests : Enter(r) \/ GetInLine(r) \/ Leave(r) \/ Withdraw(r)

Spec == Init /\ [][Next]_slotVars
=============================================================================
