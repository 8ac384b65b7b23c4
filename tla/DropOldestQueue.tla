--------------------------- MODULE DropOldestQueue ---------------------------
(***************************************************************************)
(* What LockfreeQ promises about the order of its elements: a bounded FIFO *)
(* queue in which an element put into a full queue pushes the oldest one   *)
(* out, and from which a consumer takes the oldest element in one          *)
(* indivisible step.  claim[t] is the element that consumer t has taken    *)
(* and not yet finished with.                                              *)
(***************************************************************************)
EXTENDS Naturals, Sequences

CONSTANTS Capacity,   (* the number of elements the queue can hold         *)
          Threads,    (* the threads that use it                           *)
          Items,      (* the elements                                      *)
          NoItem      (* claim[t] of a thread that holds no element        *)

VARIABLES queue, claim

vars == <<queue, claim>>

Init ==
  /\ queue = << >>
  /\ claim = [t \in Threads |-> NoItem]

Put(x) ==
  /\ queue' = Append(IF Len(queue) = Capacity THEN Tail(queue) ELSE queue, x)
  /\ UNCHANGED claim

Take(t) ==
  /\ queue # << >>
  /\ claim[t] = NoItem
  /\ claim' = [claim EXCEPT ![t] = Head(queue)]
  /\ queue' = Tail(queue)

Finish(t) ==
  /\ claim' = [claim EXCEPT ![t] = NoItem]
  /\ UNCHANGED queue

Discard ==
  /\ queue' = << >>
  /\ UNCHANGED claim

Next ==
  \/ \E x \in Items : Put(x)
  \/ \E t \in Threads : Take(t) \/ Finish(t)
  \/ Discard

Spec == Init /\ [][Next]_vars
=============================================================================
