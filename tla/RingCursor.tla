----------------------------- MODULE RingCursor -----------------------------
(***************************************************************************)
(* The cursor of the ring buffer LockfreeQ<_Type,_Size> and the two pure   *)
(* functions that advance it.  The cursor is the only shared word of the   *)
(* queue that the code updates atomically: it says which slots are live,   *)
(* oldest first, and which slot the next push or pop may touch.            *)
(***************************************************************************)
EXTENDS Integers

CONSTANT Size      (* the template parameter _Size                         *)

ASSUME SizeAssumption == Size \in Nat \ {0}

Positions == 0 .. Size - 1

(* ~0ULL, the position safe_pop_pos returns when there is nothing to pop. *)
NoPos == -1

Cursors == [cur_start : Positions, cur_end : Positions, cur_size : 0 .. Size]

(* A default-constructed _LockfreeQImpl. *)
ZeroCursor == [cur_start |-> 0, cur_end |-> 0, cur_size |-> 0]

(* The next slot around the ring. *)
Bump(i) == IF i + 1 = Size THEN 0 ELSE i + 1

(* What _next_push tests to find the ring full. *)
IsFull(c) == c.cur_end = c.cur_start /\ c.cur_size # 0

DropOldest(c) == [c EXCEPT !.cur_size = @ - 1, !.cur_start = Bump(@)]

MakeRoom(c) == IF IsFull(c) THEN DropOldest(c) ELSE c

-----------------------------------------------------------------------------
(* A faulty variant of NextPush. *)

NextPushForgetsToDrop(c) ==
  [next |-> [c EXCEPT !.cur_end = Bump(@),
                      !.cur_size = IF IsFull(c) THEN @ ELSE @ + 1],
   at   |-> c.cur_end]

-----------------------------------------------------------------------------
(***************************************************************************)
(* A push takes the slot at cur_end.  When every slot is live it first     *)
(* gives up the oldest one, which is then the slot it takes.               *)
(***************************************************************************)
NextPush(c) ==
  LET d == MakeRoom(c)
  IN  [next |-> [d EXCEPT !.cur_end = Bump(@), !.cur_size = @ + 1],
       at   |-> d.cur_end]

(***************************************************************************)
(* A pop takes the slot at cur_start.  A pop of an empty ring returns      *)
(* NoPos and winds both cursors back to slot 0.                            *)
(***************************************************************************)
NextPop(c) ==
  IF c.cur_size = 0
  THEN [next |-> ZeroCursor, at |-> NoPos]
  ELSE [next |-> [c EXCEPT !.cur_start = Bump(@), !.cur_size = @ - 1],
        at   |-> c.cur_start]

-----------------------------------------------------------------------------
(* The slot k places after slot i. *)
Ahead(i, k) == IF i + k < Size THEN i + k ELSE i + k - Size

(***************************************************************************)
(* The two cursors and the count agree.  cur_start = cur_end is ambiguous  *)
(* without the count: empty or full.                                       *)
(***************************************************************************)
WellFormed(c) ==
  /\ c \in Cursors
  /\ c.cur_size < Size => c.cur_end = Ahead(c.cur_start, c.cur_size)
  /\ c.cur_size = Size => c.cur_end = c.cur_start

(* The slots that hold an element that was pushed and not yet claimed. *)
LiveSlots(c) == {Ahead(c.cur_start, k) : k \in 0 .. c.cur_size - 1}
=============================================================================
