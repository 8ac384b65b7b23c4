-------------------------- MODULE RingCursorProofs --------------------------
(***************************************************************************)
(* What the cursor functions do to the set of live slots, for every Size.  *)
(***************************************************************************)
EXTENDS RingCursor, TLAPS

(* The wrap tests of _next_push and _next_pop keep a cursor on the ring. *)
LEMMA RingFacts ==
  ASSUME NEW i \in Positions
  PROVE  Bump(i) \in Positions
BY SizeAssumption DEF Positions, Bump

(* A cursor is the record of its three fields. *)
LEMMA CursorFields ==
  ASSUME NEW c \in Cursors
  PROVE  /\ c.cur_start \in Positions
         /\ c.cur_end \in Positions
         /\ c.cur_size \in 0 .. Size
         /\ c = [cur_start |-> c.cur_start, cur_end |-> c.cur_end,
                 cur_size |-> c.cur_size]
BY DEF Cursors

LEMMA CursorRecord ==
  ASSUME NEW s \in Positions, NEW e \in Positions, NEW n \in 0 .. Size
  PROVE  [cur_start |-> s, cur_end |-> e, cur_size |-> n] \in Cursors
BY DEF Cursors

(* A well-formed cursor is full, by _next_push's test, exactly when it     *)
(* counts Size elements.                                                   *)
LEMMA FullFacts ==
  ASSUME NEW c, WellFormed(c)
  PROVE  IsFull(c) <=> c.cur_size = Size
<1>1. /\ c.cur_start \in Positions /\ c.cur_end \in Positions
      /\ c.cur_size \in 0 .. Size
  BY CursorFields DEF WellFormed
<1>2. CASE c.cur_size = Size
  BY <1>1, <1>2, SizeAssumption DEF WellFormed, IsFull
<1>3. CASE c.cur_size # Size
  <2>1. c.cur_size < Size /\ c.cur_end = Ahead(c.cur_start, c.cur_size)
    BY <1>1, <1>3, SizeAssumption DEF WellFormed
  <2>2. c.cur_end = c.cur_start => c.cur_size = 0
    BY <1>1, <2>1, SizeAssumption DEF Ahead, Positions
  <2> QED BY <2>2, <1>3 DEF IsFull
<1> QED BY <1>2, <1>3

(* Giving up the oldest slot of a full ring leaves a well-formed cursor    *)
(* whose end is the slot given up.                                         *)
LEMMA DropOldestFacts ==
  ASSUME NEW c, WellFormed(c), IsFull(c)
  PROVE  /\ WellFormed(DropOldest(c))
         /\ DropOldest(c).cur_size = Size - 1
         /\ DropOldest(c).cur_end = c.cur_start
         /\ DropOldest(c).cur_start = Bump(c.cur_start)
<1>1. /\ c.cur_start \in Positions /\ c.cur_end = c.cur_start
      /\ c.cur_size = Size /\ c \in Cursors
  BY FullFacts, CursorFields DEF WellFormed, IsFull
<1>2. DropOldest(c) = [cur_start |-> Bump(c.cur_start), cur_end |-> c.cur_start,
                       cur_size |-> Size - 1]
  <2> DEFINE r == [cur_start |-> c.cur_start, cur_end |-> c.cur_end,
                   cur_size |-> c.cur_size]
  <2>1. c = r
    BY <1>1, CursorFields
  <2>2. DropOldest(c) = [r EXCEPT !.cur_size = c.cur_size - 1,
                                  !.cur_start = Bump(c.cur_start)]
    BY <2>1 DEF DropOldest
  <2> QED BY <1>1, <2>2
<1>3. Bump(c.cur_start) \in Positions /\ Size - 1 \in 0 .. Size
  BY <1>1, RingFacts, SizeAssumption
<1>4. DropOldest(c) \in Cursors
  BY <1>1, <1>2, <1>3, CursorRecord
<1>5. Ahead(Bump(c.cur_start), Size - 1) = c.cur_start
  BY <1>1, SizeAssumption DEF Ahead, Bump, Positions
<1> QED BY <1>2, <1>4, <1>5, SizeAssumption DEF WellFormed

(* The cursor that _next_push goes on to move is well formed and has room. *)
LEMMA MakeRoomFacts ==
  ASSUME NEW c, WellFormed(c)
  PROVE  /\ MakeRoom(c) \in Cursors
         /\ MakeRoom(c).cur_start \in Positions
         /\ MakeRoom(c).cur_end \in Positions
         /\ MakeRoom(c).cur_size \in 0 .. Size - 1
         /\ MakeRoom(c).cur_end = Ahead(MakeRoom(c).cur_start, MakeRoom(c).cur_size)
<1>1. WellFormed(MakeRoom(c)) /\ MakeRoom(c).cur_size # Size
  BY FullFacts, DropOldestFacts, SizeAssumption DEF MakeRoom
<1>2. /\ MakeRoom(c) \in Cursors /\ MakeRoom(c).cur_start \in Positions
      /\ MakeRoom(c).cur_end \in Positions /\ MakeRoom(c).cur_size \in 0 .. Size
  BY <1>1, CursorFields DEF WellFormed
<1> QED BY <1>1, <1>2, SizeAssumption DEF WellFormed

(* _next_push: of a cursor with room, the claimed slot is the free slot    *)
(* behind the newest one and becomes the newest.                           *)
LEMMA NextPushFacts ==
  ASSUME NEW c, WellFormed(c)
  PROVE  /\ WellFormed(NextPush(c).next)
         /\ NextPush(c).at \in Positions
         /\ NextPush(c).at = Ahead(MakeRoom(c).cur_start, MakeRoom(c).cur_size)
         /\ NextPush(c).next.cur_start = MakeRoom(c).cur_start
         /\ NextPush(c).next.cur_size = MakeRoom(c).cur_size + 1
<1> DEFINE d == MakeRoom(c)
           n == NextPush(c).next
<1>1. NextPush(c).at = d.cur_end
  BY DEF NextPush, MakeRoom
<1>2. n = [d EXCEPT !.cur_end = Bump(@), !.cur_size = @ + 1]
  BY DEF NextPush, MakeRoom
<1>3. n = [cur_start |-> d.cur_start, cur_end |-> Bump(d.cur_end),
           cur_size |-> d.cur_size + 1]
  BY <1>2, MakeRoomFacts, CursorFields
<1>4. Bump(d.cur_end) \in Positions /\ d.cur_size + 1 \in 0 .. Size
  BY MakeRoomFacts, RingFacts, SizeAssumption
<1>5. n \in Cursors
  BY <1>3, <1>4, MakeRoomFacts, CursorRecord
<1>6. d.cur_size + 1 < Size => Bump(d.cur_end) = Ahead(d.cur_start, d.cur_size + 1)
  BY MakeRoomFacts, SizeAssumption DEF Ahead, Bump, Positions
<1>7. d.cur_size + 1 = Size => Bump(d.cur_end) = d.cur_start
  BY MakeRoomFacts, SizeAssumption DEF Ahead, Bump, Positions
<1>8. WellFormed(n)
  BY <1>3, <1>5, <1>6, <1>7 DEF WellFormed
<1> QED BY <1>1, <1>3, <1>8, MakeRoomFacts

(* _next_pop: an empty cursor is rewound, any other gives up its oldest    *)
(* slot.                                                                   *)
LEMMA NextPopFacts ==
  ASSUME NEW c, WellFormed(c)
  PROVE  LET n == NextPop(c).next
         IN  /\ WellFormed(n)
             /\ NextPop(c).at = NoPos <=> c.cur_size = 0
             /\ c.cur_size = 0 => n = ZeroCursor
             /\ c.cur_size # 0 => /\ NextPop(c).at = c.cur_start
                                  /\ c.cur_start \in Positions
                                  /\ n.cur_start = Bump(c.cur_start)
                                  /\ n.cur_size = c.cur_size - 1
<1>1. /\ c \in Cursors /\ c.cur_start \in Positions /\ c.cur_end \in Positions
      /\ c.cur_size \in 0 .. Size
  BY CursorFields DEF WellFormed
<1>2. CASE c.cur_size = 0
  <2>1. ZeroCursor \in Cursors
    BY SizeAssumption, CursorRecord DEF ZeroCursor, Positions
  <2>2. WellFormed(ZeroCursor)
    BY <2>1, SizeAssumption DEF WellFormed, ZeroCursor, Ahead
  <2> QED BY <1>2, <2>2 DEF NextPop
<1>3. CASE c.cur_size # 0
  <2> DEFINE n == NextPop(c).next
  <2>1. NextPop(c).at = c.cur_start
    BY <1>3 DEF NextPop
  <2>2. n = [c EXCEPT !.cur_start = Bump(@), !.cur_size = @ - 1]
    BY <1>3 DEF NextPop
  <2>3. n = [cur_start |-> Bump(c.cur_start), cur_end |-> c.cur_end,
             cur_size |-> c.cur_size - 1]
    BY <1>1, <2>2, CursorFields
  <2>4. /\ Bump(c.cur_start) \in Positions
        /\ c.cur_size - 1 \in 0 .. Size /\ c.cur_size - 1 < Size
    BY <1>1, <1>3, RingFacts, SizeAssumption
  <2>5. n \in Cursors
    BY <1>1, <2>3, <2>4, CursorRecord
  <2>6. c.cur_end = Ahead(Bump(c.cur_start), c.cur_size - 1)
    BY <1>1, <1>3, SizeAssumption DEF WellFormed, Ahead, Bump, Positions
  <2>7. WellFormed(n)
    BY <2>3, <2>4, <2>5, <2>6, SizeAssumption DEF WellFormed
  <2>8. NextPop(c).at # NoPos
    BY <1>1, <2>1, SizeAssumption DEF NoPos, Positions
  <2> QED BY <1>1, <1>3, <2>1, <2>3, <2>7, <2>8
<1> QED BY <1>2, <1>3

(* A slot that is live after a push is the one the push claimed or was     *)
(* live before.                                                            *)
LEMMA LiveAfterPush ==
  ASSUME NEW c, WellFormed(c), NEW i \in LiveSlots(NextPush(c).next),
         i # NextPush(c).at
  PROVE  i \in LiveSlots(c)
<1>1. PICK k \in 0 .. MakeRoom(c).cur_size : i = Ahead(MakeRoom(c).cur_start, k)
  BY NextPushFacts, MakeRoomFacts DEF LiveSlots
<1>2. k \in 0 .. MakeRoom(c).cur_size - 1
  BY <1>1, NextPushFacts, MakeRoomFacts
<1>3. CASE IsFull(c)
  <2>1. /\ i = Ahead(Bump(c.cur_start), k) /\ k \in 0 .. Size - 2
        /\ c.cur_size = Size /\ c.cur_start \in Positions
    BY <1>1, <1>2, <1>3, FullFacts, DropOldestFacts, CursorFields, SizeAssumption
       DEF MakeRoom, WellFormed
  <2>2. i = Ahead(c.cur_start, k + 1) /\ k + 1 \in 0 .. c.cur_size - 1
    BY <2>1, SizeAssumption DEF Ahead, Bump, Positions
  <2> QED BY <2>2 DEF LiveSlots
<1>4. CASE ~IsFull(c)
  BY <1>1, <1>2, <1>4 DEF MakeRoom, LiveSlots
<1> QED BY <1>3, <1>4

(* A pop of a non-empty ring ends the life of the slot it claims; the      *)
(* other slots live on.                                                    *)
LEMMA LiveAfterPop ==
  ASSUME NEW c, WellFormed(c), c.cur_size # 0
  PROVE  /\ NextPop(c).at \in LiveSlots(c)
         /\ NextPop(c).at \notin LiveSlots(NextPop(c).next)
         /\ LiveSlots(NextPop(c).next) \subseteq LiveSlots(c)
<1>1. /\ c.cur_start \in Positions /\ c.cur_size \in 1 .. Size
      /\ NextPop(c).at = c.cur_start
      /\ NextPop(c).next.cur_start = Bump(c.cur_start)
      /\ NextPop(c).next.cur_size = c.cur_size - 1
  BY NextPopFacts, CursorFields, SizeAssumption DEF WellFormed
<1>2. Ahead(c.cur_start, 0) = c.cur_start /\ 0 \in 0 .. c.cur_size - 1
  BY <1>1, SizeAssumption DEF Ahead, Positions
<1>3. ASSUME NEW k \in 0 .. c.cur_size - 2
      PROVE  /\ Ahead(Bump(c.cur_start), k) = Ahead(c.cur_start, k + 1)
             /\ k + 1 \in 0 .. c.cur_size - 1
             /\ Ahead(Bump(c.cur_start), k) # c.cur_start
  BY <1>1, <1>3, SizeAssumption DEF Ahead, Bump, Positions
<1>4. LiveSlots(NextPop(c).next) = {Ahead(Bump(c.cur_start), k) : k \in 0 .. c.cur_size - 2}
  BY <1>1 DEF LiveSlots
<1> QED BY <1>1, <1>2, <1>3, <1>4 DEF LiveSlots

(* A push takes nothing out of the ring but, when it is full, the oldest   *)
(* slot, and the slot it claims is live.                                   *)
LEMMA LiveThroughPush ==
  ASSUME NEW c, WellFormed(c)
  PROVE  /\ NextPush(c).at \in LiveSlots(NextPush(c).next)
         /\ \A i \in LiveSlots(c) :
              \/ i \in LiveSlots(NextPush(c).next) /\ i # NextPush(c).at
              \/ IsFull(c) /\ i = c.cur_start
         /\ IsFull(c) => c.cur_start \in LiveSlots(c)
<1> DEFINE d == MakeRoom(c)
           n == NextPush(c).next
<1>1. /\ d.cur_start \in Positions /\ d.cur_size \in 0 .. Size - 1
      /\ NextPush(c).at = Ahead(d.cur_start, d.cur_size)
      /\ n.cur_start = d.cur_start /\ n.cur_size = d.cur_size + 1
  BY MakeRoomFacts, NextPushFacts
<1>2. LiveSlots(n) = {Ahead(d.cur_start, k) : k \in 0 .. d.cur_size}
  BY <1>1 DEF LiveSlots
<1>3. NextPush(c).at \in LiveSlots(n)
  BY <1>1, <1>2
<1>4. ASSUME NEW k \in 0 .. d.cur_size - 1
      PROVE  Ahead(d.cur_start, k) \in LiveSlots(n) /\ Ahead(d.cur_start, k) # NextPush(c).at
  <2>1. Ahead(d.cur_start, k) \in LiveSlots(n)
    BY <1>1, <1>2
  <2>2. Ahead(d.cur_start, k) # Ahead(d.cur_start, d.cur_size)
    BY <1>1, SizeAssumption DEF Ahead, Positions
  <2> QED BY <1>1, <2>1, <2>2
<1>5. CASE IsFull(c)
  <2>1. /\ d.cur_start = Bump(c.cur_start) /\ d.cur_size = Size - 1
        /\ c.cur_size = Size /\ c.cur_start \in Positions
    BY <1>5, FullFacts, DropOldestFacts, CursorFields DEF MakeRoom, WellFormed
  <2>2. ASSUME NEW k \in 1 .. Size - 1
        PROVE  Ahead(c.cur_start, k) = Ahead(d.cur_start, k - 1)
    BY <2>1, SizeAssumption DEF Ahead, Bump, Positions
  <2>3. Ahead(c.cur_start, 0) = c.cur_start
    BY <2>1, SizeAssumption DEF Ahead, Positions
  <2>4. ASSUME NEW i \in LiveSlots(c), i # c.cur_start
        PROVE  i \in LiveSlots(n) /\ i # NextPush(c).at
    <3>1. PICK k \in 0 .. c.cur_size - 1 : i = Ahead(c.cur_start, k)
      BY DEF LiveSlots
    <3>2. k \in 1 .. Size - 1
      BY <2>1, <2>3, <2>4, <3>1
    <3>3. k - 1 \in 0 .. d.cur_size - 1
      BY <2>1, <3>2, SizeAssumption
    <3> QED BY <1>4, <2>2, <3>1, <3>2, <3>3
  <2>5. c.cur_start \in LiveSlots(c)
    BY <2>1, <2>3, SizeAssumption DEF LiveSlots
  <2> QED BY <1>3, <1>5, <2>4, <2>5
<1>6. CASE ~IsFull(c)
  <2>1. LiveSlots(c) = {Ahead(d.cur_start, k) : k \in 0 .. d.cur_size - 1}
    BY <1>6 DEF MakeRoom, LiveSlots
  <2> QED BY <1>3, <1>4, <1>6, <2>1
<1> QED BY <1>5, <1>6

(* A pop takes nothing out of the ring but the slot it claims. *)
LEMMA LiveThroughPop ==
  ASSUME NEW c, WellFormed(c), c.cur_size # 0, NEW i \in LiveSlots(c), i # NextPop(c).at
  PROVE  i \in LiveSlots(NextPop(c).next)
<1>1. /\ c.cur_start \in Positions /\ c.cur_size \in 1 .. Size
      /\ NextPop(c).at = c.cur_start
      /\ NextPop(c).next.cur_start = Bump(c.cur_start)
      /\ NextPop(c).next.cur_size = c.cur_size - 1
  BY NextPopFacts, CursorFields, SizeAssumption DEF WellFormed
<1>2. PICK k \in 0 .. c.cur_size - 1 : i = Ahead(c.cur_start, k)
  BY DEF LiveSlots
<1>3. k # 0
  BY <1>1, <1>2, SizeAssumption DEF Ahead, Positions
<1>4. i = Ahead(Bump(c.cur_start), k - 1) /\ k - 1 \in 0 .. c.cur_size - 2
  BY <1>1, <1>2, <1>3, SizeAssumption DEF Ahead, Bump, Positions
<1> QED BY <1>1, <1>4 DEF LiveSlots

(* Nothing is live in a rewound or cleared ring. *)
LEMMA NothingLive ==
  LiveSlots(ZeroCursor) = {}
BY DEF LiveSlots, ZeroCursor

(* Live slots are slots. *)
LEMMA LiveArePositions ==
  ASSUME NEW c, WellFormed(c)
  PROVE  LiveSlots(c) \subseteq Positions
<1>1. c.cur_start \in Positions /\ c.cur_size \in 0 .. Size
  BY CursorFields DEF WellFormed
<1> QED BY <1>1, SizeAssumption DEF LiveSlots, Ahead, Positions
=============================================================================
