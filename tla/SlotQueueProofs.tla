--------------------------- MODULE SlotQueueProofs ---------------------------
(***************************************************************************)
(* UndisturbedClaimsDeliver is inductive, for every Size and any number of *)
(* threads and values; with it LiveSlotsIntact, SharedOnlyIfHazy and       *)
(* DeliversWhatItClaimed hold, and SlotQueue implements DropOldestQueue.   *)
(***************************************************************************)
EXTENDS SlotQueue, RingCursorProofs, SequenceTheorems

(* An empty queue with no claims in flight is consistent. *)
LEMMA InitConsistent ==
  Init => UndisturbedClaimsDeliver
<1> SUFFICES ASSUME Init PROVE UndisturbedClaimsDeliver
  OBVIOUS
<1> USE DEF Init
<1>1. LiveSlots(impl) = {}
  BY NothingLive
<1>2. WellFormed(impl) /\ impl \in Cursors
  <2>1. ZeroCursor \in Cursors
    BY SizeAssumption, CursorRecord DEF ZeroCursor, Positions
  <2> QED BY <2>1, SizeAssumption DEF WellFormed, ZeroCursor, Ahead
<1>3. TypeOK
  BY <1>2 DEF TypeOK, Elements
<1>4. \A i \in Positions : InFlight(i) = {}
  BY DEF InFlight, Copying, Moving
<1> QED
  BY <1>1, <1>2, <1>3, <1>4
     DEF UndisturbedClaimsDeliver, ClaimsInRange, LiveAreOwed, PendingWrites,
         PendingReads, RacedAreHazy, LiveSlotsIntact, SharedOnlyIfHazy, Moving

-----------------------------------------------------------------------------
(* A push claims its slot.  The slot is the only one that becomes live,    *)
(* and it is marked hazy if another claim of it is unfinished.             *)
LEMMA PushClaimKeeps ==
  ASSUME UndisturbedClaimsDeliver, NEW t \in Threads, NEW v \in Values,
         PushClaim(t, v)
  PROVE  UndisturbedClaimsDeliver'
<1> DEFINE at == NextPush(impl).at
<1>1. /\ qpc[t] = "idle"
      /\ impl' = NextPush(impl).next
      /\ pos' = [pos EXCEPT ![t] = at]
      /\ val' = [val EXCEPT ![t] = v]
      /\ owed' = [owed EXCEPT ![at] = v]
      /\ hazy' = IF InFlight(at) = {} THEN hazy \ {at} ELSE hazy \cup {at}
      /\ qpc' = [qpc EXCEPT ![t] = "push_copy"]
      /\ UNCHANGED <<data, raced, due>>
  BY DEF PushClaim, Goto
<1>2. WellFormed(impl) /\ TypeOK
  BY DEF UndisturbedClaimsDeliver
<1>3. at \in Positions /\ WellFormed(impl')
  BY <1>1, <1>2, NextPushFacts
<1>4. ASSUME NEW i \in LiveSlots(impl'), i # at
      PROVE  i \in LiveSlots(impl)
  BY <1>1, <1>2, <1>4, LiveAfterPush
<1>5. LiveSlots(impl') \subseteq Positions
  BY <1>3, LiveArePositions
<1>6. \A i \in Positions : InFlight(i)' = IF i = at THEN InFlight(i) \cup {t} ELSE InFlight(i)
  BY <1>1, <1>2, <1>3 DEF InFlight, TypeOK, Copying, Moving
<1>7. TypeOK'
  BY <1>1, <1>2, <1>3 DEF TypeOK, Elements, WellFormed, Copying, Moving
<1>8. ClaimsInRange'
  BY <1>1, <1>2, <1>3 DEF UndisturbedClaimsDeliver, ClaimsInRange, TypeOK
<1>9. LiveAreOwed'
  BY <1>1, <1>2, <1>3, <1>4 DEF UndisturbedClaimsDeliver, LiveAreOwed, TypeOK
<1>10. PendingWrites'
  BY <1>1, <1>2, <1>3, <1>4, <1>5, <1>6
     DEF UndisturbedClaimsDeliver, PendingWrites, TypeOK, Copying
<1>11. PendingReads'
  BY <1>1, <1>2, <1>3 DEF UndisturbedClaimsDeliver, PendingReads, TypeOK, InFlight, Moving
<1>12. RacedAreHazy'
  BY <1>1, <1>2, <1>3
     DEF UndisturbedClaimsDeliver, RacedAreHazy, TypeOK, InFlight, Copying, Moving
<1>13. LiveSlotsIntact'
  BY <1>1, <1>2, <1>3, <1>4, <1>5, <1>6
     DEF UndisturbedClaimsDeliver, LiveSlotsIntact, TypeOK
<1>14. SharedOnlyIfHazy'
  BY <1>1, <1>2, <1>3, <1>6 DEF UndisturbedClaimsDeliver, SharedOnlyIfHazy, TypeOK
<1> QED
  BY <1>3, <1>7, <1>8, <1>9, <1>10, <1>11, <1>12, <1>13, <1>14
     DEF UndisturbedClaimsDeliver

(* A pop claims the oldest live slot, which stops being live. *)
LEMMA PopClaimKeeps ==
  ASSUME UndisturbedClaimsDeliver, NEW t \in Threads, PopClaim(t)
  PROVE  UndisturbedClaimsDeliver'
<1> DEFINE at == NextPop(impl).at
<1>1. /\ qpc[t] = "idle" /\ at # NoPos
      /\ impl' = NextPop(impl).next
      /\ pos' = [pos EXCEPT ![t] = at]
      /\ val' = [val EXCEPT ![t] = Empty]
      /\ due' = [due EXCEPT ![t] = owed[at]]
      /\ owed' = [owed EXCEPT ![at] = Empty]
      /\ hazy' = IF InFlight(at) = {} THEN hazy ELSE hazy \cup {at}
      /\ qpc' = [qpc EXCEPT ![t] = "pop_got"]
      /\ UNCHANGED <<data, raced>>
  BY DEF PopClaim, Goto
<1>2. WellFormed(impl) /\ TypeOK
  BY DEF UndisturbedClaimsDeliver
<1>3. impl.cur_size # 0 /\ WellFormed(impl')
  BY <1>1, <1>2, NextPopFacts
<1>4. /\ at \in LiveSlots(impl) /\ at \notin LiveSlots(impl')
      /\ LiveSlots(impl') \subseteq LiveSlots(impl)
      /\ LiveSlots(impl) \subseteq Positions
      /\ at \in Positions
  BY <1>1, <1>2, <1>3, LiveAfterPop, LiveArePositions
<1>5. \A i \in Positions : InFlight(i)' = IF i = at THEN InFlight(i) \cup {t} ELSE InFlight(i)
  BY <1>1, <1>2, <1>4 DEF InFlight, TypeOK, Copying, Moving
<1>6. owed[at] \in Values
  BY <1>4 DEF UndisturbedClaimsDeliver, LiveAreOwed
<1>7. TypeOK'
  BY <1>1, <1>2, <1>3, <1>4, <1>6 DEF TypeOK, Elements, WellFormed, Copying, Moving
<1>8. ClaimsInRange'
  BY <1>1, <1>2, <1>4 DEF UndisturbedClaimsDeliver, ClaimsInRange, TypeOK
<1>9. LiveAreOwed'
  BY <1>1, <1>2, <1>4 DEF UndisturbedClaimsDeliver, LiveAreOwed, TypeOK
<1>10. PendingWrites'
  BY <1>1, <1>2, <1>4, <1>5
     DEF UndisturbedClaimsDeliver, PendingWrites, TypeOK, InFlight, Copying, Moving
<1>11. PendingReads'
  <2>1. InFlight(at) = {} /\ at \notin hazy => data[at] = owed[at]
    BY <1>4 DEF UndisturbedClaimsDeliver, LiveSlotsIntact
  <2> QED
    BY <1>1, <1>2, <1>4, <2>1
       DEF UndisturbedClaimsDeliver, PendingReads, TypeOK, InFlight, Moving
<1>12. RacedAreHazy'
  BY <1>1, <1>2, <1>4 DEF UndisturbedClaimsDeliver, RacedAreHazy, TypeOK
<1>13. LiveSlotsIntact'
  BY <1>1, <1>2, <1>4, <1>5 DEF UndisturbedClaimsDeliver, LiveSlotsIntact, TypeOK
<1>14. SharedOnlyIfHazy'
  BY <1>1, <1>2, <1>4, <1>5 DEF UndisturbedClaimsDeliver, SharedOnlyIfHazy, TypeOK
<1> QED
  BY <1>3, <1>7, <1>8, <1>9, <1>10, <1>11, <1>12, <1>13, <1>14
     DEF UndisturbedClaimsDeliver

(* A rewound ring, by a pop that found nothing or by clear, has no live    *)
(* slots; the claims in flight are as they were.                           *)
LEMMA RewindKeeps ==
  ASSUME UndisturbedClaimsDeliver, impl' = ZeroCursor,
         UNCHANGED <<data, qpc, pos, val, raced, owed, due, hazy>>
  PROVE  UndisturbedClaimsDeliver'
<1>1. LiveSlots(impl') = {}
  BY NothingLive
<1>2. WellFormed(impl') /\ impl' \in Cursors
  <2>1. ZeroCursor \in Cursors
    BY SizeAssumption, CursorRecord DEF ZeroCursor, Positions
  <2> QED BY <2>1, SizeAssumption DEF WellFormed, ZeroCursor, Ahead
<1>3. TypeOK'
  BY <1>2 DEF UndisturbedClaimsDeliver, TypeOK
<1> QED
  BY <1>1, <1>2, <1>3
     DEF UndisturbedClaimsDeliver, ClaimsInRange, LiveAreOwed, PendingWrites,
         PendingReads, RacedAreHazy, LiveSlotsIntact, SharedOnlyIfHazy, InFlight

LEMMA PopNothingKeeps ==
  ASSUME UndisturbedClaimsDeliver, NEW t \in Threads, PopNothing(t)
  PROVE  UndisturbedClaimsDeliver'
<1>1. impl' = ZeroCursor
  BY NextPopFacts DEF PopNothing, UndisturbedClaimsDeliver
<1> QED BY <1>1, RewindKeeps DEF PopNothing

(* An access begins; if it overlaps another one, both are on one slot, so  *)
(* the slot is hazy.                                                       *)
LEMMA BeginKeeps ==
  ASSUME UndisturbedClaimsDeliver, NEW t \in Threads, BeginCopy(t) \/ BeginMove(t)
  PROVE  UndisturbedClaimsDeliver'
<1>1. /\ qpc' = [qpc EXCEPT ![t] = IF BeginCopy(t) THEN "push_write" ELSE "pop_move"]
      /\ qpc[t] = IF BeginCopy(t) THEN "push_copy" ELSE "pop_got"
      /\ raced' = RacedWith(t)
      /\ UNCHANGED <<impl, data, pos, val, owed, due, hazy>>
  BY DEF BeginCopy, BeginMove, Goto
<1>2. TypeOK /\ WellFormed(impl) /\ pos[t] \in Positions
  BY <1>1 DEF UndisturbedClaimsDeliver, ClaimsInRange
<1>3. \A i \in Positions : InFlight(i)' = InFlight(i)
  BY <1>1, <1>2 DEF InFlight, TypeOK, Copying, Moving
<1>4. TypeOK'
  BY <1>1, <1>2 DEF TypeOK, RacedWith, Touching, Copying, Moving
<1>5. RacedAreHazy'
  <2>1. \A u \in Touching(pos[t]) : u \in InFlight(pos[t]) /\ u # t
    BY <1>1, <1>2 DEF Touching, InFlight, TypeOK, Copying, Moving
  <2>2. t \in InFlight(pos[t])
    BY <1>1, <1>2 DEF InFlight, Copying, Moving
  <2>3. Touching(pos[t]) # {} => pos[t] \in hazy
    BY <1>2, <2>1, <2>2 DEF UndisturbedClaimsDeliver, SharedOnlyIfHazy
  <2> QED
    BY <1>1, <1>2, <2>3
       DEF UndisturbedClaimsDeliver, RacedAreHazy, RacedWith, Touching, TypeOK
<1>6. LiveSlots(impl) \subseteq Positions
  BY <1>2, LiveArePositions
<1>7. ClaimsInRange' /\ LiveAreOwed' /\ LiveSlotsIntact' /\ SharedOnlyIfHazy'
  BY <1>1, <1>2, <1>3, <1>6
     DEF UndisturbedClaimsDeliver, ClaimsInRange, LiveAreOwed, LiveSlotsIntact,
         SharedOnlyIfHazy, TypeOK
<1>8. PendingWrites' /\ PendingReads'
  BY <1>1, <1>2, <1>3, <1>6
     DEF UndisturbedClaimsDeliver, PendingWrites, PendingReads, TypeOK, Copying, Moving
<1> QED
  BY <1>1, <1>2, <1>4, <1>5, <1>7, <1>8 DEF UndisturbedClaimsDeliver

(* A push finishes its write.  On a slot that is not hazy it is alone, so  *)
(* it writes its argument, which is what the slot is owed if it is live.   *)
LEMMA EndCopyKeeps ==
  ASSUME UndisturbedClaimsDeliver, NEW t \in Threads, EndCopy(t)
  PROVE  UndisturbedClaimsDeliver'
<1> DEFINE at == pos[t]
<1>1. PICK v \in IF t \in raced THEN Mixed(at) ELSE {val[t]} :
        data' = [data EXCEPT ![at] = v]
  BY DEF EndCopy
<1>2. /\ qpc[t] = "push_write"
      /\ raced' = raced \ {t}
      /\ pos' = [pos EXCEPT ![t] = NoPos]
      /\ val' = [val EXCEPT ![t] = Empty]
      /\ qpc' = [qpc EXCEPT ![t] = "idle"]
      /\ UNCHANGED <<impl, owed, due, hazy>>
  BY DEF EndCopy, Goto
<1>3. TypeOK /\ WellFormed(impl) /\ at \in Positions
  BY <1>2 DEF UndisturbedClaimsDeliver, ClaimsInRange
<1>4. \A i \in Positions : InFlight(i)' = InFlight(i) \ {t}
  BY <1>2, <1>3, SizeAssumption DEF InFlight, TypeOK, Copying, Moving, NoPos, Positions
<1>5. v \in Elements
  BY <1>3 DEF TypeOK, Mixed, Touching, Elements
<1>6. TypeOK'
  BY <1>1, <1>2, <1>3, <1>5 DEF TypeOK, Elements, Copying, Moving
<1>7. t \in InFlight(at)
  BY <1>2 DEF InFlight, Copying
<1>8. at \notin hazy => InFlight(at) = {t} /\ v = val[t]
  BY <1>1, <1>3, <1>7 DEF UndisturbedClaimsDeliver, SharedOnlyIfHazy, RacedAreHazy
<1>9. LiveSlots(impl) \subseteq Positions
  BY <1>3, LiveArePositions
<1>10. ClaimsInRange' /\ LiveAreOwed' /\ SharedOnlyIfHazy'
  BY <1>2, <1>3, <1>4
     DEF UndisturbedClaimsDeliver, ClaimsInRange, LiveAreOwed, SharedOnlyIfHazy, TypeOK
<1>11. PendingWrites'
  BY <1>2, <1>3, <1>4, <1>9 DEF UndisturbedClaimsDeliver, PendingWrites, TypeOK
<1>12. PendingReads'
  <2> SUFFICES ASSUME NEW u \in Threads
               PROVE  IF qpc'[u] \in Moving THEN pos'[u] \notin hazy' => data'[pos'[u]] = due'[u]
                      ELSE due'[u] = Empty
    BY DEF PendingReads
  <2>1. CASE u = t
    BY <1>2, <1>3, <2>1 DEF UndisturbedClaimsDeliver, PendingReads, TypeOK, Moving
  <2>2. CASE u # t
    <3>1. qpc'[u] = qpc[u] /\ pos'[u] = pos[u] /\ due'[u] = due[u] /\ hazy' = hazy
      BY <1>2, <1>3, <2>2 DEF TypeOK
    <3>2. qpc[u] \in Moving /\ pos[u] \notin hazy => pos[u] # at
      BY <1>7, <1>8, <2>2 DEF InFlight
    <3>3. qpc[u] \in Moving => pos[u] \in Positions
      BY DEF UndisturbedClaimsDeliver, ClaimsInRange, Moving
    <3>4. qpc[u] \in Moving /\ pos[u] \notin hazy => data'[pos[u]] = data[pos[u]]
      BY <1>1, <1>3, <3>2, <3>3 DEF TypeOK
    <3> QED BY <3>1, <3>4 DEF UndisturbedClaimsDeliver, PendingReads
  <2> QED BY <2>1, <2>2
<1>13. RacedAreHazy'
  BY <1>2, <1>3 DEF UndisturbedClaimsDeliver, RacedAreHazy, TypeOK
<1>14. LiveSlotsIntact'
  <2> SUFFICES ASSUME NEW i \in LiveSlots(impl), i \notin hazy, InFlight(i)' = {}
               PROVE  data'[i] = owed[i]
    BY <1>2 DEF LiveSlotsIntact
  <2>1. CASE i = at
    BY <1>1, <1>3, <1>7, <1>8, <2>1 DEF UndisturbedClaimsDeliver, PendingWrites, TypeOK
  <2>2. CASE i # at
    <3>1. InFlight(i) = {}
      BY <1>4, <1>9, <2>2 DEF InFlight
    <3> QED BY <1>1, <1>3, <1>9, <2>2, <3>1 DEF UndisturbedClaimsDeliver, LiveSlotsIntact, TypeOK
  <2> QED BY <2>1, <2>2
<1> QED
  BY <1>2, <1>3, <1>6, <1>10, <1>11, <1>12, <1>13, <1>14 DEF UndisturbedClaimsDeliver

(* A pop finishes its read.  A slot it is reading is not live unless it is *)
(* hazy, so the moved-from element it leaves behind harms nobody.          *)
LEMMA EndMoveKeeps ==
  ASSUME UndisturbedClaimsDeliver, NEW t \in Threads, EndMove(t)
  PROVE  UndisturbedClaimsDeliver'
<1> DEFINE at == pos[t]
<1>1. PICK v \in IF t \in raced THEN Mixed(at) ELSE {data[at]} :
        val' = [val EXCEPT ![t] = v]
  BY DEF EndMove
<1>2. PICK r \in IF t \in raced THEN Mixed(at) ELSE {Empty} :
        data' = [data EXCEPT ![at] = r]
  BY DEF EndMove
<1>3. /\ qpc[t] = "pop_move"
      /\ raced' = raced \ {t}
      /\ pos' = [pos EXCEPT ![t] = NoPos]
      /\ due' = [due EXCEPT ![t] = Empty]
      /\ qpc' = [qpc EXCEPT ![t] = "idle"]
      /\ UNCHANGED <<impl, owed, hazy>>
  BY DEF EndMove, Goto
<1>4. TypeOK /\ WellFormed(impl) /\ at \in Positions
  BY <1>3 DEF UndisturbedClaimsDeliver, ClaimsInRange
<1>5. \A i \in Positions : InFlight(i)' = InFlight(i) \ {t}
  BY <1>3, <1>4, SizeAssumption DEF InFlight, TypeOK, Copying, Moving, NoPos, Positions
<1>6. v \in Elements /\ r \in Elements
  BY <1>4 DEF TypeOK, Mixed, Touching, Elements
<1>7. TypeOK'
  BY <1>1, <1>2, <1>3, <1>4, <1>6 DEF TypeOK, Elements, Copying, Moving
<1>8. t \in InFlight(at)
  BY <1>3 DEF InFlight, Moving
<1>9. at \notin hazy => InFlight(at) = {t} /\ at \notin LiveSlots(impl)
  BY <1>3, <1>4, <1>8
     DEF UndisturbedClaimsDeliver, SharedOnlyIfHazy, PendingWrites, Copying
<1>10. LiveSlots(impl) \subseteq Positions
  BY <1>4, LiveArePositions
<1>11. ClaimsInRange' /\ LiveAreOwed' /\ SharedOnlyIfHazy'
  BY <1>3, <1>4, <1>5
     DEF UndisturbedClaimsDeliver, ClaimsInRange, LiveAreOwed, SharedOnlyIfHazy, TypeOK
<1>12. PendingWrites'
  BY <1>1, <1>3, <1>4, <1>5, <1>10 DEF UndisturbedClaimsDeliver, PendingWrites, TypeOK
<1>13. PendingReads'
  <2> SUFFICES ASSUME NEW u \in Threads
               PROVE  IF qpc'[u] \in Moving THEN pos'[u] \notin hazy' => data'[pos'[u]] = due'[u]
                      ELSE due'[u] = Empty
    BY DEF PendingReads
  <2>1. CASE u = t
    BY <1>3, <1>4, <2>1 DEF TypeOK, Moving
  <2>2. CASE u # t
    <3>1. qpc'[u] = qpc[u] /\ pos'[u] = pos[u] /\ due'[u] = due[u] /\ hazy' = hazy
      BY <1>3, <1>4, <2>2 DEF TypeOK
    <3>2. qpc[u] \in Moving /\ pos[u] \notin hazy => pos[u] # at
      BY <1>8, <1>9, <2>2 DEF InFlight
    <3>3. qpc[u] \in Moving => pos[u] \in Positions
      BY DEF UndisturbedClaimsDeliver, ClaimsInRange, Moving
    <3>4. qpc[u] \in Moving /\ pos[u] \notin hazy => data'[pos[u]] = data[pos[u]]
      BY <1>2, <1>4, <3>2, <3>3 DEF TypeOK
    <3> QED BY <3>1, <3>4 DEF UndisturbedClaimsDeliver, PendingReads
  <2> QED BY <2>1, <2>2
<1>14. RacedAreHazy'
  BY <1>3, <1>4 DEF UndisturbedClaimsDeliver, RacedAreHazy, TypeOK
<1>15. LiveSlotsIntact'
  <2> SUFFICES ASSUME NEW i \in LiveSlots(impl), i \notin hazy, InFlight(i)' = {}
               PROVE  data'[i] = owed[i]
    BY <1>3 DEF LiveSlotsIntact
  <2>1. i # at
    BY <1>9
  <2>2. InFlight(i) = {}
    BY <1>5, <1>10, <2>1 DEF InFlight
  <2> QED BY <1>2, <1>4, <1>10, <2>1, <2>2 DEF UndisturbedClaimsDeliver, LiveSlotsIntact, TypeOK
<1> QED
  BY <1>3, <1>4, <1>7, <1>11, <1>12, <1>13, <1>14, <1>15 DEF UndisturbedClaimsDeliver

(* The caller of a pop is done with its element. *)
LEMMA ForgetKeeps ==
  ASSUME UndisturbedClaimsDeliver, NEW t \in Threads, Forget(t)
  PROVE  UndisturbedClaimsDeliver'
<1>1. /\ qpc[t] = "idle" /\ val' = [val EXCEPT ![t] = Empty]
      /\ UNCHANGED <<impl, data, qpc, pos, raced, owed, due, hazy>>
  BY DEF Forget
<1>2. TypeOK /\ WellFormed(impl)
  BY DEF UndisturbedClaimsDeliver
<1>3. TypeOK'
  BY <1>1, <1>2 DEF TypeOK, Elements
<1>4. \A i \in LiveSlots(impl) : \A u \in InFlight(i) : val'[u] = val[u]
  BY <1>1, <1>2 DEF InFlight, TypeOK, Copying, Moving
<1>5. PendingWrites'
  BY <1>1, <1>4 DEF UndisturbedClaimsDeliver, PendingWrites, InFlight
<1> QED
  BY <1>1, <1>2, <1>3, <1>5
     DEF UndisturbedClaimsDeliver, ClaimsInRange, LiveAreOwed, PendingReads,
         RacedAreHazy, LiveSlotsIntact, SharedOnlyIfHazy, InFlight

-----------------------------------------------------------------------------
(* Every step of the queue keeps the invariant. *)
LEMMA NextKeeps ==
  UndisturbedClaimsDeliver /\ [Next]_queueVars => UndisturbedClaimsDeliver'
<1> SUFFICES ASSUME UndisturbedClaimsDeliver, [Next]_queueVars
             PROVE  UndisturbedClaimsDeliver'
  OBVIOUS
<1>1. CASE \E t \in Threads, v \in Values : PushClaim(t, v)
  BY <1>1, PushClaimKeeps
<1>2. CASE \E t \in Threads : BeginCopy(t) \/ BeginMove(t)
  BY <1>2, BeginKeeps
<1>3. CASE \E t \in Threads : EndCopy(t)
  BY <1>3, EndCopyKeeps
<1>4. CASE \E t \in Threads : PopNothing(t)
  BY <1>4, PopNothingKeeps
<1>5. CASE \E t \in Threads : PopClaim(t)
  BY <1>5, PopClaimKeeps
<1>6. CASE \E t \in Threads : EndMove(t)
  BY <1>6, EndMoveKeeps
<1>7. CASE \E t \in Threads : Forget(t)
  BY <1>7, ForgetKeeps
<1>8. CASE Clear
  BY <1>8, RewindKeeps DEF Clear
<1>9. CASE UNCHANGED queueVars
  BY <1>9
     DEF queueVars, UndisturbedClaimsDeliver, TypeOK, ClaimsInRange, LiveAreOwed,
         PendingWrites, PendingReads, RacedAreHazy, LiveSlotsIntact,
         SharedOnlyIfHazy, InFlight
<1> QED BY <1>1, <1>2, <1>3, <1>4, <1>5, <1>6, <1>7, <1>8, <1>9 DEF Next

(* The invariant that says which claims deliver holds in every reachable   *)
(* state, for every Size, Threads and Values.                              *)
THEOREM ClaimsDeliver == Spec => []UndisturbedClaimsDeliver
<1>1. Init => UndisturbedClaimsDeliver
  BY InitConsistent
<1>2. UndisturbedClaimsDeliver /\ [Next]_queueVars => UndisturbedClaimsDeliver'
  BY NextKeeps
<1> QED BY <1>1, <1>2, PTL DEF Spec

(* The queue's variables keep their types, whatever the threads do. *)
THEOREM TypeCorrect == Spec => []TypeOK
<1>1. UndisturbedClaimsDeliver => TypeOK
  BY DEF UndisturbedClaimsDeliver
<1> QED BY <1>1, ClaimsDeliver, PTL

(* Two accesses of one slot overlap only on a slot marked hazy. *)
THEOREM SharingIsHazy == Spec => []SharedOnlyIfHazy
<1>1. UndisturbedClaimsDeliver => SharedOnlyIfHazy
  BY DEF UndisturbedClaimsDeliver
<1> QED BY <1>1, ClaimsDeliver, PTL

(* safe_pop returns the element safe_pop_pos claimed, unless its slot had  *)
(* overlapping claims.                                                     *)
THEOREM PopsDeliver == Spec => DeliversWhatItClaimed
<1>1. ASSUME UndisturbedClaimsDeliver, NEW t \in Threads, EndMove(t), pos[t] \notin hazy
      PROVE  val'[t] = due[t]
  <2>1. TypeOK /\ qpc[t] = "pop_move" /\ t \notin raced
    BY <1>1 DEF UndisturbedClaimsDeliver, RacedAreHazy, EndMove
  <2>2. data[pos[t]] = due[t]
    BY <1>1, <2>1 DEF UndisturbedClaimsDeliver, PendingReads, Moving
  <2> QED BY <1>1, <2>1, <2>2 DEF EndMove, TypeOK
<1>2. UndisturbedClaimsDeliver =>
        [\A t \in Threads : EndMove(t) /\ pos[t] \notin hazy => val'[t] = due[t]]_queueVars
  BY <1>1
<1> QED BY <1>2, ClaimsDeliver, PTL DEF DeliversWhatItClaimed

-----------------------------------------------------------------------------
(* SlotQueue implements DropOldestQueue. *)

Contents == Values \cup {Empty}

(* OwedQueue is a sequence of cur_size elements. *)
LEMMA OwedQueueFacts ==
  ASSUME TypeOK, WellFormed(impl)
  PROVE  /\ OwedQueue \in Seq(Contents)
         /\ Len(OwedQueue) = impl.cur_size
         /\ impl.cur_size \in 0 .. Size /\ impl.cur_start \in Positions
         /\ \A k \in 1 .. impl.cur_size :
              /\ OwedQueue[k] = owed[Ahead(impl.cur_start, k - 1)]
              /\ Ahead(impl.cur_start, k - 1) \in Positions
<1>1. impl.cur_size \in 0 .. Size /\ impl.cur_start \in Positions
  BY CursorFields DEF WellFormed
<1>2. \A k \in 1 .. impl.cur_size : Ahead(impl.cur_start, k - 1) \in Positions
  BY <1>1, SizeAssumption DEF Ahead, Positions
<1>3. OwedQueue \in [1 .. impl.cur_size -> Contents]
  BY <1>2 DEF OwedQueue, TypeOK, Contents
<1>4. impl.cur_size \in Nat
  BY <1>1, SizeAssumption
<1>5. OwedQueue \in Seq(Contents)
  BY <1>3, <1>4, SeqDef
<1>6. Len(OwedQueue) = impl.cur_size
  BY <1>3, <1>4, <1>5, LenProperties
<1> QED BY <1>1, <1>2, <1>5, <1>6 DEF OwedQueue

(* With nothing live the sequence is empty. *)
LEMMA EmptyOwedQueue ==
  ASSUME TypeOK, WellFormed(impl), impl.cur_size = 0
  PROVE  OwedQueue = << >>
BY OwedQueueFacts, EmptySeq

(* A push appends its element; of a full queue it first drops the head.    *)
LEMMA PushPuts ==
  ASSUME UndisturbedClaimsDeliver, UndisturbedClaimsDeliver',
         NEW t \in Threads, NEW v \in Values, PushClaim(t, v)
  PROVE  Abstract!Put(v)
<1> DEFINE room == MakeRoom(impl)
           base == IF Len(OwedQueue) = Size THEN Tail(OwedQueue) ELSE OwedQueue
<1>1. /\ impl' = NextPush(impl).next
      /\ owed' = [owed EXCEPT ![NextPush(impl).at] = v]
      /\ due' = due
  BY DEF PushClaim
<1>2. TypeOK /\ WellFormed(impl) /\ TypeOK' /\ WellFormed(impl')
  BY DEF UndisturbedClaimsDeliver
<1>3. /\ room.cur_start \in Positions /\ room.cur_size \in 0 .. Size - 1
      /\ NextPush(impl).at = Ahead(room.cur_start, room.cur_size)
      /\ NextPush(impl).at \in Positions
      /\ impl'.cur_start = room.cur_start
      /\ impl'.cur_size = room.cur_size + 1
  BY <1>1, <1>2, MakeRoomFacts, NextPushFacts
<1>4. /\ base \in Seq(Contents) /\ Len(base) = room.cur_size
      /\ \A k \in 1 .. room.cur_size : base[k] = owed[Ahead(room.cur_start, k - 1)]
  <2>1. CASE IsFull(impl)
    <3>1. /\ room.cur_start = Bump(impl.cur_start) /\ room.cur_size = Size - 1
          /\ impl.cur_size = Size
      BY <1>2, <2>1, FullFacts, DropOldestFacts DEF MakeRoom
    <3>2. OwedQueue # << >> /\ base = Tail(OwedQueue)
      BY <1>2, <3>1, OwedQueueFacts, EmptySeq, SizeAssumption
    <3>3. /\ base \in Seq(Contents) /\ Len(base) = Size - 1
          /\ \A k \in 1 .. Size - 1 : base[k] = OwedQueue[k + 1]
      BY <1>2, <3>1, <3>2, OwedQueueFacts, HeadTailProperties
    <3>4. ASSUME NEW k \in 1 .. Size - 1
          PROVE  base[k] = owed[Ahead(room.cur_start, k - 1)]
      <4>1. base[k] = owed[Ahead(impl.cur_start, k)]
        BY <1>2, <3>1, <3>3, OwedQueueFacts, SizeAssumption
      <4>2. Ahead(impl.cur_start, k) = Ahead(room.cur_start, k - 1)
        <5>1. impl.cur_start \in 0 .. Size - 1 /\ Size \in Nat
          BY <1>2, OwedQueueFacts, SizeAssumption DEF Positions
        <5> HIDE DEF room
        <5>2. CASE impl.cur_start = Size - 1
          BY <3>1, <5>1, <5>2 DEF Ahead, Bump
        <5>3. CASE impl.cur_start < Size - 1
          BY <3>1, <5>1, <5>3 DEF Ahead, Bump
        <5> QED BY <5>1, <5>2, <5>3
      <4> QED BY <4>1, <4>2
    <3> QED BY <3>1, <3>3, <3>4
  <2>2. CASE ~IsFull(impl)
    <3>1. room = impl /\ impl.cur_size # Size
      BY <1>2, <2>2, FullFacts DEF MakeRoom
    <3> QED BY <1>2, <3>1, OwedQueueFacts
  <2> QED BY <2>1, <2>2
<1>5. /\ OwedQueue' \in Seq(Contents) /\ Len(OwedQueue') = room.cur_size + 1
      /\ \A k \in 1 .. room.cur_size + 1 :
           OwedQueue'[k] = owed'[Ahead(room.cur_start, k - 1)]
  <2>1. impl'.cur_size \in 0 .. Size /\ impl'.cur_start \in Positions
    BY <1>2, CursorFields DEF WellFormed
  <2>2. \A k \in 1 .. impl'.cur_size : Ahead(impl'.cur_start, k - 1) \in Positions
    BY <2>1, SizeAssumption DEF Ahead, Positions
  <2>3. OwedQueue' = [k \in 1 .. impl'.cur_size |-> owed'[Ahead(impl'.cur_start, k - 1)]]
    BY DEF OwedQueue
  <2>4. OwedQueue' \in [1 .. impl'.cur_size -> Contents]
    BY <1>2, <2>2, <2>3 DEF TypeOK, Contents
  <2>5. OwedQueue' \in Seq(Contents)
    BY <2>1, <2>4, SeqDef, SizeAssumption
  <2>6. Len(OwedQueue') = impl'.cur_size
    BY <2>1, <2>4, <2>5, LenProperties, SizeAssumption
  <2> QED BY <1>3, <2>3, <2>5, <2>6
<1>6. /\ Append(base, v) \in Seq(Contents)
      /\ Len(Append(base, v)) = room.cur_size + 1
      /\ \A k \in 1 .. room.cur_size + 1 :
           Append(base, v)[k] = IF k = room.cur_size + 1 THEN v ELSE base[k]
  <2>1. v \in Contents
    BY DEF Contents
  <2> QED BY <1>3, <1>4, <2>1, AppendProperties, SizeAssumption
<1>7. ASSUME NEW k \in 1 .. room.cur_size + 1
      PROVE  OwedQueue'[k] = Append(base, v)[k]
  <2>1. CASE k = room.cur_size + 1
    <3>1. Ahead(room.cur_start, k - 1) = NextPush(impl).at
      BY <1>3, <2>1, SizeAssumption
    <3> QED BY <1>1, <1>2, <1>3, <1>5, <1>6, <2>1, <3>1 DEF TypeOK
  <2>2. CASE k # room.cur_size + 1
    <3>1. k \in 1 .. room.cur_size
      BY <1>3, <2>2, SizeAssumption
    <3>2. /\ Ahead(room.cur_start, k - 1) \in Positions
          /\ Ahead(room.cur_start, k - 1) # NextPush(impl).at
      BY <1>3, <3>1, SizeAssumption DEF Ahead, Positions
    <3> QED BY <1>1, <1>2, <1>3, <1>4, <1>5, <1>6, <2>2, <3>1, <3>2 DEF TypeOK
  <2> QED BY <2>1, <2>2
<1>8. OwedQueue' = Append(base, v)
  BY <1>5, <1>6, <1>7, SeqEqual
<1> QED BY <1>1, <1>8 DEF Abstract!Put

(* A pop that claims a slot takes the head. *)
LEMMA PopTakes ==
  ASSUME UndisturbedClaimsDeliver, UndisturbedClaimsDeliver',
         NEW t \in Threads, PopClaim(t)
  PROVE  Abstract!Take(t)
<1> DEFINE at == NextPop(impl).at
<1>1. /\ qpc[t] = "idle" /\ at # NoPos
      /\ impl' = NextPop(impl).next
      /\ due' = [due EXCEPT ![t] = owed[at]]
      /\ owed' = [owed EXCEPT ![at] = Empty]
  BY DEF PopClaim
<1>2. TypeOK /\ WellFormed(impl) /\ TypeOK' /\ WellFormed(impl')
  BY DEF UndisturbedClaimsDeliver
<1>3. /\ impl.cur_size # 0 /\ at = impl.cur_start
      /\ impl'.cur_start = Bump(impl.cur_start)
      /\ impl'.cur_size = impl.cur_size - 1
  BY <1>1, <1>2, NextPopFacts
<1>4. impl.cur_size \in 1 .. Size /\ impl.cur_start \in Positions
  BY <1>2, <1>3, OwedQueueFacts
<1>5. OwedQueue # << >>
  BY <1>2, <1>3, OwedQueueFacts, EmptySeq
<1>6. Head(OwedQueue) = owed[at]
  <2>1. Ahead(impl.cur_start, 0) = at
    BY <1>3, <1>4, SizeAssumption DEF Ahead, Positions
  <2>2. OwedQueue[1] = owed[at]
    BY <1>2, <1>4, <2>1, OwedQueueFacts
  <2> QED BY <1>2, <1>5, <2>2, OwedQueueFacts
<1>7. /\ Tail(OwedQueue) \in Seq(Contents)
      /\ Len(Tail(OwedQueue)) = impl.cur_size - 1
      /\ \A k \in 1 .. impl.cur_size - 1 : Tail(OwedQueue)[k] = OwedQueue[k + 1]
  BY <1>2, <1>5, OwedQueueFacts, HeadTailProperties
<1>8. /\ OwedQueue' \in Seq(Contents) /\ Len(OwedQueue') = impl.cur_size - 1
      /\ \A k \in 1 .. impl.cur_size - 1 :
           OwedQueue'[k] = owed'[Ahead(Bump(impl.cur_start), k - 1)]
  <2>1. impl'.cur_size \in 0 .. Size /\ impl'.cur_start \in Positions
    BY <1>2, CursorFields DEF WellFormed
  <2>2. \A k \in 1 .. impl'.cur_size : Ahead(impl'.cur_start, k - 1) \in Positions
    BY <2>1, SizeAssumption DEF Ahead, Positions
  <2>3. OwedQueue' = [k \in 1 .. impl'.cur_size |-> owed'[Ahead(impl'.cur_start, k - 1)]]
    BY DEF OwedQueue
  <2>4. OwedQueue' \in [1 .. impl'.cur_size -> Contents]
    BY <1>2, <2>2, <2>3 DEF TypeOK, Contents
  <2>5. OwedQueue' \in Seq(Contents)
    BY <2>1, <2>4, SeqDef, SizeAssumption
  <2>6. Len(OwedQueue') = impl'.cur_size
    BY <2>1, <2>4, <2>5, LenProperties, SizeAssumption
  <2> QED BY <1>3, <2>3, <2>5, <2>6
<1>9. ASSUME NEW k \in 1 .. impl.cur_size - 1
      PROVE  OwedQueue'[k] = Tail(OwedQueue)[k]
  <2>1. /\ Ahead(Bump(impl.cur_start), k - 1) = Ahead(impl.cur_start, k)
        /\ Ahead(impl.cur_start, k) \in Positions
        /\ Ahead(impl.cur_start, k) # at
    BY <1>3, <1>4, SizeAssumption DEF Ahead, Bump, Positions
  <2>2. OwedQueue[k + 1] = owed[Ahead(impl.cur_start, k)]
    BY <1>2, <1>4, OwedQueueFacts, SizeAssumption
  <2> QED BY <1>1, <1>2, <1>7, <1>8, <2>1, <2>2 DEF TypeOK
<1>10. OwedQueue' = Tail(OwedQueue)
  BY <1>7, <1>8, <1>9, SeqEqual
<1>11. due[t] = Empty
  BY <1>1 DEF UndisturbedClaimsDeliver, PendingReads, Moving
<1> QED BY <1>1, <1>5, <1>6, <1>10, <1>11 DEF Abstract!Take

(* A step that changes neither the cursor nor what is owed changes the     *)
(* abstract queue in nothing but a claim.                                  *)
LEMMA SameQueue ==
  ASSUME UNCHANGED <<impl, owed>>
  PROVE  OwedQueue' = OwedQueue
BY DEF OwedQueue

(* Every step of the queue is a step of the abstract queue, or invisible.  *)
LEMMA StepImplements ==
  UndisturbedClaimsDeliver /\ UndisturbedClaimsDeliver' /\ [Next]_queueVars
    => [Abstract!Next]_(Abstract!vars)
<1> SUFFICES ASSUME UndisturbedClaimsDeliver, UndisturbedClaimsDeliver',
                    [Next]_queueVars
             PROVE  [Abstract!Next]_(Abstract!vars)
  OBVIOUS
<1>0. TypeOK /\ WellFormed(impl) /\ TypeOK' /\ WellFormed(impl')
  BY DEF UndisturbedClaimsDeliver
<1>1. CASE \E t \in Threads, v \in Values : PushClaim(t, v)
  BY <1>1, PushPuts DEF Abstract!Next
<1>2. CASE \E t \in Threads : BeginCopy(t) \/ EndCopy(t) \/ BeginMove(t) \/ Forget(t)
  BY <1>2, SameQueue DEF BeginCopy, EndCopy, BeginMove, Forget, Abstract!vars
<1>3. CASE \E t \in Threads : PopNothing(t)
  <2>1. impl.cur_size = 0 /\ impl' = ZeroCursor /\ UNCHANGED <<owed, due>>
    BY <1>0, <1>3, NextPopFacts DEF PopNothing
  <2>2. OwedQueue = << >>
    BY <1>0, <2>1, EmptyOwedQueue
  <2>3. OwedQueue' = << >>
    <3>1. OwedQueue' = [k \in 1 .. 0 |-> owed[Ahead(0, k - 1)]]
      BY <2>1 DEF OwedQueue, ZeroCursor
    <3>2. OwedQueue = [k \in 1 .. 0 |-> owed[Ahead(impl.cur_start, k - 1)]]
      BY <2>1 DEF OwedQueue
    <3>3. 1 .. 0 = {}
      OBVIOUS
    <3> QED BY <2>2, <3>1, <3>2, <3>3
  <2> QED BY <2>1, <2>2, <2>3 DEF Abstract!vars
<1>4. CASE \E t \in Threads : PopClaim(t)
  BY <1>4, PopTakes DEF Abstract!Next
<1>5. CASE \E t \in Threads : EndMove(t)
  BY <1>5, SameQueue DEF EndMove, Abstract!Next, Abstract!Finish
<1>6. CASE Clear
  <2>1. OwedQueue' = << >> /\ due' = due
    <3>1. OwedQueue' = [k \in 1 .. 0 |-> owed'[Ahead(0, k - 1)]]
      BY <1>6 DEF Clear, OwedQueue, ZeroCursor
    <3> QED BY <1>6, <3>1 DEF Clear
  <2> QED BY <2>1 DEF Abstract!Next, Abstract!Discard
<1>7. CASE UNCHANGED queueVars
  BY <1>7, SameQueue DEF queueVars, Abstract!vars
<1> QED BY <1>1, <1>2, <1>3, <1>4, <1>5, <1>6, <1>7 DEF Next

(* The claims of concurrent pushes and pops are those of a bounded FIFO    *)
(* queue that gives up its oldest element when it is full.                 *)
THEOREM QueueImplementsDropOldest == Spec => ImplementsDropOldestQueue
<1>1. Init => Abstract!Init
  <2> SUFFICES ASSUME Init PROVE Abstract!Init
    OBVIOUS
  <2>1. UndisturbedClaimsDeliver /\ impl.cur_size = 0
    BY InitConsistent DEF Init, ZeroCursor
  <2>2. OwedQueue = << >>
    BY <2>1, EmptyOwedQueue DEF UndisturbedClaimsDeliver
  <2> QED BY <2>2 DEF Init, Abstract!Init
<1>2. UndisturbedClaimsDeliver /\ UndisturbedClaimsDeliver' /\ [Next]_queueVars
        => [Abstract!Next]_(Abstract!vars)
  BY StepImplements
<1> QED BY <1>1, <1>2, ClaimsDeliver, PTL DEF Spec, ImplementsDropOldestQueue, Abstract!Spec
=============================================================================
