------------------------------ MODULE SlotQueue ------------------------------
(***************************************************************************)
(* LockfreeQ<_Type,_Size> with its CAS loops taken as single steps, as     *)
(* LockfreeQ.tla shows they may be.                                        *)
(*                                                                         *)
(* An operation has two halves.  The first moves the cursor and so claims  *)
(* a slot; it is atomic.  The second copies an element into the claimed    *)
(* slot or moves one out of it; it is plain memory access, modelled as a   *)
(* begin and an end step.  When two accesses of one slot overlap, what     *)
(* both leave behind is any element of Mixed.                              *)
(*                                                                         *)
(* owed, due and hazy are history variables: no guard reads them.          *)
(***************************************************************************)
EXTENDS RingCursor, Sequences

CONSTANTS Threads,   (* the threads that call the queue                    *)
          Values,    (* the elements they push                             *)
          Empty,     (* a default-constructed or moved-from element        *)
          Torn       (* an element with the words of two others            *)

ASSUME ElementAssumption == Empty \notin Values /\ Torn \notin Values /\ Empty # Torn

VARIABLES
  impl,     (* the atomic cursor                                           *)
  data,     (* data[i]: the contents of slot i                             *)
  qpc,      (* qpc[t]: where thread t is in its operation                  *)
  pos,      (* pos[t]: the position that t's claim returned                *)
  val,      (* val[t]: the argument of t's push or the result of its pops  *)
  raced,    (* the threads whose current access overlapped another         *)
  owed,     (* owed[i]: what the last claim of slot i was a push of, or Empty  *)
  due,      (* due[t]: the element that t's pop claimed                    *)
  hazy      (* slots claimed while an earlier claim of them was unfinished *)

queueVars == <<impl, data, qpc, pos, val, raced, owed, due, hazy>>

Elements == Values \cup {Empty, Torn}

Copying == {"push_copy", "push_write"}
Moving == {"pop_got", "pop_move"}

(* The threads that claimed slot i and are not yet done with it. *)
InFlight(i) == {t \in Threads : qpc[t] \in Copying \cup Moving /\ pos[t] = i}

(* The threads in the middle of an access to slot i. *)
Touching(i) == {t \in Threads : qpc[t] \in {"push_write", "pop_move"} /\ pos[t] = i}

(* What overlapping accesses of slot i can leave or return. *)
Mixed(i) == {data[i], Empty, Torn}
            \cup {val[t] : t \in {u \in Touching(i) : qpc[u] = "push_write"}}

(* The threads whose accesses have overlapped once t starts its own. *)
RacedWith(t) == IF Touching(pos[t]) = {} THEN raced
                ELSE raced \cup Touching(pos[t]) \cup {t}

Goto(t, label) == qpc' = [qpc EXCEPT ![t] = label]

Init ==
  /\ impl = ZeroCursor
  /\ data = [i \in Positions |-> Empty]
  /\ qpc = [t \in Threads |-> "idle"]
  /\ pos = [t \in Threads |-> NoPos]
  /\ val = [t \in Threads |-> Empty]
  /\ raced = {}
  /\ owed = [i \in Positions |-> Empty]
  /\ due = [t \in Threads |-> Empty]
  /\ hazy = {}

-----------------------------------------------------------------------------
(* Faulty variants of the steps below. *)

EndCopyElsewhere(t) ==
  /\ qpc[t] = "push_write"
  /\ data' = [data EXCEPT ![impl.cur_end] = val[t]]
  /\ raced' = raced \ {t}
  /\ pos' = [pos EXCEPT ![t] = NoPos]
  /\ val' = [val EXCEPT ![t] = Empty]
  /\ Goto(t, "idle")
  /\ UNCHANGED <<impl, owed, due, hazy>>

PopClaimAlongsidePush(t) ==
  LET step == NextPop(impl)
  IN  /\ qpc[t] = "idle"
      /\ step.at # NoPos
      /\ impl' = step.next
      /\ pos' = [pos EXCEPT ![t] = Bump(step.at)]
      /\ val' = [val EXCEPT ![t] = Empty]
      /\ due' = [due EXCEPT ![t] = owed[step.at]]
      /\ hazy' = IF InFlight(step.at) = {} THEN hazy ELSE hazy \cup {step.at}
      /\ owed' = [owed EXCEPT ![step.at] = Empty]
      /\ Goto(t, "pop_got")
      /\ UNCHANGED <<data, raced>>

-----------------------------------------------------------------------------
(* push *)

(* _atomic_push_pos: the cursor moves on and t owns the claimed slot. *)
PushClaim(t, v) ==
  LET step == NextPush(impl)
  IN  /\ qpc[t] = "idle"
      /\ impl' = step.next
      /\ pos' = [pos EXCEPT ![t] = step.at]
      /\ val' = [val EXCEPT ![t] = v]
      /\ owed' = [owed EXCEPT ![step.at] = v]
      /\ hazy' = IF InFlight(step.at) = {} THEN hazy \ {step.at}
                 ELSE hazy \cup {step.at}
      /\ Goto(t, "push_copy")
      /\ UNCHANGED <<data, raced, due>>

(* _update_data_copy starts to assign the element to the claimed slot. *)
BeginCopy(t) ==
  /\ qpc[t] = "push_copy"
  /\ raced' = RacedWith(t)
  /\ Goto(t, "push_write")
  /\ UNCHANGED <<impl, data, pos, val, owed, due, hazy>>

EndCopy(t) ==
  /\ qpc[t] = "push_write"
  /\ \E v \in IF t \in raced THEN Mixed(pos[t]) ELSE {val[t]} :
        data' = [data EXCEPT ![pos[t]] = v]
  /\ raced' = raced \ {t}
  /\ pos' = [pos EXCEPT ![t] = NoPos]
  /\ val' = [val EXCEPT ![t] = Empty]
  /\ Goto(t, "idle")
  /\ UNCHANGED <<impl, owed, due, hazy>>

-----------------------------------------------------------------------------
(* safe_pop_pos, then safe_pop when it returned a position *)

(* Nothing to pop: t gets NoPos, but the cursor is wound back to slot 0. *)
PopNothing(t) ==
  LET step == NextPop(impl)
  IN  /\ qpc[t] = "idle"
      /\ step.at = NoPos
      /\ impl' = step.next
      /\ UNCHANGED <<data, qpc, pos, val, raced, owed, due, hazy>>

PopClaim(t) ==
  LET step == NextPop(impl)
  IN  /\ qpc[t] = "idle"
      /\ step.at # NoPos
      /\ impl' = step.next
      /\ pos' = [pos EXCEPT ![t] = step.at]
      /\ val' = [val EXCEPT ![t] = Empty]
      /\ due' = [due EXCEPT ![t] = owed[step.at]]
      /\ owed' = [owed EXCEPT ![step.at] = Empty]
      /\ hazy' = IF InFlight(step.at) = {} THEN hazy ELSE hazy \cup {step.at}
      /\ Goto(t, "pop_got")
      /\ UNCHANGED <<data, raced>>

(* safe_pop starts to move the element out of the slot. *)
BeginMove(t) ==
  /\ qpc[t] = "pop_got"
  /\ raced' = RacedWith(t)
  /\ Goto(t, "pop_move")
  /\ UNCHANGED <<impl, data, pos, val, owed, due, hazy>>

EndMove(t) ==
  /\ qpc[t] = "pop_move"
  /\ \E v \in IF t \in raced THEN Mixed(pos[t]) ELSE {data[pos[t]]} :
        val' = [val EXCEPT ![t] = v]
  /\ \E v \in IF t \in raced THEN Mixed(pos[t]) ELSE {Empty} :
        data' = [data EXCEPT ![pos[t]] = v]
  /\ raced' = raced \ {t}
  /\ pos' = [pos EXCEPT ![t] = NoPos]
  /\ due' = [due EXCEPT ![t] = Empty]
  /\ Goto(t, "idle")
  /\ UNCHANGED <<impl, owed, hazy>>

(* The caller is done with the element it popped. *)
Forget(t) ==
  /\ qpc[t] = "idle"
  /\ val' = [val EXCEPT ![t] = Empty]
  /\ UNCHANGED <<impl, data, qpc, pos, raced, owed, due, hazy>>

(* clear stores a fresh cursor whatever the other threads are doing. *)
Clear ==
  /\ impl' = ZeroCursor
  /\ UNCHANGED <<data, qpc, pos, val, raced, owed, due, hazy>>

-----------------------------------------------------------------------------
Next ==
  \/ \E t \in Threads, v \in Values : PushClaim(t, v)
  \/ \E t \in Threads : BeginCopy(t)
  \/ \E t \in Threads : EndCopy(t)
  \/ \E t \in Threads : PopNothing(t)
  \/ \E t \in Threads : PopClaim(t)
  \/ \E t \in Threads : BeginMove(t)
  \/ \E t \in Threads : EndMove(t)
  \/ \E t \in Threads : Forget(t)
  \/ Clear

Spec == Init /\ [][Next]_queueVars

-----------------------------------------------------------------------------
TypeOK ==
  /\ impl \in Cursors
  /\ data \in [Positions -> Elements]
  /\ qpc \in [Threads -> {"idle"} \cup Copying \cup Moving]
  /\ pos \in [Threads -> Positions \cup {NoPos}]
  /\ val \in [Threads -> Elements]
  /\ raced \subseteq Threads
  /\ owed \in [Positions -> Values \cup {Empty}]
  /\ due \in [Threads -> Values \cup {Empty}]
  /\ hazy \subseteq Positions

(***************************************************************************)
(* A live slot that nobody has an unfinished claim on, and that was not    *)
(* claimed while somebody had, holds the element pushed into it: only      *)
(* overlapping claims of one slot can spoil an element.                    *)
(***************************************************************************)
LiveSlotsIntact ==
  \A i \in LiveSlots(impl) :
    i \notin hazy /\ InFlight(i) = {} => data[i] = owed[i]

(***************************************************************************)
(* Two threads have unfinished claims on one slot only if the slot is      *)
(* marked hazy; so two accesses never overlap on a slot that is not.       *)
(***************************************************************************)
SharedOnlyIfHazy ==
  \A i \in Positions : \A t, u \in InFlight(i) : t = u \/ i \in hazy

(***************************************************************************)
(* What the two invariants above rest on, and they with it: a claim that   *)
(* nobody else has on its slot will deliver.  A push has yet to write what *)
(* the live slot it claimed is owed, a pop has yet to read what it is due, *)
(* and only accesses of hazy slots can have overlapped.                    *)
(***************************************************************************)
ClaimsInRange == \A t \in Threads : qpc[t] # "idle" => pos[t] \in Positions

LiveAreOwed == \A i \in LiveSlots(impl) : owed[i] \in Values

PendingWrites ==
  \A i \in LiveSlots(impl) : \A t \in InFlight(i) :
    i \notin hazy => qpc[t] \in Copying /\ val[t] = owed[i]

PendingReads ==
  \A t \in Threads :
    IF qpc[t] \in Moving
    THEN pos[t] \notin hazy => data[pos[t]] = due[t]
    ELSE due[t] = Empty

RacedAreHazy ==
  \A t \in raced : qpc[t] \in {"push_write", "pop_move"} /\ pos[t] \in hazy

UndisturbedClaimsDeliver ==
  /\ TypeOK /\ WellFormed(impl)
  /\ ClaimsInRange /\ LiveAreOwed
  /\ PendingWrites /\ PendingReads /\ RacedAreHazy
  /\ LiveSlotsIntact /\ SharedOnlyIfHazy

(***************************************************************************)
(* safe_pop returns the very element that safe_pop_pos claimed, provided   *)
(* the slot had no overlapping claims.                                     *)
(***************************************************************************)
DeliversWhatItClaimed ==
  [][\A t \in Threads :
       EndMove(t) /\ pos[t] \notin hazy => val'[t] = due[t]]_queueVars

(***************************************************************************)
(* The slots from the oldest to the newest, read through owed, are a FIFO  *)
(* queue that drops its oldest element on overflow, and due is what each   *)
(* consumer has taken from it.                                             *)
(***************************************************************************)
OwedQueue ==
  [k \in 1 .. impl.cur_size |-> owed[Ahead(impl.cur_start, k - 1)]]

Abstract == INSTANCE DropOldestQueue
              WITH Capacity <- Size, Items <- Values, NoItem <- Empty,
                   queue <- OwedQueue, claim <- due

ImplementsDropOldestQueue == Abstract!Spec
=============================================================================
