--------------------------- MODULE LockfreeQProofs ---------------------------
(***************************************************************************)
(* The CAS loops implement the single-step claims of SlotQueue, for every  *)
(* Size, Threads and Values; so what is proved of SlotQueue and of the     *)
(* abstract queue holds of LockfreeQ.                                      *)
(***************************************************************************)
EXTENDS LockfreeQ, SlotQueueProofs

(* A thread in a CAS loop has no claim, and one that pushes has an element. *)
LoopInv ==
  /\ loop \in [Threads -> {"out"} \cup Looping]
  /\ arg \in [Threads -> Values \cup {Empty}]
  /\ qpc \in [Threads -> {"idle"} \cup Copying \cup Moving]
  /\ \A t \in Threads : loop[t] \in Looping => qpc[t] = "idle"
  /\ \A t \in Threads : loop[t] \in {"push_load", "push_cas"} => arg[t] \in Values

LEMMA LoopInit_Inv == LoopInit => LoopInv
BY DEF LoopInit, Init, LoopInv, Looping

(* A step of one thread leaves the others where they are. *)
LEMMA LoopInv_Step == LoopInv /\ [LoopNext]_vars => LoopInv'
<1> SUFFICES ASSUME LoopInv, [LoopNext]_vars PROVE LoopInv'
  OBVIOUS
<1> USE DEF LoopInv, Looping
<1>1. ASSUME NEW t \in Threads, NEW v \in Values, CallPush(t, v) PROVE LoopInv'
  BY <1>1 DEF CallPush, Enter, Idle, queueVars
<1>2. ASSUME NEW t \in Threads, CallPop(t) PROVE LoopInv'
  BY <1>2 DEF CallPop, Enter, Idle, queueVars
<1>3. ASSUME NEW t \in Threads, PushLoad(t) \/ PopLoad(t) PROVE LoopInv'
  BY <1>3 DEF PushLoad, PopLoad, Load, queueVars
<1>4. ASSUME NEW t \in Threads, PushRetry(t) \/ PopRetry(t) PROVE LoopInv'
  BY <1>4 DEF PushRetry, PopRetry, Retry, queueVars
<1>5. ASSUME NEW t \in Threads, PushExchange(t) PROVE LoopInv'
  BY <1>5 DEF PushExchange, Exchange, Goto, Copying, Moving
<1>6. ASSUME NEW t \in Threads, PopExchange(t) PROVE LoopInv'
  BY <1>6 DEF PopExchange, Exchange, Goto, Copying, Moving
<1>7. ASSUME NEW t \in Threads, Access(t) PROVE LoopInv'
  <2>1. /\ qpc[t] \in Copying \cup Moving /\ UNCHANGED loopVars
        /\ \E l \in {"idle"} \cup Copying \cup Moving : qpc' = [qpc EXCEPT ![t] = l]
    BY <1>7 DEF Access, BeginCopy, EndCopy, BeginMove, EndMove, Goto, Copying, Moving
  <2> QED BY <2>1 DEF loopVars, Copying, Moving
<1>8. ASSUME NEW t \in Threads, CallForget(t) \/ CallClear(t) PROVE LoopInv'
  BY <1>8 DEF CallForget, CallClear, Forget, Clear, loopVars
<1>9. CASE UNCHANGED vars
  BY <1>9 DEF vars, queueVars, loopVars
<1> QED BY <1>1, <1>2, <1>3, <1>4, <1>5, <1>6, <1>7, <1>8, <1>9 DEF LoopNext, Running

(* An exchange that succeeds is a claim of SlotQueue, made from the cursor *)
(* that the thread loaded: it does not matter that the cursor may have     *)
(* changed and changed back in between.                                    *)
LEMMA LoopStepImplements == LoopInv /\ [LoopNext]_vars => [Next]_queueVars
<1> SUFFICES ASSUME LoopInv, [LoopNext]_vars PROVE [Next]_queueVars
  OBVIOUS
<1>1. ASSUME NEW t \in Threads, PushExchange(t) PROVE [Next]_queueVars
  <2>1. loop[t] = "push_cas" /\ impl = save[t] /\ qpc[t] = "idle" /\ arg[t] \in Values
    BY <1>1 DEF PushExchange, Exchange, LoopInv, Looping
  <2>2. PushClaim(t, arg[t])
    BY <1>1, <2>1 DEF PushExchange, Exchange, PushClaim
  <2> QED BY <2>1, <2>2 DEF Next
<1>2. ASSUME NEW t \in Threads, PopExchange(t) PROVE [Next]_queueVars
  <2>1. impl = save[t] /\ qpc[t] = "idle"
    BY <1>2 DEF PopExchange, Exchange, LoopInv, Looping
  <2>2. PopNothing(t) \/ PopClaim(t)
    BY <1>2, <2>1 DEF PopExchange, Exchange, PopNothing, PopClaim
  <2> QED BY <2>2 DEF Next
<1>3. ASSUME NEW t \in Threads, NEW v \in Values,
             CallPush(t, v) \/ CallPop(t) \/ PushLoad(t) \/ PopLoad(t)
               \/ PushRetry(t) \/ PopRetry(t)
      PROVE  [Next]_queueVars
  BY <1>3 DEF CallPush, CallPop, Enter, PushLoad, PopLoad, Load, PushRetry, PopRetry, Retry
<1>4. ASSUME NEW t \in Threads, CallPop(t) \/ PushLoad(t) \/ PopLoad(t)
               \/ PushRetry(t) \/ PopRetry(t)
      PROVE  [Next]_queueVars
  BY <1>4 DEF CallPop, Enter, PushLoad, PopLoad, Load, PushRetry, PopRetry, Retry
<1>5. ASSUME NEW t \in Threads, Access(t) \/ CallForget(t) \/ CallClear(t)
      PROVE  [Next]_queueVars
  BY <1>5 DEF Access, CallForget, CallClear, Next
<1>6. CASE UNCHANGED vars
  BY <1>6 DEF vars
<1> QED BY <1>1, <1>2, <1>3, <1>4, <1>5, <1>6 DEF LoopNext, Running

(* Each operation claims its slot in one indivisible step. *)
THEOREM LoopsAreAtomic == LoopSpec => ClaimsAreAtomic
<1>1. LoopInit => Init
  BY DEF LoopInit
<1> QED
  BY <1>1, LoopInit_Inv, LoopInv_Step, LoopStepImplements, PTL
     DEF LoopSpec, ClaimsAreAtomic, Spec

(* LockfreeQ itself implements the drop-oldest FIFO queue. *)
THEOREM LoopsImplementDropOldest == LoopSpec => ImplementsDropOldestQueue
BY LoopsAreAtomic, QueueImplementsDropOldest, PTL DEF ClaimsAreAtomic

(* And a pop whose slot nobody else claimed returns what was pushed there. *)
THEOREM LoopsDeliver == LoopSpec => DeliversWhatItClaimed
BY LoopsAreAtomic, PopsDeliver, PTL DEF ClaimsAreAtomic

(* The variables of the loops keep their types as well. *)
THEOREM LoopTypeCorrect == LoopSpec => []LoopTypeOK
<1> DEFINE Saved == save \in [Threads -> Cursors]
<1>1. ZeroCursor \in Cursors
  BY SizeAssumption, CursorRecord DEF ZeroCursor, Positions
<1>2. LoopInit => Saved
  BY <1>1 DEF LoopInit
<1>3. Saved /\ TypeOK /\ [LoopNext]_vars => Saved'
  <2> SUFFICES ASSUME Saved, TypeOK, [LoopNext]_vars PROVE Saved'
    OBVIOUS
  <2>1. ASSUME NEW t \in Threads,
               \/ PushLoad(t) \/ PopLoad(t) \/ PushRetry(t) \/ PopRetry(t)
               \/ PushExchange(t) \/ PopExchange(t)
        PROVE  Saved'
    BY <1>1, <2>1
       DEF PushLoad, PopLoad, Load, PushRetry, PopRetry, Retry, PushExchange,
           PopExchange, Exchange, TypeOK
  <2>2. CASE UNCHANGED save
    BY <2>2
  <2>3. [LoopNext]_vars =>
          \/ \E t \in Threads :
               \/ PushLoad(t) \/ PopLoad(t) \/ PushRetry(t) \/ PopRetry(t)
               \/ PushExchange(t) \/ PopExchange(t)
          \/ UNCHANGED save
    BY DEF LoopNext, Running, CallPush, CallPop, Enter, Access, CallForget,
           CallClear, vars, loopVars
  <2> QED BY <2>1, <2>2, <2>3
<1>4. LoopSpec => []TypeOK
  BY LoopsAreAtomic, TypeCorrect, PTL DEF ClaimsAreAtomic
<1>5. LoopSpec => []Saved
  BY <1>2, <1>3, <1>4, PTL DEF LoopSpec
<1>6. LoopSpec => []LoopInv
  BY LoopInit_Inv, LoopInv_Step, PTL DEF LoopSpec
<1>7. TypeOK /\ Saved /\ LoopInv => LoopTypeOK
  BY DEF LoopTypeOK, LoopInv
<1> QED BY <1>4, <1>5, <1>6, <1>7, PTL
=============================================================================
