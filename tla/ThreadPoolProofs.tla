-------------------------- MODULE ThreadPoolProofs --------------------------
(***************************************************************************)
(* The pool loses no task but those a full queue drops and overlapping     *)
(* claims spoil, calls none for a second time but from an f kept across    *)
(* pop_again or a shared slot, and rest_size counts the parked workers     *)
(* until two updates of it collide; for every set of workers and tasks and *)
(* every Size, whoever submits and when.                                   *)
(***************************************************************************)
EXTENDS ThreadPool, SlotQueueProofs, FiniteSetTheorems

LEMMA ThreadFacts ==
  /\ Workers \subseteq Threads /\ Tasks \subseteq Threads
  /\ \A w \in Workers : w \notin Tasks
BY ThreadsAssumption

(* Every step of the pool is a step of the queue, or leaves it alone. *)
LEMMA QueueStep == [PoolNext]_vars => [Next]_queueVars
<1> SUFFICES ASSUME [PoolNext]_vars PROVE [Next]_queueVars
  OBVIOUS
<1>1. ASSUME NEW w \in Workers, FindNothing(w) \/ ClaimTask(w) \/ BeginTake(w) \/ EndTake(w)
      PROVE  [Next]_queueVars
  BY <1>1, ThreadFacts DEF FindNothing, ClaimTask, BeginTake, EndTake, Next
<1>2. ASSUME NEW w \in Workers, Compare(w)
      PROVE  [Next]_queueVars
  BY <1>2, ThreadFacts DEF Compare, Next
<1>3. ASSUME NEW w \in Workers,
             \/ Test(w) \/ Lock(w) \/ Increment(w) \/ Sleep(w)
             \/ Unlock(w) \/ Load(w) \/ Decrement(w) \/ WakeSpuriously(w)
      PROVE  [Next]_queueVars
  BY <1>3 DEF Test, Lock, Increment, Sleep, Unlock, Load, Decrement, ParkStep, WakeSpuriously
<1>4. ASSUME NEW w \in Workers,
             \/ SkipEmpty(w) \/ CallTask(w) \/ Terminate(w) \/ Return(w)
             \/ ReadRest(w) \/ ReadSize(w)
      PROVE  [Next]_queueVars
  BY <1>4 DEF SkipEmpty, CallTask, Terminate, Return, ReadRest, ReadSize
<1>5. ASSUME NEW t \in Tasks, Submit(t) \/ BeginStore(t) \/ EndStore(t)
      PROVE  [Next]_queueVars
  BY <1>5, ThreadFacts DEF Submit, BeginStore, EndStore, Next, Tasks
<1>6. ASSUME NEW t \in Tasks, SizeCheck(t) \/ Notify(t)
      PROVE  [Next]_queueVars
  BY <1>6 DEF SizeCheck, Notify
<1>7. CASE Duty \/ Stop
  BY <1>7 DEF Duty, Spawn, SpinEnds, Greet, StopNotify, Join, Stop, OwnerStep
<1>8. CASE UNCHANGED vars
  BY <1>8 DEF vars
<1> QED BY <1>1, <1>2, <1>3, <1>4, <1>5, <1>6, <1>7, <1>8 DEF PoolNext, WorkerStep, SubmitStep

(* So what SlotQueueProofs shows of every use of the queue holds of it.    *)
LEMMA PoolRunsTheQueue == PoolSpec => Spec
<1>1. PoolInit => Init
  BY DEF PoolInit
<1> QED BY <1>1, QueueStep, PTL DEF PoolSpec, Spec

(* So every claim on the pool's queue that nobody disturbs delivers. *)
LEMMA PoolClaimsDeliver == PoolSpec => []UndisturbedClaimsDeliver
BY PoolRunsTheQueue, ClaimsDeliver, PTL

(* Whatever workers and callers do, tasks go through a FIFO queue that      *)
(* gives up its oldest one when it is full.                                *)
THEOREM TasksQueueInOrder == PoolSpec => ImplementsDropOldestQueue
BY PoolRunsTheQueue, QueueImplementsDropOldest, PTL

(* And a worker whose claim nobody disturbs takes the task pushed there.   *)
THEOREM WorkersTakeWhatWasPushed == PoolSpec => DeliversWhatItClaimed
BY PoolRunsTheQueue, PopsDeliver, PTL

-----------------------------------------------------------------------------
(* rest_size *)

(* A collision-free rest_size and what counts it. *)
RestInv ==
  /\ stage \in [Workers -> Stages]
  /\ RestCountsParked

LEMMA CountedFinite ==
  /\ IsFiniteSet(Counted) /\ Cardinality(Counted) \in Nat
  /\ Cardinality(Counted) <= Cardinality(Workers)
  /\ Cardinality(Workers) \in Nat
BY WorkersAssumption, FS_Subset, FS_CardinalityType DEF Counted

(* One more worker is counted, or one fewer. *)
LEMMA CountedAdd ==
  ASSUME NEW w \in Workers, w \notin Counted, Counted' = Counted \cup {w}
  PROVE  /\ Cardinality(Counted') = Cardinality(Counted) + 1
         /\ Cardinality(Counted') < Word
<1>1. Cardinality(Counted') = Cardinality(Counted) + 1
  BY CountedFinite, FS_AddElement
<1>2. Counted' \subseteq Workers
  BY DEF Counted
<1>3. Cardinality(Counted') <= Cardinality(Workers)
  BY <1>2, WorkersAssumption, FS_Subset
<1> QED BY <1>1, <1>3, CountedFinite, WordAssumption

LEMMA CountedRemove ==
  ASSUME NEW w \in Counted, Counted' = Counted \ {w}
  PROVE  /\ Cardinality(Counted') = Cardinality(Counted) - 1
         /\ Cardinality(Counted') \in 0 .. Word - 1
<1>1. Cardinality(Counted') = Cardinality(Counted) - 1
  BY CountedFinite, FS_RemoveElement
<1>2. Cardinality(Counted') \in Nat
  BY CountedFinite, FS_RemoveElement, FS_CardinalityType
<1> QED BY <1>1, <1>2, CountedFinite, WordAssumption

(* Numbers below Word are what they are modulo Word. *)
LEMMA SmallMod ==
  ASSUME NEW n \in 0 .. Word - 1
  PROVE  n % Word = n
BY WordAssumption

LEMMA NotifyKeepsCounted ==
  ASSUME stage \in [Workers -> Stages], NotifyOne \/ NotifyAll
  PROVE  stage' \in [Workers -> Stages] /\ Counted' = Counted
BY DEF NotifyOne, NotifyAll, Parked, Move, Stages, Counted

(* A worker that moves between two stages that both count, or both do not. *)
LEMMA MoveKeepsCounted ==
  ASSUME stage \in [Workers -> Stages], NEW w \in Workers, NEW to \in Stages,
         Move(w, to),
         (w \in Counted) <=> (to \in {"sleep", "waiting", "woken", "load", "dec"})
  PROVE  stage' \in [Workers -> Stages] /\ Counted' = Counted
BY DEF Move, Counted

LEMMA RestInv_Step == RestInv /\ [PoolNext]_vars => RestInv'
<1> SUFFICES ASSUME RestInv, [PoolNext]_vars PROVE RestInv'
  OBVIOUS
<1> USE DEF RestInv, RestCountsParked
<1>1. ASSUME NEW w \in Workers, Increment(w) PROVE RestInv'
  <2>1. /\ stage[w] = "inc" /\ stage' = [stage EXCEPT ![w] = "sleep"]
        /\ rest' = (tmp[w] + 1) % Word
        /\ collided' = (collided \/ rest # tmp[w])
    BY <1>1 DEF Increment, ParkStep, StoreRest, At, Move
  <2>2. /\ stage' \in [Workers -> Stages]
        /\ w \notin Counted /\ Counted' = Counted \cup {w}
    BY <2>1 DEF Counted, Stages
  <2>3. CASE ~collided'
    <3>1. tmp[w] = Cardinality(Counted)
      BY <2>1, <2>3
    <3>2. rest' = Cardinality(Counted')
      <4>1. /\ Cardinality(Counted') = Cardinality(Counted) + 1
            /\ Cardinality(Counted') < Word
        BY <2>2, CountedAdd
      <4>2. Cardinality(Counted') % Word = Cardinality(Counted')
        BY <4>1, CountedFinite, WordAssumption, SmallMod
      <4> QED BY <2>1, <3>1, <4>1, <4>2
    <3> QED BY <2>2, <3>2
  <2> QED BY <2>2, <2>3
<1>2. ASSUME NEW w \in Workers, Decrement(w) PROVE RestInv'
  <2>1. /\ stage[w] = "dec" /\ stage' = [stage EXCEPT ![w] = "pop"]
        /\ rest' = (tmp[w] - 1) % Word
        /\ collided' = (collided \/ rest # tmp[w])
    BY <1>2 DEF Decrement, ParkStep, StoreRest, At, Move
  <2>2. /\ stage' \in [Workers -> Stages]
        /\ w \in Counted /\ Counted' = Counted \ {w}
    BY <2>1 DEF Counted, Stages
  <2>3. CASE ~collided'
    <3>1. tmp[w] = Cardinality(Counted)
      BY <2>1, <2>3
    <3>2. rest' = Cardinality(Counted')
      <4>1. /\ Cardinality(Counted') = Cardinality(Counted) - 1
            /\ Cardinality(Counted') \in 0 .. Word - 1
        BY <2>2, CountedRemove
      <4>2. Cardinality(Counted') % Word = Cardinality(Counted')
        BY <4>1, SmallMod
      <4> QED BY <2>1, <3>1, <4>1, <4>2
    <3> QED BY <2>2, <3>2
  <2> QED BY <2>2, <2>3
<1>3. ASSUME NEW w \in Workers,
             Test(w) \/ Lock(w) \/ Sleep(w) \/ Unlock(w) \/ Load(w) \/ WakeSpuriously(w)
      PROVE  RestInv'
  <2>1. UNCHANGED <<rest, collided>>
    BY <1>3 DEF Test, Lock, Sleep, Unlock, Load, LoadRest, WakeSpuriously, parkVars
  <2>2. stage' \in [Workers -> Stages] /\ Counted' = Counted
    BY <1>3
       DEF Test, Lock, Sleep, Unlock, Load, WakeSpuriously, ParkStep, At, Move,
           Counted, Stages
  <2> QED BY <2>1, <2>2
<1>4. ASSUME NEW w \in Workers,
             \/ FindNothing(w) \/ ClaimTask(w) \/ BeginTake(w) \/ EndTake(w)
             \/ SkipEmpty(w) \/ CallTask(w) \/ Terminate(w) \/ Return(w)
             \/ ReadRest(w) \/ ReadSize(w) \/ Compare(w)
      PROVE  RestInv'
  <2>1. UNCHANGED <<rest, collided>>
    BY <1>4
       DEF FindNothing, ClaimTask, BeginTake, EndTake, SkipEmpty, CallTask,
           Terminate, Return, ReadRest, ReadSize, Compare, LoadRest, parkVars
  <2>2. \E from, to \in Stages \ {"sleep", "waiting", "woken", "load", "dec"} :
          At(w, from) /\ Move(w, to)
    BY <1>4
       DEF FindNothing, ClaimTask, BeginTake, EndTake, SkipEmpty, CallTask,
           Terminate, Return, ReadRest, ReadSize, Compare, TaskStep, Stages
  <2>3. stage' \in [Workers -> Stages] /\ Counted' = Counted
    BY <2>2, MoveKeepsCounted DEF At, Counted
  <2> QED BY <2>1, <2>3
<1>5. ASSUME NEW t \in Tasks, Submit(t) \/ SubmitStep(t) PROVE RestInv'
  <2>1. UNCHANGED <<rest, collided>>
    BY <1>5
       DEF Submit, SubmitStep, BeginStore, EndStore, SizeCheck, Notify, CallStep, parkVars
  <2>2. CASE UNCHANGED stage
    BY <2>1, <2>2 DEF Counted
  <2>3. CASE NotifyOne
    BY <2>1, <2>3, NotifyKeepsCounted
  <2> QED BY <1>5, <2>2, <2>3 DEF Submit, SubmitStep, BeginStore, EndStore, SizeCheck, Notify
<1>6. CASE Duty \/ Stop
  <2>1. UNCHANGED <<rest, collided>>
    BY <1>6 DEF Duty, Spawn, SpinEnds, Greet, StopNotify, Join, Stop, OwnerStep, parkVars
  <2>2. CASE UNCHANGED stage
    BY <2>1, <2>2 DEF Counted
  <2>3. CASE NotifyAll
    BY <2>1, <2>3, NotifyKeepsCounted
  <2>4. ASSUME NEW w \in Workers, Spawn(w) PROVE RestInv'
    <3>1. stage' \in [Workers -> Stages] /\ Counted' = Counted
      BY <2>4 DEF Spawn, At, Move, Counted, Stages
    <3> QED BY <2>1, <3>1
  <2> QED BY <1>6, <2>2, <2>3, <2>4 DEF Duty, SpinEnds, Greet, StopNotify, Join, Stop
<1>7. CASE UNCHANGED vars
  BY <1>7 DEF vars, parkVars, Counted
<1> QED BY <1>1, <1>2, <1>3, <1>4, <1>5, <1>6, <1>7 DEF PoolNext, WorkerStep

(* rest_size is the number of parked workers until two updates collide:    *)
(* the mutex-guarded increments and the unguarded decrements are each      *)
(* matched by a worker entering or leaving the counted stages.             *)
THEOREM RestSizeCounts == PoolSpec => []RestCountsParked
<1>1. PoolInit => RestInv
  <2> SUFFICES ASSUME PoolInit PROVE RestInv
    OBVIOUS
  <2>1. Counted = {} /\ rest = 0 /\ stage \in [Workers -> Stages]
    BY DEF PoolInit, Counted, Stages
  <2> QED BY <2>1, FS_EmptySet DEF RestInv, RestCountsParked
<1>2. RestInv => RestCountsParked
  BY DEF RestInv
<1> QED BY <1>1, <1>2, RestInv_Step, PTL DEF PoolSpec

-----------------------------------------------------------------------------
(* Where the tasks are *)

(* TaskAccounted with the types that its sets rest on. *)
AccountInv ==
  /\ stage \in [Workers -> Stages]
  /\ call \in [Tasks -> {"new", "push", "size", "notify", "done"}]
  /\ TaskAccounted

(* What the steps of the proof need of the queue. *)
LEMMA QueueFacts ==
  ASSUME UndisturbedClaimsDeliver
  PROVE  /\ WellFormed(impl)
         /\ val \in [Threads -> Elements] /\ due \in [Threads -> Values \cup {Empty}]
         /\ qpc \in [Threads -> {"idle"} \cup Copying \cup Moving]
         /\ owed \in [Positions -> Values \cup {Empty}]
         /\ LiveSlots(impl) \subseteq Positions
         /\ \A t \in Threads : qpc[t] = "idle" => due[t] = Empty
         /\ Empty \notin Tasks /\ Torn \notin Tasks
BY LiveArePositions, ElementAssumption
   DEF UndisturbedClaimsDeliver, TypeOK, PendingReads, Moving, Tasks

(* The tasks of the queue stay in it when cursor and owed do. *)
LEMMA QueuedStays ==
  ASSUME UNCHANGED <<impl, owed>>
  PROVE  Queued' = Queued
BY DEF Queued

(* A step that keeps stages and hands keeps what is accounted for. *)
LEMMA AccountStays ==
  ASSUME AccountInv, UNCHANGED <<impl, owed, due, dropped, spoiled>>,
         call' \in [Tasks -> {"new", "push", "size", "notify", "done"}],
         Submitted' = Submitted,
         \A w \in Workers : At(w, "call") => val'[w] = val[w],
         started \subseteq started',
         stage' \in [Workers -> Stages],
         \A w \in Workers : At(w, "call") =>
            stage'[w] = "call" \/ val[w] \notin Tasks \ started'
  PROVE  AccountInv'
<1>1. Queued' = Queued
  BY QueuedStays
<1>2. \A t \in InHand : t \in InHand' \/ t \notin Tasks \/ t \in started'
  BY DEF InHand, At
<1>3. Submitted \subseteq Tasks
  BY DEF Submitted
<1> QED BY <1>1, <1>2, <1>3 DEF AccountInv, TaskAccounted

LEMMA AccountSubmit ==
  ASSUME AccountInv, UndisturbedClaimsDeliver, NEW t \in Tasks, Submit(t)
  PROVE  AccountInv'
<1> DEFINE at == NextPush(impl).at
<1>1. /\ impl' = NextPush(impl).next
      /\ val' = [val EXCEPT ![t] = t]
      /\ owed' = [owed EXCEPT ![at] = t]
      /\ UNCHANGED <<due, stage, started, spoiled>>
      /\ call' = [call EXCEPT ![t] = "push"]
  BY DEF Submit, PushClaim, CallStep, taskVars
<1>2. dropped' = IF IsFull(impl) THEN dropped \cup {owed[impl.cur_start]} ELSE dropped
  BY DEF Submit
<1>3. at \in Positions /\ at \in LiveSlots(impl')
  BY <1>1, QueueFacts, NextPushFacts, LiveThroughPush
<1>4. t \in Queued'
  BY <1>1, <1>3, QueueFacts DEF Queued
<1>5. Queued \subseteq Queued' \cup dropped'
  <2> SUFFICES ASSUME NEW i \in LiveSlots(impl) PROVE owed[i] \in Queued' \cup dropped'
    BY DEF Queued
  <2>1. CASE i \in LiveSlots(impl') /\ i # at
    <3>1. owed'[i] = owed[i]
      BY <1>1, <2>1, QueueFacts
    <3> QED BY <2>1, <3>1 DEF Queued
  <2>2. CASE IsFull(impl) /\ i = impl.cur_start
    BY <1>2, <2>2
  <2> QED BY <1>1, <2>1, <2>2, QueueFacts, LiveThroughPush
<1>6. InHand' = InHand
  <2>1. \A w \in Workers : val'[w] = val[w]
    BY <1>1, ThreadFacts, QueueFacts
  <2> QED BY <1>1, <2>1 DEF InHand, At
<1>7. Submitted' = Submitted \cup {t}
  BY <1>1 DEF Submitted, AccountInv
<1>8. dropped \subseteq dropped'
  BY <1>2
<1>9. Submitted' \subseteq Queued' \cup InHand' \cup started' \cup dropped' \cup spoiled'
  BY <1>1, <1>4, <1>5, <1>6, <1>7, <1>8 DEF AccountInv, TaskAccounted
<1> QED BY <1>1, <1>9 DEF AccountInv, TaskAccounted

LEMMA AccountClaim ==
  ASSUME AccountInv, UndisturbedClaimsDeliver, NEW w \in Workers, ClaimTask(w)
  PROVE  AccountInv'
<1> DEFINE at == NextPop(impl).at
<1>1. /\ impl' = NextPop(impl).next /\ at # NoPos /\ qpc[w] = "idle"
      /\ val' = [val EXCEPT ![w] = Empty]
      /\ due' = [due EXCEPT ![w] = owed[at]]
      /\ owed' = [owed EXCEPT ![at] = Empty]
      /\ stage[w] = "pop" /\ stage' = [stage EXCEPT ![w] = "take"]
      /\ UNCHANGED <<call, started, dropped, spoiled>>
  BY DEF ClaimTask, PopClaim, TaskStep, At, Move, callVars, taskVars, lossVars
<1>2. impl.cur_size # 0
  BY <1>1, QueueFacts, NextPopFacts
<1>3. at \in Positions /\ at \notin LiveSlots(impl')
  BY <1>1, <1>2, QueueFacts, NextPopFacts, LiveAfterPop
<1>4. w \in Threads /\ due[w] = Empty
  BY <1>1, ThreadFacts, QueueFacts
<1>5. due'[w] = owed[at] /\ \A v \in Workers \ {w} : due'[v] = due[v] /\ val'[v] = val[v]
  BY <1>1, <1>4, ThreadFacts, QueueFacts
<1>6. Queued \subseteq Queued' \cup InHand'
  <2> SUFFICES ASSUME NEW i \in LiveSlots(impl) PROVE owed[i] \in Queued' \cup InHand'
    BY DEF Queued
  <2>1. CASE i = at
    BY <1>5, <2>1 DEF InHand
  <2>2. CASE i # at
    <3>1. i \in LiveSlots(impl')
      BY <1>1, <1>2, <2>2, QueueFacts, LiveThroughPop
    <3>2. owed'[i] = owed[i]
      BY <1>1, <2>2, QueueFacts
    <3> QED BY <3>1, <3>2 DEF Queued
  <2> QED BY <2>1, <2>2
<1>7. \A t \in InHand : t \in InHand' \/ t = Empty
  <2>1. \A v \in Workers : At(v, "call") => v # w /\ stage'[v] = "call"
    BY <1>1 DEF At, AccountInv
  <2> QED BY <1>4, <1>5, <2>1 DEF InHand, At
<1>8. Submitted' = Submitted /\ Empty \notin Submitted
  BY <1>1, QueueFacts DEF Submitted
<1>9. stage' \in [Workers -> Stages]
  BY <1>1 DEF AccountInv, Stages
<1> QED BY <1>1, <1>6, <1>7, <1>8, <1>9 DEF AccountInv, TaskAccounted

(* Nothing is in the queue that safe_pop_pos finds empty. *)
LEMMA AccountFindNothing ==
  ASSUME AccountInv, UndisturbedClaimsDeliver, NEW w \in Workers, FindNothing(w)
  PROVE  AccountInv'
<1>1. /\ NextPop(impl).at = NoPos
      /\ UNCHANGED <<val, due, owed, call, started, dropped, spoiled>>
      /\ stage[w] = "pop" /\ stage' = [stage EXCEPT ![w] = "call"]
  BY DEF FindNothing, PopNothing, TaskStep, At, Move, callVars, taskVars, lossVars
<1>2. impl.cur_size = 0
  BY <1>1, QueueFacts, NextPopFacts
<1>3. Queued = {}
  BY <1>2 DEF Queued, LiveSlots
<1>4. InHand \subseteq InHand'
  BY <1>1 DEF InHand, At, AccountInv
<1>5. Submitted' = Submitted
  BY <1>1 DEF Submitted
<1>6. stage' \in [Workers -> Stages]
  BY <1>1 DEF AccountInv, Stages
<1> QED BY <1>1, <1>3, <1>4, <1>5, <1>6 DEF AccountInv, TaskAccounted

(* What the worker gets is the task it claimed, or that task is spoiled. *)
LEMMA AccountEndTake ==
  ASSUME AccountInv, UndisturbedClaimsDeliver, NEW w \in Workers, EndTake(w)
  PROVE  AccountInv'
<1>1. PICK r : val' = [val EXCEPT ![w] = r]
  BY DEF EndTake, EndMove
<1>2. /\ due' = [due EXCEPT ![w] = Empty]
      /\ UNCHANGED <<impl, owed, call, started, dropped>>
      /\ stage[w] = "take" /\ stage' = [stage EXCEPT ![w] = "call"]
      /\ spoiled' = IF val'[w] = due[w] THEN spoiled ELSE spoiled \cup {due[w]}
  BY DEF EndTake, EndMove, TaskStep, At, Move, callVars, taskVars
<1>3. w \in Threads /\ w \in DOMAIN val /\ stage'[w] = "call"
  BY <1>2, ThreadFacts, QueueFacts DEF AccountInv
<1>4. \A v \in Workers \ {w} : due'[v] = due[v] /\ val'[v] = val[v] /\ stage'[v] = stage[v]
  BY <1>1, <1>2, ThreadFacts, QueueFacts DEF AccountInv
<1>5. due[w] \in InHand' \cup spoiled'
  BY <1>2, <1>3 DEF InHand, At
<1>6. InHand \subseteq InHand' \cup spoiled'
  <2>1. ASSUME NEW v \in Workers, v # w PROVE due[v] \in InHand'
    BY <1>4, <2>1 DEF InHand
  <2>2. ASSUME NEW v \in Workers, At(v, "call") PROVE val[v] \in InHand'
    BY <1>2, <1>4, <2>2 DEF InHand, At
  <2> QED BY <1>5, <2>1, <2>2 DEF InHand
<1>7. Queued' = Queued /\ Submitted' = Submitted /\ spoiled \subseteq spoiled'
  BY <1>2 DEF Queued, Submitted
<1>8. stage' \in [Workers -> Stages]
  BY <1>2 DEF AccountInv, Stages
<1> QED BY <1>2, <1>6, <1>7, <1>8 DEF AccountInv, TaskAccounted

LEMMA AccountInv_Step ==
  AccountInv /\ UndisturbedClaimsDeliver /\ [PoolNext]_vars => AccountInv'
<1> SUFFICES ASSUME AccountInv, UndisturbedClaimsDeliver, [PoolNext]_vars PROVE AccountInv'
  OBVIOUS
<1>0. stage \in [Workers -> Stages]
  BY DEF AccountInv
<1>1. ASSUME NEW w \in Workers,
             \/ Test(w) \/ Lock(w) \/ Increment(w) \/ Sleep(w)
             \/ Unlock(w) \/ Load(w) \/ Decrement(w) \/ WakeSpuriously(w)
      PROVE  AccountInv'
  <2>1. UNCHANGED <<queueVars, call, lossVars, started>>
    BY <1>1
       DEF Test, Lock, Increment, Sleep, Unlock, Load, Decrement, WakeSpuriously,
           ParkStep, callVars, taskVars
  <2>2. \E to \in Stages : ~At(w, "call") /\ Move(w, to)
    BY <1>1
       DEF Test, Lock, Increment, Sleep, Unlock, Load, Decrement, WakeSpuriously,
           ParkStep, At, Move, Stages
  <2> QED BY <1>0, <2>1, <2>2, AccountStays
         DEF Move, At, queueVars, lossVars, Submitted, AccountInv
<1>2. ASSUME NEW w \in Workers,
             \/ BeginTake(w) \/ Return(w) \/ ReadRest(w) \/ ReadSize(w)
      PROVE  AccountInv'
  <2>1. UNCHANGED <<impl, val, owed, due, call, lossVars>> /\ started \subseteq started'
    BY <1>2
       DEF BeginTake, BeginMove, Return, ReadRest, ReadSize, TaskStep, queueVars,
           callVars, taskVars
  <2>2. \E to \in Stages : ~At(w, "call") /\ Move(w, to)
    BY <1>2 DEF BeginTake, Return, ReadRest, ReadSize, TaskStep, At, Move, Stages
  <2> QED BY <1>0, <2>1, <2>2, AccountStays
         DEF Move, At, lossVars, Submitted, AccountInv
<1>3. ASSUME NEW w \in Workers, SkipEmpty(w) \/ CallTask(w) \/ Terminate(w)
      PROVE  AccountInv'
  <2>1. UNCHANGED <<impl, val, owed, due, call, lossVars>> /\ started \subseteq started'
    BY <1>3
       DEF SkipEmpty, CallTask, Terminate, TaskStep, queueVars, callVars, taskVars
  <2>2. val[w] \notin Tasks \ started'
    BY <1>3, QueueFacts DEF SkipEmpty, CallTask, Terminate, taskVars
  <2>3. \E to \in Stages : Move(w, to)
    BY <1>3 DEF SkipEmpty, CallTask, Terminate, TaskStep, Stages
  <2> QED BY <1>0, <2>1, <2>2, <2>3, AccountStays
         DEF Move, At, lossVars, Submitted, AccountInv
<1>4. ASSUME NEW w \in Workers, Compare(w) PROVE AccountInv'
  <2>1. /\ UNCHANGED <<impl, owed, due, call, dropped, spoiled, started>>
        /\ val' = val \/ val' = [val EXCEPT ![w] = Empty]
    BY <1>4 DEF Compare, Forget, TaskStep, queueVars, callVars, taskVars
  <2>2. ~At(w, "call") /\ \E to \in Stages : Move(w, to)
    BY <1>4 DEF Compare, TaskStep, At, Stages
  <2>3. \A v \in Workers : At(v, "call") => val'[v] = val[v]
    BY <2>1, <2>2, ThreadFacts, QueueFacts
  <2> QED BY <1>0, <2>1, <2>2, <2>3, AccountStays
         DEF Move, At, Submitted, AccountInv
<1>5. ASSUME NEW t \in Tasks, SubmitStep(t) PROVE AccountInv'
  <2>1. /\ UNCHANGED <<impl, owed, due, dropped, spoiled, started>>
        /\ val' = val \/ val' = [val EXCEPT ![t] = Empty]
    BY <1>5
       DEF SubmitStep, BeginStore, BeginCopy, EndStore, EndCopy, SizeCheck, Notify,
           CallStep, queueVars, taskVars
  <2>2. /\ call[t] # "new"
        /\ \E to \in {"push", "size", "notify", "done"} : call' = [call EXCEPT ![t] = to]
    BY <1>5 DEF SubmitStep, BeginStore, EndStore, SizeCheck, Notify, CallStep
  <2>3. /\ call' \in [Tasks -> {"new", "push", "size", "notify", "done"}]
        /\ Submitted' = Submitted
    BY <2>2 DEF Submitted, AccountInv
  <2>4. \A v \in Workers : val'[v] = val[v]
    BY <2>1, ThreadFacts, QueueFacts
  <2>5. UNCHANGED stage \/ NotifyOne
    BY <1>5 DEF SubmitStep, BeginStore, EndStore, SizeCheck, Notify
  <2>6. /\ stage' \in [Workers -> Stages]
        /\ \A v \in Workers : At(v, "call") => stage'[v] = "call"
    BY <1>0, <2>5 DEF NotifyOne, Move, Parked, At, Stages
  <2> QED BY <2>1, <2>3, <2>4, <2>6, AccountStays
<1>6. CASE Duty \/ Stop
  <2>1. UNCHANGED <<queueVars, call, lossVars, started>>
    BY <1>6
       DEF Duty, Spawn, SpinEnds, Greet, StopNotify, Join, Stop, OwnerStep, callVars, taskVars
  <2>2. \/ UNCHANGED stage \/ NotifyAll
        \/ \E w \in Workers : At(w, "unborn") /\ Move(w, "test")
    BY <1>6 DEF Duty, Spawn, SpinEnds, Greet, StopNotify, Join, Stop
  <2>3. /\ stage' \in [Workers -> Stages]
        /\ \A v \in Workers : At(v, "call") => stage'[v] = "call"
    BY <1>0, <2>2 DEF NotifyAll, Move, Parked, At, Stages
  <2> QED BY <2>1, <2>3, AccountStays DEF queueVars, lossVars, Submitted, AccountInv
<1>7. CASE UNCHANGED vars
  BY <1>0, <1>7, AccountStays
     DEF vars, queueVars, callVars, taskVars, lossVars, Submitted, At, AccountInv
<1> QED BY <1>1, <1>2, <1>3, <1>4, <1>5, <1>6, <1>7, AccountSubmit, AccountClaim,
           AccountFindNothing, AccountEndTake
       DEF PoolNext, WorkerStep

(* No submitted task is lost but for those that a full queue drops and     *)
(* those that overlapping claims of one slot spoil.                        *)
THEOREM NoTaskIsLost == PoolSpec => []TaskAccounted
<1>1. PoolInit => AccountInv
  <2> SUFFICES ASSUME PoolInit PROVE AccountInv
    OBVIOUS
  <2>1. /\ stage \in [Workers -> Stages]
        /\ call \in [Tasks -> {"new", "push", "size", "notify", "done"}]
        /\ Submitted = {}
    BY DEF PoolInit, Stages, Submitted
  <2> QED BY <2>1 DEF AccountInv, TaskAccounted
<1>2. AccountInv => TaskAccounted
  BY DEF AccountInv
<1> QED BY <1>1, <1>2, AccountInv_Step, PoolClaimsDeliver, PTL DEF PoolSpec

-----------------------------------------------------------------------------
(* Types *)

(* What the types of dropped, spoiled, left and finished rest on. *)
DuesAreTasks == \A t \in Threads : qpc[t] \in Moving => due[t] \in Tasks

NotifiesAreLeft == \A t \in Tasks : call[t] = "notify" => left[t] # 0

RunningAreStarted ==
  ~crashed => \A w \in Workers : stage[w] = "running" => val[w] \in started

TypeInv == PoolTypeOK /\ DuesAreTasks /\ NotifiesAreLeft /\ RunningAreStarted

LEMMA PoolSizeFacts ==
  PoolSize \in Nat /\ PoolSize < Word /\ Word \in Nat
BY WorkersAssumption, WordAssumption, FS_CardinalityType DEF PoolSize

LEMMA ModWord ==
  ASSUME NEW n \in Int
  PROVE  n % Word \in 0 .. Word - 1
BY PoolSizeFacts

(* Only a pop claim makes a thread due an element, and it is a task. *)
LEMMA DuesStayTasks ==
  ASSUME UndisturbedClaimsDeliver, DuesAreTasks, [Next]_queueVars
  PROVE  DuesAreTasks'
<1> USE DEF DuesAreTasks
<1>1. ASSUME NEW t \in Threads, PopClaim(t) PROVE DuesAreTasks'
  <2>1. /\ NextPop(impl).at # NoPos
        /\ due' = [due EXCEPT ![t] = owed[NextPop(impl).at]]
        /\ qpc' = [qpc EXCEPT ![t] = "pop_got"]
    BY <1>1 DEF PopClaim, Goto
  <2>2. NextPop(impl).at \in LiveSlots(impl)
    BY <2>1, QueueFacts, NextPopFacts, LiveAfterPop
  <2>3. owed[NextPop(impl).at] \in Tasks
    BY <2>2 DEF UndisturbedClaimsDeliver, LiveAreOwed, Tasks
  <2> QED BY <2>1, <2>3, QueueFacts
<1>2. ASSUME NEW t \in Threads, NEW v \in Values, PushClaim(t, v) PROVE DuesAreTasks'
  BY <1>2, QueueFacts DEF PushClaim, Goto, Moving
<1>3. ASSUME NEW t \in Threads, BeginCopy(t) \/ EndCopy(t) \/ BeginMove(t) PROVE DuesAreTasks'
  BY <1>3, QueueFacts DEF BeginCopy, EndCopy, BeginMove, Goto, Moving
<1>4. ASSUME NEW t \in Threads, EndMove(t) PROVE DuesAreTasks'
  BY <1>4, QueueFacts DEF EndMove, Goto, Moving
<1>5. ASSUME NEW t \in Threads, PopNothing(t) \/ Forget(t) PROVE DuesAreTasks'
  BY <1>5 DEF PopNothing, Forget
<1>6. CASE Clear \/ UNCHANGED queueVars
  BY <1>6 DEF Clear, queueVars
<1> QED BY <1>1, <1>2, <1>3, <1>4, <1>5, <1>6 DEF Next

(* Every type but the queue's. *)
LEMMA TypeInv_Step ==
  TypeInv /\ UndisturbedClaimsDeliver /\ UndisturbedClaimsDeliver' /\ [PoolNext]_vars
    => TypeInv'
<1> SUFFICES ASSUME TypeInv, UndisturbedClaimsDeliver, UndisturbedClaimsDeliver',
                    [PoolNext]_vars
             PROVE  TypeInv'
  OBVIOUS
<1>a. TypeOK' /\ DuesAreTasks'
  BY QueueStep, DuesStayTasks DEF TypeInv, UndisturbedClaimsDeliver
<1>b. PoolTypeOK /\ DuesAreTasks /\ NotifiesAreLeft /\ RunningAreStarted
  BY DEF TypeInv
<1>c. /\ stage \in [Workers -> Stages] /\ tmp \in [Workers -> Nat]
      /\ call \in [Tasks -> {"new", "push", "size", "notify", "done"}]
      /\ left \in [Tasks -> 0 .. PoolSize] /\ rest \in 0 .. Word - 1
  BY <1>b DEF PoolTypeOK
<1>d. impl.cur_size \in Nat
  BY QueueFacts, CursorFields DEF WellFormed
<1>1. ASSUME NEW w \in Workers,
             \/ Test(w) \/ Lock(w) \/ Increment(w) \/ Sleep(w)
             \/ Unlock(w) \/ Load(w) \/ Decrement(w) \/ WakeSpuriously(w)
      PROVE  TypeInv'
  <2>1. /\ UNCHANGED <<queueVars, ownerVars, callVars, taskVars, lossVars>>
        /\ \E to \in Stages \ {"running"} : Move(w, to)
    BY <1>1
       DEF Test, Lock, Increment, Sleep, Unlock, Load, Decrement, WakeSpuriously,
           ParkStep, Stages
  <2>2. tmp' = tmp \/ tmp' = [tmp EXCEPT ![w] = rest] \/ tmp' = [tmp EXCEPT ![w] = 0]
    BY <1>1
       DEF Test, Lock, Increment, Sleep, Unlock, Load, Decrement, WakeSpuriously,
           LoadRest, StoreRest, parkVars
  <2>3. rest' = rest \/ rest' = (tmp[w] + 1) % Word \/ rest' = (tmp[w] - 1) % Word
    BY <1>1
       DEF Test, Lock, Increment, Sleep, Unlock, Load, Decrement, WakeSpuriously,
           LoadRest, StoreRest, parkVars
  <2>4. rest' \in 0 .. Word - 1
    BY <1>c, <2>3, ModWord
  <2>5. tmp' \in [Workers -> Nat]
    BY <1>c, <2>2, PoolSizeFacts
  <2>6. mtx' \in SUBSET Workers /\ collided' \in BOOLEAN
    BY <1>1, <1>b
       DEF Test, Lock, Increment, Sleep, Unlock, Load, Decrement, WakeSpuriously,
           LoadRest, StoreRest, parkVars, PoolTypeOK
  <2>7. wakeups' \in 0 .. MaxSpurious
    BY <1>1, <1>b, SpuriousAssumption
       DEF Test, Lock, Increment, Sleep, Unlock, Load, Decrement, WakeSpuriously,
           ParkStep, PoolTypeOK
  <2>8. /\ stage' \in [Workers -> Stages]
        /\ \A v \in Workers : stage'[v] = "running" => stage[v] = "running"
    BY <1>c, <2>1 DEF Move
  <2>9. PoolTypeOK'
    BY <1>a, <1>b, <2>1, <2>4, <2>5, <2>6, <2>7, <2>8
       DEF PoolTypeOK, ownerVars, callVars, taskVars, lossVars
  <2> QED BY <1>a, <1>b, <2>1, <2>8, <2>9
         DEF TypeInv, NotifiesAreLeft, RunningAreStarted, queueVars, callVars, taskVars
<1>2. ASSUME NEW w \in Workers,
             \/ FindNothing(w) \/ ClaimTask(w) \/ BeginTake(w) \/ EndTake(w)
             \/ SkipEmpty(w) \/ ReadRest(w) \/ ReadSize(w) \/ Compare(w)
      PROVE  TypeInv'
  <2>1. /\ UNCHANGED <<ownerVars, callVars, taskVars, rest, mtx, collided, wakeups, dropped>>
        /\ stage[w] # "running"
        /\ \E to \in Stages \ {"running"} : Move(w, to)
    BY <1>2
       DEF FindNothing, ClaimTask, BeginTake, EndTake, SkipEmpty, ReadRest, ReadSize,
           Compare, LoadRest, TaskStep, At, Stages, parkVars, lossVars
  <2>2. \E n \in Nat : tmp' = tmp \/ tmp' = [tmp EXCEPT ![w] = n]
    BY <1>2, <1>c, <1>d, PoolSizeFacts
       DEF FindNothing, ClaimTask, BeginTake, EndTake, SkipEmpty, ReadRest, ReadSize,
           Compare, LoadRest, parkVars
  <2>3. spoiled' \subseteq Tasks /\ unsure' \subseteq Workers
    <3>1. CASE EndTake(w)
      BY <1>b, <3>1, ThreadFacts DEF EndTake, EndMove, DuesAreTasks, Moving, PoolTypeOK
    <3> QED BY <1>2, <1>b, <3>1
           DEF FindNothing, ClaimTask, BeginTake, SkipEmpty, ReadRest, ReadSize, Compare,
               lossVars, PoolTypeOK
  <2>4. \A v \in Workers \ {w} : val'[v] = val[v]
    BY <1>2, ThreadFacts, QueueFacts
       DEF FindNothing, PopNothing, ClaimTask, PopClaim, BeginTake, BeginMove, EndTake,
           EndMove, SkipEmpty, ReadRest, ReadSize, Compare, Forget, queueVars
  <2>5. /\ stage' \in [Workers -> Stages]
        /\ \A v \in Workers : stage'[v] = "running" => v # w /\ stage[v] = "running"
    BY <1>c, <2>1 DEF Move
  <2>6. PoolTypeOK'
    BY <1>a, <1>b, <1>c, <2>1, <2>2, <2>3, <2>5
       DEF PoolTypeOK, ownerVars, callVars, taskVars
  <2> QED BY <1>a, <1>b, <2>1, <2>4, <2>5, <2>6
         DEF TypeInv, NotifiesAreLeft, RunningAreStarted, callVars, taskVars
<1>3. ASSUME NEW w \in Workers, ~crashed, CallTask(w) \/ Terminate(w) \/ Return(w)
      PROVE  TypeInv'
  <2>1. /\ UNCHANGED <<queueVars, ownerVars, callVars, parkVars, wakeups, lossVars>>
        /\ \E to \in Stages : Move(w, to)
    BY <1>3 DEF CallTask, Terminate, Return, TaskStep, Stages
  <2>2. stage' \in [Workers -> Stages]
    BY <1>c, <2>1 DEF Move
  <2>3. CASE CallTask(w)
    <3>1. /\ val[w] \in Tasks /\ started' = started \cup {val[w]} /\ UNCHANGED <<finished, crashed>>
          /\ stage' = [stage EXCEPT ![w] = "running"]
      BY <2>3 DEF CallTask, TaskStep, Move
    <3>2. RunningAreStarted'
      BY <1>b, <1>c, <2>1, <3>1 DEF RunningAreStarted, queueVars
    <3>3. PoolTypeOK'
      BY <1>a, <1>b, <2>1, <2>2, <3>1 DEF PoolTypeOK, ownerVars, callVars, parkVars, lossVars
    <3> QED BY <1>a, <1>b, <2>1, <3>2, <3>3 DEF TypeInv, NotifiesAreLeft, callVars
  <2>4. CASE Terminate(w)
    <3>1. crashed' = TRUE /\ UNCHANGED <<started, finished>>
      BY <2>4 DEF Terminate
    <3>2. PoolTypeOK'
      BY <1>a, <1>b, <2>1, <2>2, <3>1 DEF PoolTypeOK, ownerVars, callVars, parkVars, lossVars
    <3> QED BY <1>a, <1>b, <2>1, <3>1, <3>2
           DEF TypeInv, NotifiesAreLeft, RunningAreStarted, callVars
  <2>5. CASE Return(w)
    <3>1. /\ stage[w] = "running" /\ finished' = finished \cup {val[w]}
          /\ UNCHANGED <<started, crashed>> /\ stage' = [stage EXCEPT ![w] = "compare"]
      BY <2>5 DEF Return, TaskStep, At, Move
    <3>2. val[w] \in started
      BY <1>3, <1>b, <3>1 DEF RunningAreStarted
    <3>3. RunningAreStarted'
      BY <1>b, <1>c, <2>1, <3>1 DEF RunningAreStarted, queueVars
    <3>4. PoolTypeOK'
      BY <1>a, <1>b, <2>1, <2>2, <3>1, <3>2
         DEF PoolTypeOK, ownerVars, callVars, parkVars, lossVars
    <3> QED BY <1>a, <1>b, <2>1, <3>3, <3>4 DEF TypeInv, NotifiesAreLeft, callVars
  <2> QED BY <1>3, <2>3, <2>4, <2>5
<1>4. ASSUME NEW t \in Tasks, Submit(t) \/ SubmitStep(t) PROVE TypeInv'
  <2>1. UNCHANGED <<ownerVars, parkVars, taskVars, wakeups, spoiled, unsure>>
    BY <1>4 DEF Submit, SubmitStep, BeginStore, EndStore, SizeCheck, Notify, CallStep
  <2>2. dropped' \subseteq Tasks
    <3>1. CASE Submit(t)
      <4>1. IsFull(impl) => owed[impl.cur_start] \in Tasks
        BY QueueFacts, LiveThroughPush DEF UndisturbedClaimsDeliver, LiveAreOwed, Tasks
      <4> QED BY <1>b, <3>1, <4>1 DEF Submit, PoolTypeOK
    <3> QED BY <1>4, <1>b, <3>1
           DEF SubmitStep, BeginStore, EndStore, SizeCheck, Notify, PoolTypeOK
  <2>3. \A v \in Workers : val'[v] = val[v]
    BY <1>4, ThreadFacts, QueueFacts
       DEF Submit, PushClaim, SubmitStep, BeginStore, BeginCopy, EndStore, EndCopy,
           SizeCheck, Notify, queueVars
  <2>4. UNCHANGED stage \/ NotifyOne
    BY <1>4 DEF Submit, SubmitStep, BeginStore, EndStore, SizeCheck, Notify
  <2>5. /\ stage' \in [Workers -> Stages]
        /\ \A v \in Workers : stage'[v] = "running" => stage[v] = "running"
    BY <1>c, <2>4 DEF NotifyOne, Move, Stages
  <2>6. /\ call' \in [Tasks -> {"new", "push", "size", "notify", "done"}]
        /\ left' \in [Tasks -> 0 .. PoolSize]
        /\ NotifiesAreLeft'
    <3>1. CASE Submit(t) \/ BeginStore(t) \/ EndStore(t)
      BY <1>b, <1>c, <3>1
         DEF Submit, BeginStore, EndStore, CallStep, NotifiesAreLeft
    <3>2. CASE SizeCheck(t)
      <4>1. CASE 0 < impl.cur_size /\ impl.cur_size <= PoolSize
        <5>1. /\ impl.cur_size \in 0 .. PoolSize /\ impl.cur_size # 0
              /\ call' = [call EXCEPT ![t] = "notify"]
              /\ left' = [left EXCEPT ![t] = impl.cur_size]
          BY <3>2, <4>1, <1>d, PoolSizeFacts DEF SizeCheck, CallStep
        <5> QED BY <1>b, <1>c, <5>1 DEF NotifiesAreLeft
      <4>2. CASE ~(0 < impl.cur_size /\ impl.cur_size <= PoolSize)
        <5>1. /\ call' = [call EXCEPT ![t] = "done"]
              /\ left' = [left EXCEPT ![t] = 0]
          BY <3>2, <4>2 DEF SizeCheck, CallStep
        <5> QED BY <1>b, <1>c, <5>1, PoolSizeFacts DEF NotifiesAreLeft
      <4> QED BY <4>1, <4>2
    <3>3. CASE Notify(t)
      <4>1. /\ call[t] = "notify" /\ left' = [left EXCEPT ![t] = left[t] - 1]
            /\ call' = [call EXCEPT ![t] = IF left[t] = 1 THEN "done" ELSE "notify"]
        BY <3>3 DEF Notify, CallStep
      <4>2. left[t] \in 1 .. PoolSize
        BY <1>b, <1>c, <4>1, PoolSizeFacts DEF NotifiesAreLeft
      <4>3. left[t] - 1 \in 0 .. PoolSize /\ (left[t] # 1 => left[t] - 1 # 0)
        BY <4>2, PoolSizeFacts
      <4> QED BY <1>b, <1>c, <4>1, <4>3 DEF NotifiesAreLeft
    <3> QED BY <1>4, <3>1, <3>2, <3>3 DEF SubmitStep
  <2>7. PoolTypeOK'
    BY <1>a, <1>b, <2>1, <2>2, <2>5, <2>6 DEF PoolTypeOK, ownerVars, parkVars, taskVars
  <2> QED BY <1>a, <1>b, <2>1, <2>3, <2>5, <2>6, <2>7 DEF TypeInv, RunningAreStarted, taskVars
<1>5. CASE Duty \/ Stop
  <2>1. UNCHANGED <<queueVars, parkVars, callVars, taskVars, wakeups, lossVars>>
    BY <1>5 DEF Duty, Spawn, SpinEnds, Greet, StopNotify, Join, Stop, OwnerStep
  <2>2. /\ owner' \in {"spawning", "greeting", "open", "stopping", "joining", "stopped"}
        /\ needStop' \in BOOLEAN
    BY <1>5, <1>b
       DEF Duty, Spawn, SpinEnds, Greet, StopNotify, Join, Stop, OwnerStep, PoolTypeOK
  <2>3. \/ UNCHANGED stage \/ NotifyAll
        \/ \E w \in Workers : Move(w, "test")
    BY <1>5 DEF Duty, Spawn, SpinEnds, Greet, StopNotify, Join, Stop
  <2>4. /\ stage' \in [Workers -> Stages]
        /\ \A v \in Workers : stage'[v] = "running" => stage[v] = "running"
    BY <1>c, <2>3 DEF NotifyAll, Move, Stages
  <2>5. PoolTypeOK'
    BY <1>a, <1>b, <2>1, <2>2, <2>4 DEF PoolTypeOK, parkVars, callVars, taskVars, lossVars
  <2> QED BY <1>a, <1>b, <2>1, <2>4, <2>5
         DEF TypeInv, NotifiesAreLeft, RunningAreStarted, queueVars, callVars, taskVars
<1>6. CASE UNCHANGED vars
  <2>1. PoolTypeOK'
    BY <1>a, <1>b, <1>6
       DEF vars, PoolTypeOK, ownerVars, parkVars, callVars, taskVars, lossVars
  <2> QED BY <1>a, <1>b, <1>6, <2>1
         DEF vars, TypeInv, NotifiesAreLeft, RunningAreStarted, queueVars, callVars, taskVars
<1> QED BY <1>1, <1>2, <1>3, <1>4, <1>5, <1>6 DEF PoolNext, WorkerStep

LEMMA TypesHold == PoolSpec => []TypeInv
<1>1. PoolInit => TypeInv
  <2> SUFFICES ASSUME PoolInit PROVE TypeInv
    OBVIOUS
  <2>1. TypeOK /\ \A t \in Threads : qpc[t] = "idle"
    BY InitConsistent DEF PoolInit, Init, UndisturbedClaimsDeliver
  <2>2. stage = [w \in Workers |-> "unborn"] /\ stage \in [Workers -> Stages]
    BY DEF PoolInit, Stages
  <2>3. /\ rest \in 0 .. Word - 1 /\ wakeups \in 0 .. MaxSpurious
        /\ tmp \in [Workers -> Nat] /\ left \in [Tasks -> 0 .. PoolSize]
    BY PoolSizeFacts, SpuriousAssumption DEF PoolInit
  <2>4. /\ call \in [Tasks -> {"new", "push", "size", "notify", "done"}]
        /\ owner \in {"spawning", "greeting", "open", "stopping", "joining", "stopped"}
        /\ needStop \in BOOLEAN /\ crashed \in BOOLEAN /\ collided \in BOOLEAN
    BY DEF PoolInit
  <2>5. PoolTypeOK
    BY <2>1, <2>2, <2>3, <2>4 DEF PoolInit, PoolTypeOK
  <2> QED BY <2>1, <2>2, <2>5
         DEF PoolInit, TypeInv, DuesAreTasks, NotifiesAreLeft, RunningAreStarted, Moving
<1> QED BY <1>1, TypeInv_Step, PoolClaimsDeliver, PTL DEF PoolSpec

(* The pool's variables keep their types; in particular only called tasks  *)
(* finish, and submit never notifies more often than there are workers.    *)
THEOREM PoolTypeCorrect == PoolSpec => []PoolTypeOK
<1>1. TypeInv => PoolTypeOK
  BY DEF TypeInv
<1> QED BY <1>1, TypesHold, PTL

-----------------------------------------------------------------------------
(* Which tasks a worker may call *)

(* A task that nobody has submitted is nowhere. *)
NewIsNowhere ==
  \A x \in Tasks : call[x] = "new" =>
    /\ x \notin started
    /\ \A t \in Threads : val[t] # x /\ due[t] # x
    /\ \A j \in Positions : data[j] # x /\ owed[j] # x

(* Only the thread of a task copies, and only that task. *)
TasksCopy ==
  /\ \A x \in Tasks : IF qpc[x] = "idle" THEN val[x] = Empty
                      ELSE qpc[x] \in Copying /\ val[x] = x
  /\ \A w \in Workers : qpc[w] \notin Copying

OnlyAt(x, i) ==
  /\ qpc[x] # "idle" => pos[x] = i
  /\ \A j \in Positions : j # i => data[j] # x

(* A task that a slot is owed, or a worker is due, is owed or due once and *)
(* is in no other slot.                                                    *)
OwedOnce ==
  \A i \in Positions : owed[i] # Empty =>
    /\ OnlyAt(owed[i], i)
    /\ \A j \in Positions : j # i => owed[j] # owed[i]
    /\ \A w \in Workers : due[w] # owed[i]

DueOnce ==
  \A w \in Workers : due[w] # Empty =>
    /\ OnlyAt(due[w], pos[w])
    /\ \A v \in Workers : v # w => due[v] # due[w]

Untaken(x) == x \notin started /\ \A w \in Workers : val[w] # x

(* Nobody has got hold of a task whose slot is not shared. *)
SoundAreUntaken ==
  /\ \A i \in Positions \ hazy : owed[i] # Empty =>
       Untaken(owed[i]) /\ \A t \in InFlight(i) : qpc[t] \in Copying
  /\ \A w \in Workers : due[w] # Empty /\ pos[w] \notin hazy => Untaken(due[w])

(* No slot holds it and nobody is owed it, due it or pushing it. *)
Gone(x) ==
  /\ call[x] # "new" /\ qpc[x] = "idle"
  /\ \A j \in Positions : data[j] # x /\ owed[j] # x
  /\ \A w \in Workers : due[w] # x

CalledAreGone ==
  \A w \in Workers : At(w, "call") /\ w \notin unsure /\ val[w] # Empty =>
    /\ val[w] \in Tasks \ started /\ Gone(val[w])
    /\ \A v \in Workers \ {w} : val[v] # val[w]

Parking == {"unborn", "test", "lock", "inc", "sleep", "waiting", "woken", "load", "dec"}

(* f begins empty. *)
EmptyHanded ==
  \A w \in Workers :
    stage[w] \in Parking \/ (At(w, "pop") /\ w \notin unsure) => val[w] = Empty

FreshInv ==
  /\ NewIsNowhere /\ TasksCopy /\ OwedOnce /\ DueOnce /\ SoundAreUntaken
  /\ CalledAreGone /\ EmptyHanded

(* What the queue and the types add to it. *)
LEMMA FreshFacts ==
  ASSUME UndisturbedClaimsDeliver, TypeInv, TasksCopy
  PROVE  /\ val \in [Threads -> Elements] /\ due \in [Threads -> Tasks \cup {Empty}]
         /\ qpc \in [Threads -> {"idle"} \cup Copying \cup Moving]
         /\ owed \in [Positions -> Tasks \cup {Empty}]
         /\ data \in [Positions -> Elements]
         /\ pos \in [Threads -> Positions \cup {NoPos}]
         /\ stage \in [Workers -> Stages]
         /\ call \in [Tasks -> {"new", "push", "size", "notify", "done"}]
         /\ Elements = Tasks \cup {Empty, Torn}
         /\ \A t \in Threads : due[t] # Empty <=> qpc[t] \in Moving
         /\ \A t \in Threads : qpc[t] # "idle" => pos[t] \in Positions
         /\ \A x \in Tasks : due[x] = Empty
         /\ Empty \notin Tasks /\ Torn \notin Tasks
<1>1. TypeOK /\ PendingReads /\ ClaimsInRange
  BY DEF UndisturbedClaimsDeliver
<1>2. \A t \in Threads : due[t] # Empty <=> qpc[t] \in Moving
  BY <1>1, ElementAssumption DEF PendingReads, TypeInv, DuesAreTasks, Tasks
<1>3. \A x \in Tasks : due[x] = Empty
  BY <1>2, ThreadFacts DEF TasksCopy, Copying, Moving
<1> QED BY <1>1, <1>2, <1>3, ElementAssumption
       DEF TypeOK, ClaimsInRange, Elements, Tasks, TypeInv, PoolTypeOK

(* Overlapping accesses of slot i leave or return no task but what is in   *)
(* it or is being copied to it.                                            *)
LEMMA MixedFacts ==
  ASSUME UndisturbedClaimsDeliver, TypeInv, TasksCopy, NEW i \in Positions, NEW x \in Tasks,
         data[i] # x, qpc[x] = "idle" \/ pos[x] # i
  PROVE  x \notin Mixed(i)
<1>1. ASSUME NEW u \in Touching(i), qpc[u] = "push_write" PROVE val[u] # x
  <2>1. u \in Tasks /\ pos[u] = i
    BY <1>1, ThreadsAssumption DEF Touching, TasksCopy, Copying
  <2> QED BY <1>1, <2>1 DEF TasksCopy
<1> QED BY <1>1, FreshFacts DEF Mixed

(* Steps that move neither an element nor a claim. *)
LEMMA FreshStays ==
  ASSUME FreshInv, UndisturbedClaimsDeliver, TypeInv,
         UNCHANGED <<data, val, owed, due, pos, hazy, started>>,
         \A x \in Tasks : call'[x] = "new" <=> call[x] = "new",
         \A t \in Threads : \/ qpc'[t] = qpc[t]
                            \/ qpc[t] \in Copying /\ qpc'[t] \in Copying
                            \/ qpc[t] \in Moving /\ qpc'[t] \in Moving,
         \A w \in Workers : stage'[w] = "call" /\ w \notin unsure' =>
           \/ stage[w] = "call" /\ w \notin unsure
           \/ val[w] = Empty,
         \A w \in Workers : stage'[w] \in Parking \/ (stage'[w] = "pop" /\ w \notin unsure') =>
           \/ stage[w] \in Parking
           \/ stage[w] = "pop" /\ w \notin unsure
           \/ val[w] = Empty
  PROVE  FreshInv'
<1> USE DEF FreshInv
<1>1. NewIsNowhere'
  BY DEF NewIsNowhere
<1>2. \A t \in Threads : /\ qpc'[t] = "idle" <=> qpc[t] = "idle"
                         /\ qpc'[t] \in Copying <=> qpc[t] \in Copying
  BY FreshFacts DEF Copying, Moving
<1>3. TasksCopy'
  BY <1>2, ThreadFacts DEF TasksCopy
<1>4. \A x \in Tasks : \A i : OnlyAt(x, i) <=> OnlyAt(x, i)'
  BY <1>2, ThreadFacts DEF OnlyAt
<1>5. OwedOnce' /\ DueOnce'
  BY <1>4, FreshFacts, ThreadFacts DEF OwedOnce, DueOnce
<1>6. SoundAreUntaken'
  <2>1. \A i : InFlight(i)' = InFlight(i)
    BY <1>2, FreshFacts DEF InFlight, Copying, Moving
  <2>2. \A i \in Positions : \A t \in InFlight(i) : t \in Threads
    BY DEF InFlight
  <2> QED BY <1>2, <2>1, <2>2 DEF SoundAreUntaken, Untaken
<1>7. \A x \in Tasks : Gone(x) => Gone(x)'
  BY <1>2, ThreadFacts DEF Gone
<1>8. CalledAreGone'
  BY <1>7 DEF CalledAreGone, At
<1>9. EmptyHanded'
  BY DEF EmptyHanded, At
<1> QED BY <1>1, <1>3, <1>5, <1>6, <1>8, <1>9

(* The task is called, by the only worker that has it. *)
LEMMA FreshCall ==
  ASSUME FreshInv, UndisturbedClaimsDeliver, TypeInv, NEW w \in Workers, CallTask(w)
  PROVE  FreshInv'
<1> USE DEF FreshInv
<1> USE FreshFacts, ThreadFacts
<1>1. /\ val[w] \in Tasks \ started /\ started' = started \cup {val[w]}
      /\ stage[w] = "call" /\ stage' = [stage EXCEPT ![w] = "running"]
      /\ UNCHANGED <<queueVars, callVars, unsure>>
  BY DEF CallTask, TaskStep, At, Move, lossVars
<1>2. UNCHANGED <<impl, data, qpc, pos, val, raced, owed, due, hazy, call>>
  BY <1>1 DEF queueVars, callVars
<1>3. NewIsNowhere'
  BY <1>1, <1>2 DEF NewIsNowhere
<1>4. TasksCopy' /\ OwedOnce' /\ DueOnce'
  BY <1>2 DEF TasksCopy, OwedOnce, DueOnce, OnlyAt
<1>5. SoundAreUntaken'
  BY <1>1, <1>2 DEF SoundAreUntaken, Untaken, InFlight
<1>6. CalledAreGone'
  <2> SUFFICES ASSUME NEW v \in Workers, At(v, "call")', v \notin unsure', val'[v] # Empty
               PROVE  /\ val'[v] \in Tasks \ started' /\ Gone(val[v])'
                      /\ \A u \in Workers \ {v} : val'[u] # val'[v]
    BY <1>2 DEF CalledAreGone
  <2>1. v # w /\ At(v, "call")
    BY <1>1 DEF At
  <2>2. /\ val[v] \in Tasks \ started /\ Gone(val[v])
        /\ \A u \in Workers \ {v} : val[u] # val[v]
    BY <1>1, <1>2, <2>1 DEF CalledAreGone
  <2> QED BY <1>1, <1>2, <2>1, <2>2 DEF Gone
<1>7. EmptyHanded'
  BY <1>1, <1>2 DEF EmptyHanded, At, Parking
<1> QED BY <1>3, <1>4, <1>5, <1>6, <1>7

(* The worker's f goes out of scope. *)
LEMMA FreshForget ==
  ASSUME FreshInv, UndisturbedClaimsDeliver, TypeInv, NEW w \in Workers,
         Compare(w), ~FewRest(w)
  PROVE  FreshInv'
<1> USE DEF FreshInv
<1> USE FreshFacts, ThreadFacts
<1>1. /\ stage' = [stage EXCEPT ![w] = "test"] /\ val' = [val EXCEPT ![w] = Empty]
      /\ unsure' = unsure \ {w}
      /\ UNCHANGED <<data, qpc, pos, owed, due, hazy, call, started>>
  BY DEF Compare, Forget, TaskStep, Move, callVars, taskVars
<1>2. /\ val'[w] = Empty /\ \A t \in Threads \ {w} : val'[t] = val[t]
      /\ stage'[w] = "test" /\ \A v \in Workers \ {w} : stage'[v] = stage[v]
  BY <1>1
<1>3. NewIsNowhere'
  BY <1>1, <1>2 DEF NewIsNowhere
<1>4. TasksCopy' /\ OwedOnce' /\ DueOnce'
  BY <1>1, <1>2 DEF TasksCopy, OwedOnce, DueOnce, OnlyAt
<1>5. SoundAreUntaken'
  BY <1>1, <1>2 DEF SoundAreUntaken, Untaken, InFlight
<1>6. CalledAreGone'
  BY <1>1, <1>2 DEF CalledAreGone, Gone, At
<1>7. EmptyHanded'
  BY <1>1, <1>2 DEF EmptyHanded, At
<1> QED BY <1>3, <1>4, <1>5, <1>6, <1>7

(* The element has been assigned to the slot that the push claimed. *)
LEMMA FreshEndStore ==
  ASSUME FreshInv, UndisturbedClaimsDeliver, TypeInv, NEW t \in Tasks, EndStore(t)
  PROVE  FreshInv'
<1> USE DEF FreshInv
<1> USE FreshFacts, ThreadFacts
<1> DEFINE at == pos[t]
<1>1. PICK r \in IF t \in raced THEN Mixed(at) ELSE {val[t]} :
        data' = [data EXCEPT ![at] = r]
  BY DEF EndStore, EndCopy
<1>2. /\ qpc[t] = "push_write" /\ qpc' = [qpc EXCEPT ![t] = "idle"]
      /\ pos' = [pos EXCEPT ![t] = NoPos] /\ val' = [val EXCEPT ![t] = Empty]
      /\ call[t] = "push" /\ call' = [call EXCEPT ![t] = "size"]
      /\ UNCHANGED <<owed, due, hazy, started, stage, unsure>>
  BY DEF EndStore, EndCopy, CallStep, Goto, taskVars
<1>3. /\ at \in Positions /\ val[t] = t
      /\ \A w \in Workers : val'[w] = val[w] /\ pos'[w] = pos[w] /\ qpc'[w] = qpc[w]
  BY <1>2 DEF TasksCopy
<1>4. ASSUME NEW x \in Tasks, NEW j \in Positions, data[j] # x,
             j = at => qpc[x] = "idle" \/ pos[x] # at
      PROVE  data'[j] # x
  <2>1. CASE j = at
    <3>1. x # t
      BY <1>2, <1>4, <2>1
    <3>2. x \notin Mixed(at)
      BY <1>3, <1>4, <2>1, MixedFacts
    <3> QED BY <1>1, <1>3, <2>1, <3>1, <3>2
  <2> QED BY <1>1, <1>4, <2>1
<1>5. NewIsNowhere'
  <2> SUFFICES ASSUME NEW x \in Tasks, call'[x] = "new"
               PROVE  /\ x \notin started
                      /\ \A u \in Threads : val'[u] # x /\ due[u] # x
                      /\ \A j \in Positions : data'[j] # x /\ owed[j] # x
    BY <1>2 DEF NewIsNowhere
  <2>1. call[x] = "new" /\ x # t
    BY <1>2
  <2>2. qpc[x] = "idle"
    BY <2>1 DEF NewIsNowhere, TasksCopy
  <2> QED BY <1>2, <1>4, <2>1, <2>2 DEF NewIsNowhere
<1>6. TasksCopy'
  BY <1>2 DEF TasksCopy
<1>7. ASSUME NEW x \in Tasks, NEW i \in Positions, OnlyAt(x, i) PROVE OnlyAt(x, i)'
  <2>1. qpc'[x] # "idle" => pos'[x] = i
    BY <1>2, <1>7 DEF OnlyAt
  <2>2. ASSUME NEW j \in Positions, j # i PROVE data'[j] # x
    BY <1>4, <1>7, <2>2 DEF OnlyAt
  <2> QED BY <2>1, <2>2 DEF OnlyAt
<1>8. OwedOnce' /\ DueOnce'
  <2>1. \A i \in Positions : owed[i] # Empty => owed[i] \in Tasks /\ OnlyAt(owed[i], i)
    BY DEF OwedOnce
  <2>2. \A i \in Positions : owed[i] # Empty => OnlyAt(owed[i], i)'
    BY <1>2, <1>7, <2>1
  <2>3. \A w \in Workers :
          due[w] # Empty => due[w] \in Tasks /\ pos[w] \in Positions /\ OnlyAt(due[w], pos[w])
    BY DEF DueOnce, Moving
  <2>4. \A w \in Workers : due[w] # Empty => OnlyAt(due[w], pos[w])'
    BY <1>2, <1>3, <1>7, <2>3
  <2> QED BY <1>2, <2>2, <2>4 DEF OwedOnce, DueOnce
<1>9. SoundAreUntaken'
  <2>1. \A i \in Positions : InFlight(i)' \subseteq InFlight(i) /\ t \notin InFlight(i)'
    BY <1>2 DEF InFlight, Copying, Moving
  <2>2. \A i \in Positions : \A u \in InFlight(i)' : qpc'[u] = qpc[u]
    BY <1>2, <2>1 DEF InFlight
  <2> QED BY <1>2, <1>3, <2>1, <2>2 DEF SoundAreUntaken, Untaken
<1>10. ASSUME NEW x \in Tasks, Gone(x) PROVE Gone(x)'
  <2>1. \A j \in Positions : data'[j] # x
    BY <1>4, <1>10 DEF Gone
  <2> QED BY <1>2, <1>10, <2>1 DEF Gone
<1>11. CalledAreGone'
  BY <1>2, <1>3, <1>10 DEF CalledAreGone, At
<1>12. EmptyHanded'
  BY <1>2, <1>3 DEF EmptyHanded, At
<1> QED BY <1>5, <1>6, <1>8, <1>9, <1>11, <1>12

(* A task that was nowhere is owed to the slot that its push claims. *)
LEMMA FreshSubmit ==
  ASSUME FreshInv, UndisturbedClaimsDeliver, TypeInv, NEW t \in Tasks, Submit(t)
  PROVE  FreshInv'
<1> USE DEF FreshInv
<1> USE FreshFacts, ThreadFacts
<1>0. PICK at \in Positions : at = NextPush(impl).at
  BY QueueFacts, NextPushFacts
<1>1. /\ qpc[t] = "idle" /\ qpc' = [qpc EXCEPT ![t] = "push_copy"]
      /\ pos' = [pos EXCEPT ![t] = at] /\ val' = [val EXCEPT ![t] = t]
      /\ owed' = [owed EXCEPT ![at] = t]
      /\ hazy' = IF InFlight(at) = {} THEN hazy \ {at} ELSE hazy \cup {at}
      /\ call[t] = "new" /\ call' = [call EXCEPT ![t] = "push"]
      /\ UNCHANGED <<data, due, started, stage, unsure>>
  BY <1>0 DEF Submit, PushClaim, CallStep, Goto, taskVars
<1>3. \A w \in Workers : val'[w] = val[w] /\ pos'[w] = pos[w] /\ qpc'[w] = qpc[w]
  BY <1>1
<1>4. /\ t \notin started
      /\ \A u \in Threads : val[u] # t /\ due[u] # t
      /\ \A j \in Positions : data[j] # t /\ owed[j] # t
  BY <1>1 DEF NewIsNowhere
<1>5. owed'[at] = t /\ \A j \in Positions \ {at} : owed'[j] = owed[j]
  BY <1>1
<1>6. NewIsNowhere'
  BY <1>1, <1>5 DEF NewIsNowhere
<1>7. TasksCopy'
  BY <1>1 DEF TasksCopy, Copying
<1>8. ASSUME NEW x \in Tasks, x # t, NEW i \in Positions, OnlyAt(x, i) PROVE OnlyAt(x, i)'
  BY <1>1, <1>8 DEF OnlyAt
<1>9. OnlyAt(t, at)'
  BY <1>1, <1>4 DEF OnlyAt
<1>10. OwedOnce'
  <2> SUFFICES ASSUME NEW i \in Positions, owed'[i] # Empty
               PROVE  /\ OnlyAt(owed[i], i)'
                      /\ \A j \in Positions : j # i => owed'[j] # owed'[i]
                      /\ \A w \in Workers : due'[w] # owed'[i]
    BY DEF OwedOnce
  <2>1. CASE i = at
    BY <1>1, <1>4, <1>5, <1>9, <2>1
  <2>2. CASE i # at
    <3>1. owed'[i] = owed[i] /\ owed[i] \in Tasks /\ owed[i] # t
      BY <1>4, <1>5, <2>2
    <3>2. OnlyAt(owed[i], i)'
      BY <1>8, <3>1 DEF OwedOnce
    <3> QED BY <1>1, <1>5, <2>2, <3>1, <3>2 DEF OwedOnce
  <2> QED BY <2>1, <2>2
<1>11. DueOnce'
  <2> SUFFICES ASSUME NEW w \in Workers, due'[w] # Empty
               PROVE  /\ OnlyAt(due[w], pos[w])'
                      /\ \A v \in Workers : v # w => due'[v] # due'[w]
    BY DEF DueOnce
  <2>1. due[w] \in Tasks /\ due[w] # t /\ pos[w] \in Positions
    BY <1>1, <1>4 DEF Moving
  <2>2. OnlyAt(due[w], pos[w])'
    BY <1>1, <1>3, <1>8, <2>1 DEF DueOnce
  <2> QED BY <1>1, <2>2 DEF DueOnce
<1>12. SoundAreUntaken'
  <2>1. \A x \in Tasks : Untaken(x) => Untaken(x)'
    BY <1>1, <1>3 DEF Untaken
  <2>2. ASSUME NEW i \in Positions \ hazy', owed'[i] # Empty
        PROVE  Untaken(owed[i])' /\ \A u \in InFlight(i)' : qpc'[u] \in Copying
    <3>1. CASE i = at
      <4>1. InFlight(at) = {}
        BY <1>1, <2>2, <3>1
      <4>2. \A u \in InFlight(at)' : u = t
        BY <1>1, <4>1 DEF InFlight
      <4>3. qpc'[t] \in Copying
        BY <1>1 DEF Copying
      <4>4. Untaken(t)'
        BY <1>1, <1>3, <1>4 DEF Untaken
      <4> QED BY <1>5, <3>1, <4>2, <4>3, <4>4
    <3>2. CASE i # at
      <4>1. owed'[i] = owed[i] /\ owed[i] \in Tasks /\ i \in Positions \ hazy
        BY <1>1, <1>5, <2>2, <3>2
      <4>2. \A u \in InFlight(i)' : u \in InFlight(i) /\ qpc'[u] = qpc[u]
        BY <1>1, <3>2 DEF InFlight
      <4> QED BY <2>1, <4>1, <4>2 DEF SoundAreUntaken
    <3> QED BY <3>1, <3>2
  <2>3. ASSUME NEW w \in Workers, due'[w] # Empty, pos'[w] \notin hazy'
        PROVE  Untaken(due[w])'
    <3>1. due[w] \in Tasks /\ w \in InFlight(pos[w]) /\ pos'[w] = pos[w]
      BY <1>1, <1>3, <2>3 DEF InFlight
    <3>2. pos[w] \notin hazy
      BY <1>1, <2>3, <3>1
    <3>3. Untaken(due[w])
      BY <1>1, <2>3, <3>2 DEF SoundAreUntaken
    <3> QED BY <1>1, <2>1, <3>1, <3>3
  <2> QED BY <2>2, <2>3 DEF SoundAreUntaken
<1>13. CalledAreGone'
  <2>1. \A x \in Tasks : x # t /\ Gone(x) => Gone(x)'
    BY <1>1, <1>5 DEF Gone
  <2> QED BY <1>1, <1>3, <1>4, <2>1 DEF CalledAreGone, At
<1>14. EmptyHanded'
  BY <1>1, <1>3 DEF EmptyHanded, At
<1> QED BY <1>6, <1>7, <1>10, <1>11, <1>12, <1>13, <1>14

(* What a slot was owed the worker that claims it is due. *)
LEMMA FreshClaim ==
  ASSUME FreshInv, UndisturbedClaimsDeliver, TypeInv, NEW w \in Workers, ClaimTask(w)
  PROVE  FreshInv'
<1> USE DEF FreshInv
<1> USE FreshFacts, ThreadFacts
<1>0. PICK at \in Positions : at = NextPop(impl).at /\ at \in LiveSlots(impl)
  <2>1. NextPop(impl).at # NoPos
    BY DEF ClaimTask, PopClaim
  <2> QED BY <2>1, QueueFacts, NextPopFacts, LiveAfterPop
<1>1. /\ qpc[w] = "idle" /\ qpc' = [qpc EXCEPT ![w] = "pop_got"]
      /\ pos' = [pos EXCEPT ![w] = at] /\ val' = [val EXCEPT ![w] = Empty]
      /\ due' = [due EXCEPT ![w] = owed[at]] /\ owed' = [owed EXCEPT ![at] = Empty]
      /\ hazy' = IF InFlight(at) = {} THEN hazy ELSE hazy \cup {at}
      /\ stage[w] = "pop" /\ stage' = [stage EXCEPT ![w] = "take"]
      /\ UNCHANGED <<data, call, started, unsure>>
  BY <1>0 DEF ClaimTask, PopClaim, TaskStep, At, Move, Goto, callVars, taskVars, lossVars
<1>2. owed[at] \in Tasks
  BY <1>0 DEF UndisturbedClaimsDeliver, LiveAreOwed, Tasks
<1>3. /\ \A x \in Tasks : qpc'[x] = qpc[x] /\ pos'[x] = pos[x] /\ val'[x] = val[x]
      /\ \A v \in Workers \ {w} : /\ qpc'[v] = qpc[v] /\ pos'[v] = pos[v] /\ val'[v] = val[v]
                                  /\ due'[v] = due[v] /\ stage'[v] = stage[v]
      /\ qpc'[w] = "pop_got" /\ pos'[w] = at /\ val'[w] = Empty /\ due'[w] = owed[at]
      /\ owed'[at] = Empty /\ \A j \in Positions \ {at} : owed'[j] = owed[j]
  BY <1>1
<1>4. NewIsNowhere'
  BY <1>1, <1>2 DEF NewIsNowhere
<1>5. TasksCopy'
  BY <1>1, <1>3 DEF TasksCopy, Copying
<1>6. ASSUME NEW x \in Tasks, NEW i \in Positions, OnlyAt(x, i) PROVE OnlyAt(x, i)'
  BY <1>1, <1>3, <1>6 DEF OnlyAt
<1>7. OwedOnce'
  <2> SUFFICES ASSUME NEW i \in Positions, owed'[i] # Empty
               PROVE  /\ OnlyAt(owed[i], i)'
                      /\ \A j \in Positions : j # i => owed'[j] # owed'[i]
                      /\ \A v \in Workers : due'[v] # owed'[i]
    BY DEF OwedOnce
  <2>1. i # at /\ owed'[i] = owed[i] /\ owed[i] \in Tasks
    BY <1>3
  <2>2. OnlyAt(owed[i], i)'
    BY <1>6, <2>1 DEF OwedOnce
  <2> QED BY <1>3, <2>1, <2>2 DEF OwedOnce
<1>8. DueOnce'
  <2> SUFFICES ASSUME NEW v \in Workers, due'[v] # Empty
               PROVE  /\ OnlyAt(due[v], pos[v])'
                      /\ \A u \in Workers : u # v => due'[u] # due'[v]
    BY DEF DueOnce
  <2>1. CASE v = w
    <3>1. \A y \in Tasks : y = owed[at] => OnlyAt(y, at)'
      BY <1>2, <1>6 DEF OwedOnce
    <3>2. OnlyAt(due[w], pos[w])'
      BY <1>2, <1>3, <3>1
    <3> QED BY <1>2, <1>3, <2>1, <3>2 DEF OwedOnce
  <2>2. CASE v # w
    <3>1. /\ due'[v] = due[v] /\ due[v] \in Tasks
          /\ pos'[v] = pos[v] /\ pos[v] \in Positions
      BY <1>3, <2>2 DEF Moving
    <3>2. OnlyAt(due[v], pos[v])'
      BY <1>6, <3>1 DEF DueOnce
    <3> QED BY <1>2, <1>3, <2>2, <3>1, <3>2 DEF DueOnce, OwedOnce
  <2> QED BY <2>1, <2>2
<1>9. SoundAreUntaken'
  <2>1. \A x \in Tasks : Untaken(x) => Untaken(x)'
    BY <1>1, <1>3 DEF Untaken
  <2>2. ASSUME NEW i \in Positions \ hazy', owed'[i] # Empty
        PROVE  Untaken(owed[i])' /\ \A u \in InFlight(i)' : qpc'[u] \in Copying
    <3>1. i # at /\ owed'[i] = owed[i] /\ owed[i] \in Tasks /\ i \in Positions \ hazy
      BY <1>1, <1>3, <2>2
    <3>2. \A u \in InFlight(i)' : u \in InFlight(i) /\ qpc'[u] = qpc[u]
      BY <1>1, <3>1 DEF InFlight
    <3> QED BY <2>1, <3>1, <3>2 DEF SoundAreUntaken
  <2>3. ASSUME NEW v \in Workers, due'[v] # Empty, pos'[v] \notin hazy'
        PROVE  Untaken(due[v])'
    <3>1. CASE v = w
      <4>1. at \in Positions \ hazy
        BY <1>1, <1>3, <2>3, <3>1
      <4>2. Untaken(owed[at])
        BY <1>2, <4>1 DEF SoundAreUntaken
      <4>3. \A y \in Tasks : y = owed[at] => Untaken(y)'
        BY <2>1, <4>2
      <4> QED BY <1>2, <1>3, <3>1, <4>3
    <3>2. CASE v # w
      <4>1. due'[v] = due[v] /\ due[v] \in Tasks /\ pos[v] \notin hazy
        BY <1>1, <1>3, <2>3, <3>2
      <4> QED BY <2>1, <4>1 DEF SoundAreUntaken
    <3> QED BY <3>1, <3>2
  <2> QED BY <2>2, <2>3 DEF SoundAreUntaken
<1>10. CalledAreGone'
  <2>1. \A x \in Tasks : Gone(x) => Gone(x)' /\ x # owed[at]
    BY <1>1, <1>3 DEF Gone
  <2> QED BY <1>1, <1>3, <2>1 DEF CalledAreGone, At
<1>11. EmptyHanded'
  BY <1>1, <1>3 DEF EmptyHanded, At, Parking
<1> QED BY <1>4, <1>5, <1>7, <1>8, <1>9, <1>10, <1>11

(* The worker gets what it was due, unless the slot is shared. *)
LEMMA FreshTake ==
  ASSUME FreshInv, UndisturbedClaimsDeliver, TypeInv, NEW w \in Workers, EndTake(w)
  PROVE  FreshInv'
<1> USE DEF FreshInv
<1> USE FreshFacts, ThreadFacts
<1>0. qpc[w] = "pop_move" /\ w \in InFlight(pos[w])
  BY DEF EndTake, EndMove, InFlight, Moving
<1>1. PICK at \in Positions : at = pos[w]
  BY <1>0
<1>2. PICK r \in IF w \in raced THEN Mixed(at) ELSE {data[at]} : val' = [val EXCEPT ![w] = r]
  BY <1>1 DEF EndTake, EndMove
<1>3. PICK q \in IF w \in raced THEN Mixed(at) ELSE {Empty} : data' = [data EXCEPT ![at] = q]
  BY <1>1 DEF EndTake, EndMove
<1>4. /\ qpc' = [qpc EXCEPT ![w] = "idle"] /\ pos' = [pos EXCEPT ![w] = NoPos]
      /\ due' = [due EXCEPT ![w] = Empty]
      /\ stage[w] = "take" /\ stage' = [stage EXCEPT ![w] = "call"]
      /\ unsure' = IF at \in hazy THEN unsure \cup {w} ELSE unsure \ {w}
      /\ UNCHANGED <<owed, hazy, call, started>>
  BY <1>1 DEF EndTake, EndMove, TaskStep, At, Move, Goto, callVars, taskVars
<1>5. /\ \A x \in Tasks : qpc'[x] = qpc[x] /\ pos'[x] = pos[x] /\ val'[x] = val[x]
      /\ \A v \in Workers \ {w} : /\ qpc'[v] = qpc[v] /\ pos'[v] = pos[v] /\ val'[v] = val[v]
                                  /\ due'[v] = due[v] /\ stage'[v] = stage[v]
      /\ qpc'[w] = "idle" /\ due'[w] = Empty /\ val'[w] = r
      /\ data'[at] = q /\ \A j \in Positions \ {at} : data'[j] = data[j]
  BY <1>2, <1>3, <1>4
<1>6. ASSUME NEW x \in Tasks, data[at] # x, qpc[x] = "idle" \/ pos[x] # at
      PROVE  r # x /\ q # x
  BY <1>2, <1>3, <1>6, MixedFacts
<1>7. NewIsNowhere'
  <2> SUFFICES ASSUME NEW x \in Tasks, call[x] = "new"
               PROVE  /\ x \notin started
                      /\ \A t \in Threads : val'[t] # x /\ due'[t] # x
                      /\ \A j \in Positions : data'[j] # x /\ owed[j] # x
    BY <1>4 DEF NewIsNowhere
  <2>1. r # x /\ q # x
    BY <1>6 DEF NewIsNowhere, TasksCopy
  <2> QED BY <1>2, <1>3, <1>4, <1>5, <2>1 DEF NewIsNowhere
<1>8. TasksCopy'
  BY <1>5 DEF TasksCopy, Copying
<1>9. ASSUME NEW x \in Tasks, NEW i \in Positions, OnlyAt(x, i)
      PROVE  OnlyAt(x, i)' /\ (i # at => r # x)
  BY <1>5, <1>6, <1>9 DEF OnlyAt
<1>10. OwedOnce'
  <2> SUFFICES ASSUME NEW i \in Positions, owed'[i] # Empty
               PROVE  /\ OnlyAt(owed[i], i)'
                      /\ \A j \in Positions : j # i => owed'[j] # owed'[i]
                      /\ \A v \in Workers : due'[v] # owed'[i]
    BY DEF OwedOnce
  <2>1. owed'[i] = owed[i] /\ owed[i] \in Tasks
    BY <1>4
  <2>2. OnlyAt(owed[i], i)'
    BY <1>9, <2>1 DEF OwedOnce
  <2> QED BY <1>4, <1>5, <2>1, <2>2 DEF OwedOnce
<1>11. DueOnce'
  <2> SUFFICES ASSUME NEW v \in Workers, due'[v] # Empty
               PROVE  /\ OnlyAt(due[v], pos[v])'
                      /\ \A u \in Workers : u # v => due'[u] # due'[v]
    BY DEF DueOnce
  <2>1. v # w /\ due'[v] = due[v] /\ due[v] \in Tasks /\ pos'[v] = pos[v] /\ pos[v] \in Positions
    BY <1>5 DEF Moving
  <2>2. OnlyAt(due[v], pos[v])'
    BY <1>9, <2>1 DEF DueOnce
  <2> QED BY <1>5, <2>1, <2>2 DEF DueOnce
<1>12. SoundAreUntaken'
  <2>1. \A x \in Tasks : Untaken(x) /\ r # x => Untaken(x)'
    BY <1>4, <1>5 DEF Untaken
  <2>2. ASSUME NEW i \in Positions \ hazy', owed'[i] # Empty
        PROVE  Untaken(owed[i])' /\ \A u \in InFlight(i)' : qpc'[u] \in Copying
    <3>1. /\ owed'[i] = owed[i] /\ owed[i] \in Tasks /\ i \in Positions \ hazy
          /\ Untaken(owed[i]) /\ \A u \in InFlight(i) : qpc[u] \in Copying
      BY <1>4, <2>2 DEF SoundAreUntaken
    <3>2. i # at
      BY <1>0, <1>1, <3>1 DEF Copying
    <3>3. r # owed[i]
      BY <1>9, <3>1, <3>2 DEF OwedOnce
    <3>4. \A y \in Tasks : y = owed[i] => Untaken(y)'
      BY <2>1, <3>1, <3>3
    <3>5. \A u \in InFlight(i)' : u \in InFlight(i) /\ qpc'[u] = qpc[u]
      BY <1>4, <1>5 DEF InFlight, Copying, Moving
    <3> QED BY <3>1, <3>4, <3>5
  <2>3. ASSUME NEW v \in Workers, due'[v] # Empty, pos'[v] \notin hazy'
        PROVE  Untaken(due[v])'
    <3>1. /\ v # w /\ due'[v] = due[v] /\ due[v] \in Tasks
          /\ pos'[v] = pos[v] /\ pos[v] \in Positions \ hazy
      BY <1>4, <1>5, <2>3 DEF Moving
    <3>2. pos[v] # at
      <4>1. v \in InFlight(pos[v])
        BY <3>1 DEF InFlight
      <4> QED BY <1>0, <1>1, <3>1, <4>1 DEF UndisturbedClaimsDeliver, SharedOnlyIfHazy
    <3>3. r # due[v]
      BY <1>9, <3>1, <3>2 DEF DueOnce
    <3>4. Untaken(due[v])
      BY <3>1 DEF SoundAreUntaken
    <3>5. \A y \in Tasks : y = due[v] => Untaken(y)'
      BY <2>1, <3>3, <3>4
    <3> QED BY <3>1, <3>5
  <2> QED BY <2>2, <2>3 DEF SoundAreUntaken
<1>13. CalledAreGone'
  <2>1. ASSUME NEW x \in Tasks, Gone(x) PROVE Gone(x)' /\ r # x
    <3>1. r # x /\ q # x
      BY <1>6, <2>1 DEF Gone
    <3> QED BY <1>4, <1>5, <2>1, <3>1 DEF Gone
  <2>2. ASSUME NEW v \in Workers, v # w, At(v, "call")', v \notin unsure', val'[v] # Empty
        PROVE  /\ val'[v] \in Tasks \ started' /\ Gone(val[v])'
               /\ \A u \in Workers \ {v} : val'[u] # val'[v]
    <3>1. At(v, "call") /\ v \notin unsure /\ val'[v] = val[v] /\ val[v] # Empty
      BY <1>4, <1>5, <2>2 DEF At
    <3>2. /\ val[v] \in Tasks \ started /\ Gone(val[v])
          /\ \A u \in Workers \ {v} : val[u] # val[v]
      BY <3>1 DEF CalledAreGone
    <3>3. \A y \in Tasks : y = val[v] => Gone(y)' /\ r # y
      BY <2>1, <3>2
    <3> QED BY <1>4, <1>5, <3>1, <3>2, <3>3
  <2>3. ASSUME w \notin unsure'
        PROVE  /\ val'[w] \in Tasks \ started' /\ Gone(val[w])'
               /\ \A u \in Workers \ {w} : val'[u] # val'[w]
    <3> DEFINE x == due[w]
    <3>1. at \notin hazy
      BY <1>4, <2>3
    <3>2. w \notin raced /\ data[at] = x
      BY <1>0, <1>1, <3>1 DEF UndisturbedClaimsDeliver, RacedAreHazy, PendingReads, Moving
    <3>3. r = x /\ q = Empty /\ x \in Tasks
      BY <1>0, <1>2, <1>3, <3>2 DEF Moving
    <3>4. Untaken(x) /\ OnlyAt(x, at)
      BY <1>1, <3>1, <3>3 DEF SoundAreUntaken, DueOnce
    <3>5. qpc[x] = "idle"
      <4>1. qpc[x] # "idle" => x \in InFlight(at)
        BY <3>3, <3>4 DEF OnlyAt, InFlight
      <4> QED BY <1>0, <1>1, <3>1, <3>3, <4>1 DEF UndisturbedClaimsDeliver, SharedOnlyIfHazy
    <3>6. /\ call[x] # "new" /\ \A j \in Positions : owed[j] # x
          /\ \A v \in Workers \ {w} : due[v] # x
      BY <3>3 DEF NewIsNowhere, OwedOnce, DueOnce
    <3>7. \A j \in Positions : data'[j] # x
      BY <1>5, <3>3, <3>4 DEF OnlyAt
    <3>8. \A y \in Tasks : y = x => Gone(y)'
      BY <1>4, <1>5, <3>5, <3>6, <3>7, <3>3 DEF Gone
    <3>9. r \in Tasks \ started /\ \A u \in Workers \ {w} : val[u] # r
      BY <3>3, <3>4 DEF Untaken
    <3>10. Gone(r)'
      BY <3>3, <3>8
    <3>11. val'[w] = r
      BY <1>5
    <3>12. Gone(val[w])'
      BY <3>10, <3>11
    <3> QED BY <1>4, <1>5, <3>9, <3>12
  <2> QED BY <2>2, <2>3 DEF CalledAreGone
<1>14. EmptyHanded'
  BY <1>4, <1>5 DEF EmptyHanded, At, Parking
<1> QED BY <1>7, <1>8, <1>10, <1>11, <1>12, <1>13, <1>14

LEMMA FreshInv_Step ==
  FreshInv /\ UndisturbedClaimsDeliver /\ TypeInv /\ [PoolNext]_vars => FreshInv'
<1> SUFFICES ASSUME FreshInv, UndisturbedClaimsDeliver, TypeInv, [PoolNext]_vars
             PROVE  FreshInv'
  OBVIOUS
<1> USE FreshFacts, ThreadFacts DEF FreshInv
<1>1. ASSUME NEW w \in Workers,
             \/ Test(w) \/ Lock(w) \/ Increment(w) \/ Sleep(w)
             \/ Unlock(w) \/ Load(w) \/ Decrement(w) \/ WakeSpuriously(w)
      PROVE  FreshInv'
  <2>1. UNCHANGED <<queueVars, call, started, unsure>>
    BY <1>1
       DEF Test, Lock, Increment, Sleep, Unlock, Load, Decrement, WakeSpuriously,
           ParkStep, callVars, taskVars, lossVars
  <2>2. /\ stage[w] \in Parking
        /\ \E to \in Parking \cup {"pop", "exited"} : stage' = [stage EXCEPT ![w] = to]
    BY <1>1
       DEF Test, Lock, Increment, Sleep, Unlock, Load, Decrement, WakeSpuriously,
           ParkStep, At, Move, Parking
  <2> QED BY <2>1, <2>2, FreshStays DEF Parking, queueVars
<1>2. ASSUME NEW w \in Workers, BeginTake(w) \/ FindNothing(w)
      PROVE  FreshInv'
  <2>1. /\ UNCHANGED <<data, val, owed, due, pos, hazy, call, started, unsure>>
        /\ \/ UNCHANGED qpc
           \/ qpc[w] = "pop_got" /\ qpc' = [qpc EXCEPT ![w] = "pop_move"]
    BY <1>2
       DEF BeginTake, BeginMove, FindNothing, PopNothing, TaskStep, Goto, callVars,
           taskVars, lossVars
  <2>2. \/ stage[w] = "take" /\ stage' = [stage EXCEPT ![w] = "take"]
        \/ stage[w] = "pop" /\ stage' = [stage EXCEPT ![w] = "call"]
    BY <1>2 DEF BeginTake, FindNothing, TaskStep, At, Move
  <2>3. \A t \in Threads : \/ qpc'[t] = qpc[t]
                           \/ qpc[t] \in Moving /\ qpc'[t] \in Moving
    BY <2>1 DEF Moving
  <2>4. \A v \in Workers : stage'[v] = "call" /\ v \notin unsure =>
          stage[v] = "call" \/ val[v] = Empty
    BY <2>2 DEF EmptyHanded, At
  <2>5. \A v \in Workers : stage'[v] \in Parking \/ stage'[v] = "pop" => stage'[v] = stage[v]
    BY <2>2 DEF Parking
  <2> QED BY <2>1, <2>3, <2>4, <2>5, FreshStays
<1>3. ASSUME NEW w \in Workers,
             \/ SkipEmpty(w) \/ Terminate(w) \/ Return(w)
             \/ ReadRest(w) \/ ReadSize(w) \/ (Compare(w) /\ FewRest(w))
      PROVE  FreshInv'
  <2>1. /\ UNCHANGED <<queueVars, call, started>> /\ unsure \subseteq unsure'
        /\ stage'[w] = "pop" => w \in unsure'
    BY <1>3
       DEF SkipEmpty, Terminate, Return, ReadRest, ReadSize, Compare, TaskStep, At, Move,
           callVars, taskVars, lossVars
  <2>2. \E to \in {"running", "compare", "rest_read", "size_read", "pop"} :
          stage' = [stage EXCEPT ![w] = to]
    BY <1>3 DEF SkipEmpty, Terminate, Return, ReadRest, ReadSize, Compare, TaskStep, At, Move
  <2>3. \A v \in Workers : stage'[v] = "call" \/ stage'[v] \in Parking => v # w
    BY <2>2 DEF Parking
  <2>4. \A v \in Workers : v # w => stage'[v] = stage[v]
    BY <2>2
  <2> QED BY <2>1, <2>3, <2>4, FreshStays DEF queueVars
<1>4. ASSUME NEW t \in Tasks, BeginStore(t) \/ SizeCheck(t) \/ Notify(t)
      PROVE  FreshInv'
  <2>1. /\ UNCHANGED <<data, val, owed, due, pos, hazy, started, unsure>>
        /\ \/ UNCHANGED qpc
           \/ qpc[t] = "push_copy" /\ qpc' = [qpc EXCEPT ![t] = "push_write"]
    BY <1>4
       DEF BeginStore, BeginCopy, SizeCheck, Notify, CallStep, Goto, queueVars, taskVars
  <2>2. \E to \in {"push", "notify", "done"} : call[t] # "new" /\ call' = [call EXCEPT ![t] = to]
    BY <1>4 DEF BeginStore, SizeCheck, Notify, CallStep
  <2>3. UNCHANGED stage \/ NotifyOne
    BY <1>4 DEF BeginStore, SizeCheck, Notify
  <2>4. \A v \in Workers : \/ stage'[v] = stage[v]
                           \/ stage[v] \in Parking /\ stage'[v] = "woken"
    BY <2>3 DEF NotifyOne, Parked, Move, Parking
  <2>5. \A u \in Threads : \/ qpc'[u] = qpc[u]
                           \/ qpc[u] \in Copying /\ qpc'[u] \in Copying
    BY <2>1 DEF Copying
  <2> QED BY <2>1, <2>2, <2>4, <2>5, FreshStays DEF Parking
<1>5. CASE Duty \/ Stop
  <2>1. UNCHANGED <<queueVars, call, started, unsure>>
    BY <1>5
       DEF Duty, Spawn, SpinEnds, Greet, StopNotify, Join, Stop, OwnerStep, callVars,
           taskVars, lossVars
  <2>2. \/ UNCHANGED stage \/ NotifyAll
        \/ \E w \in Workers : At(w, "unborn") /\ Move(w, "test")
    BY <1>5 DEF Duty, Spawn, SpinEnds, Greet, StopNotify, Join, Stop
  <2>3. \A v \in Workers : \/ stage'[v] = stage[v]
                           \/ stage[v] \in Parking /\ stage'[v] \in {"test", "woken"}
    BY <2>2 DEF NotifyAll, Parked, At, Move, Parking
  <2> QED BY <2>1, <2>3, FreshStays DEF Parking, queueVars
<1>6. CASE UNCHANGED vars
  BY <1>6, FreshStays DEF vars, queueVars, callVars, taskVars, lossVars
<1> QED BY <1>1, <1>2, <1>3, <1>4, <1>5, <1>6, FreshCall, FreshForget, FreshEndStore,
           FreshSubmit, FreshClaim, FreshTake
       DEF PoolNext, WorkerStep, SubmitStep

(* Whoever submits, a worker about to call f calls a task that was never   *)
(* called and that nobody else has, or nothing; unless it kept an f across *)
(* pop_again, or others had claims on the slot it took f from.             *)
THEOREM FreshTasksAreCalled == PoolSpec => []CalledTasksAreFresh
<1>1. PoolInit => FreshInv
  <2> SUFFICES ASSUME PoolInit PROVE FreshInv
    OBVIOUS
  <2>1. /\ \A t \in Threads : qpc[t] = "idle" /\ val[t] = Empty /\ due[t] = Empty
        /\ \A j \in Positions : data[j] = Empty /\ owed[j] = Empty
        /\ \A w \in Workers : stage[w] = "unborn"
        /\ started = {} /\ Empty \notin Tasks
    BY ElementAssumption DEF PoolInit, Init, Tasks
  <2> QED BY <2>1, ThreadFacts
         DEF FreshInv, NewIsNowhere, TasksCopy, OwedOnce, DueOnce, SoundAreUntaken,
             CalledAreGone, EmptyHanded, Copying, At
<1>2. FreshInv /\ UndisturbedClaimsDeliver /\ TypeInv => CalledTasksAreFresh
  <2> SUFFICES ASSUME FreshInv, UndisturbedClaimsDeliver, TypeInv, NEW w \in Workers,
                      At(w, "call"), w \notin unsure
               PROVE  /\ val[w] \in {Empty} \cup (Tasks \ started)
                      /\ \A v \in Workers \ {w} : val[v] = val[w] => val[w] = Empty
    BY DEF CalledTasksAreFresh
  <2>1. CASE val[w] = Empty
    BY <2>1
  <2>2. CASE val[w] # Empty
    BY <2>2 DEF FreshInv, CalledAreGone
  <2> QED BY <2>1, <2>2
<1> QED BY <1>1, <1>2, FreshInv_Step, TypesHold, PoolClaimsDeliver, PTL DEF PoolSpec
=============================================================================
