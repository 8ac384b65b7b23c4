----------------------------- MODULE ThreadPool -----------------------------
(***************************************************************************)
(* ThreadPool<_PoolSize,_TaskQueueSize>: the owner constructs and stops    *)
(* the pool, callers submit tasks, workers take them from a LockfreeQ.     *)
(*                                                                         *)
(* The mutex is held only around the increment of rest_size and the start  *)
(* of the wait; need_stop, rest_size and the queue are read and written    *)
(* outside it.  An unguarded rest_size++ or rest_size-- is a load and a    *)
(* store.  Each task is submitted once, by a thread of its own that is     *)
(* named after it; Caller says how the submitting threads are coordinated. *)
(***************************************************************************)
EXTENDS SlotQueue, FiniteSets

CONSTANTS
  Workers,      (* the _PoolSize pool threads                              *)
  Word,         (* rest_size counts modulo Word (2^64 in the code)         *)
  MaxSpurious,  (* bound on the number of spurious wakeups                 *)
  Caller,       (* "many": calls overlap, also with stop and after it;     *)
                (* "one": one thread submits and stops; "demo": and does   *)
                (* all of it in a row once every worker is parked          *)
  MayStop       (* whether the owner ever calls stop                       *)

(* What the pool queues, and the submitting threads: one for each task.    *)
Tasks == Values

ASSUME WorkersAssumption == IsFiniteSet(Workers) /\ Workers # {}
ASSUME ThreadsAssumption == Threads = Workers \cup Tasks /\ Workers \cap Tasks = {}
ASSUME WordAssumption == Word \in Nat /\ Cardinality(Workers) < Word
ASSUME SpuriousAssumption == MaxSpurious \in Nat
ASSUME ScenarioAssumption ==
  Caller \in {"many", "one", "demo"} /\ MayStop \in BOOLEAN

VARIABLES
  owner,      (* where the owner is in the constructor or in stop          *)
  needStop,   (* need_stop                                                 *)
  rest,       (* rest_size                                                 *)
  mtx,        (* the workers that hold condition_mtx                       *)
  stage,      (* stage[w]: where worker w is in _dispatch                  *)
  tmp,        (* tmp[w]: the word w has read and not yet used              *)
  call,       (* call[t]: where the submit of task t is                    *)
  left,       (* left[t]: how many notify_one calls it still makes         *)
  started,    (* the tasks whose function has been called                  *)
  finished,   (* the tasks whose function has returned                     *)
  crashed,    (* std::terminate was called                                 *)
  wakeups,    (* the number of spurious wakeups so far                     *)
  dropped,    (* history: tasks that a push into a full queue drove out    *)
  spoiled,    (* history: tasks claimed by a worker that got another value *)
  unsure,     (* history: workers that pop again with an f in hand, or     *)
              (* whose f is from a slot that others were accessing         *)
  collided    (* history: an update of rest_size overwrote another one     *)

ownerVars == <<owner, needStop>>
parkVars == <<rest, mtx, tmp, collided>>
callVars == <<call, left>>
taskVars == <<started, finished, crashed>>
lossVars == <<dropped, spoiled, unsure>>

vars == <<queueVars, ownerVars, parkVars, stage, callVars, taskVars, wakeups,
          lossVars>>

PoolSize == Cardinality(Workers)

(* The workers that condition_var.wait has put to sleep. *)
Parked == {w \in Workers : stage[w] = "waiting"}

At(w, label) == stage[w] = label
Move(w, label) == stage' = [stage EXCEPT ![w] = label]

PoolInit ==
  /\ Init
  /\ owner = "spawning" /\ needStop = FALSE
  /\ rest = 0 /\ mtx = {} /\ collided = FALSE
  /\ tmp = [w \in Workers |-> 0]
  /\ stage = [w \in Workers |-> "unborn"]
  /\ call = [t \in Tasks |-> "new"]
  /\ left = [t \in Tasks |-> 0]
  /\ started = {} /\ finished = {} /\ crashed = FALSE
  /\ wakeups = 0
  /\ dropped = {} /\ spoiled = {} /\ unsure = {}

-----------------------------------------------------------------------------
(* What the steps of each actor leave alone. *)

OwnerStep(from, to) ==
  /\ owner = from
  /\ owner' = to
  /\ UNCHANGED <<queueVars, parkVars, callVars, taskVars, wakeups, lossVars>>

CallStep(t, from, to) ==
  /\ call[t] = from
  /\ call' = [call EXCEPT ![t] = to]
  /\ UNCHANGED <<ownerVars, parkVars, taskVars, wakeups, spoiled, unsure>>

ParkStep(w, from, to) ==
  /\ At(w, from)
  /\ Move(w, to)
  /\ UNCHANGED <<queueVars, ownerVars, callVars, wakeups, lossVars>>

TaskStep(w, from, to) ==
  /\ At(w, from)
  /\ Move(w, to)
  /\ UNCHANGED <<ownerVars, callVars, wakeups>>

-----------------------------------------------------------------------------
(* condition_variable *)

NotifyOne ==
  \/ Parked = {} /\ UNCHANGED stage
  \/ \E w \in Parked : Move(w, "woken")

NotifyAll ==
  stage' = [w \in Workers |-> IF w \in Parked THEN "woken" ELSE stage[w]]

-----------------------------------------------------------------------------
(* Faulty variants of the steps below. *)

StoreRestSigned(w, n) ==
  /\ rest' = n
  /\ collided' = (collided \/ rest # tmp[w])
  /\ tmp' = [tmp EXCEPT ![w] = 0]

TestNothing(w) ==
  /\ At(w, "test")
  /\ Move(w, "lock")
  /\ UNCHANGED <<queueVars, ownerVars, parkVars, callVars, taskVars, wakeups,
                 lossVars>>

LockWithoutMutex(w) ==
  /\ ParkStep(w, "lock", "inc")
  /\ mtx' = mtx \cup {w}
  /\ tmp' = [tmp EXCEPT ![w] = rest]
  /\ UNCHANGED <<rest, collided, taskVars>>

UnlockUncounted(w) ==
  /\ mtx = {}
  /\ ParkStep(w, "woken", IF needStop THEN "pop" ELSE "load")
  /\ UNCHANGED <<parkVars, taskVars>>

EndTakeUnlessStopping(w) ==
  /\ TaskStep(w, "take", IF needStop THEN "compare" ELSE "call")
  /\ EndMove(w)
  /\ spoiled' = IF val'[w] = due[w] THEN spoiled ELSE spoiled \cup {due[w]}
  /\ UNCHANGED <<parkVars, taskVars, dropped, unsure>>

CompareKeepingF(w) ==
  /\ stage[w] \in {"rest_read", "size_read"}
  /\ TaskStep(w, stage[w], "test")
  /\ unsure' = unsure \ {w}
  /\ tmp' = [tmp EXCEPT ![w] = 0]
  /\ UNCHANGED <<queueVars, rest, mtx, collided, taskVars, dropped, spoiled>>

SizeCheckOnlyAboveOne(t) ==
  LET qsize == impl.cur_size
      notify == 1 < qsize /\ qsize <= PoolSize
  IN  /\ CallStep(t, "size", IF notify THEN "notify" ELSE "done")
      /\ left' = [left EXCEPT ![t] = IF notify THEN qsize ELSE 0]
      /\ UNCHANGED <<queueVars, stage, dropped>>

-----------------------------------------------------------------------------
(* rest_size: every read of it, and every update, goes through w's tmp. *)

LoadRest(w) == tmp' = [tmp EXCEPT ![w] = rest] /\ UNCHANGED <<rest, collided>>

StoreRest(w, n) ==
  /\ rest' = n % Word
  /\ collided' = (collided \/ rest # tmp[w])
  /\ tmp' = [tmp EXCEPT ![w] = 0]

(* A wait may return although nobody called notify. *)
WakeSpuriously(w) ==
  /\ At(w, "waiting")
  /\ wakeups < MaxSpurious
  /\ wakeups' = wakeups + 1
  /\ Move(w, "woken")
  /\ UNCHANGED <<queueVars, ownerVars, parkVars, callVars, taskVars, lossVars>>

-----------------------------------------------------------------------------
(* The owner: the constructor, then stop. *)

Spawn(w) ==
  /\ At(w, "unborn")
  /\ OwnerStep("spawning", "spawning")
  /\ Move(w, "test")
  /\ UNCHANGED needStop

(* while(rest_size != _PoolSize); *)
SpinEnds ==
  /\ \A w \in Workers : ~At(w, "unborn")
  /\ rest = PoolSize
  /\ OwnerStep("spawning", "greeting")
  /\ UNCHANGED <<needStop, stage>>

Greet ==
  /\ OwnerStep("greeting", "open")
  /\ NotifyAll
  /\ UNCHANGED needStop

(* A single caller is back from its last submit. *)
Back == Caller = "many" \/ \A t \in Tasks : call[t] \in {"new", "done"}

(* stop, in the demo after the last submit *)
Stop ==
  /\ MayStop
  /\ Back
  /\ Caller = "demo" => \A t \in Tasks : call[t] = "done"
  /\ OwnerStep("open", "stopping")
  /\ needStop' = TRUE
  /\ UNCHANGED stage

StopNotify ==
  /\ OwnerStep("stopping", "joining")
  /\ NotifyAll
  /\ UNCHANGED needStop

Join ==
  /\ \A w \in Workers : At(w, "exited")
  /\ OwnerStep("joining", "stopped")
  /\ UNCHANGED <<needStop, stage>>

-----------------------------------------------------------------------------
(* A worker parks: while(!need_stop), lock, rest_size++, wait, unlock.     *)

Test(w) ==
  /\ At(w, "test")
  /\ Move(w, IF needStop THEN "exited" ELSE "lock")
  /\ UNCHANGED <<queueVars, ownerVars, parkVars, callVars, taskVars, wakeups,
                 lossVars>>

Lock(w) ==
  /\ mtx = {}
  /\ ParkStep(w, "lock", "inc")
  /\ mtx' = {w}
  /\ LoadRest(w)
  /\ UNCHANGED taskVars

Increment(w) ==
  /\ ParkStep(w, "inc", "sleep")
  /\ StoreRest(w, tmp[w] + 1)
  /\ UNCHANGED <<mtx, taskVars>>

(* wait releases the mutex and puts the worker to sleep in one step. *)
Sleep(w) ==
  /\ ParkStep(w, "sleep", "waiting")
  /\ mtx' = {}
  /\ UNCHANGED <<rest, tmp, collided, taskVars>>

(* wait takes the mutex again; ul.unlock releases it. *)
Unlock(w) ==
  /\ mtx = {}
  /\ ParkStep(w, "woken", "load")
  /\ UNCHANGED <<parkVars, taskVars>>

(* rest_size--, after the mutex was released *)
Load(w) ==
  /\ ParkStep(w, "load", "dec")
  /\ LoadRest(w)
  /\ UNCHANGED <<mtx, taskVars>>

Decrement(w) ==
  /\ ParkStep(w, "dec", "pop")
  /\ StoreRest(w, tmp[w] - 1)
  /\ UNCHANGED <<mtx, taskVars>>

-----------------------------------------------------------------------------
(* A worker takes tasks and runs them. *)

(* safe_pop_pos found nothing: f, which is val[w], keeps its value. *)
FindNothing(w) ==
  /\ TaskStep(w, "pop", "call")
  /\ PopNothing(w)
  /\ UNCHANGED <<parkVars, taskVars, lossVars>>

ClaimTask(w) ==
  /\ TaskStep(w, "pop", "take")
  /\ PopClaim(w)
  /\ UNCHANGED <<parkVars, taskVars, lossVars>>

BeginTake(w) ==
  /\ TaskStep(w, "take", "take")
  /\ BeginMove(w)
  /\ UNCHANGED <<parkVars, taskVars, lossVars>>

EndTake(w) ==
  /\ TaskStep(w, "take", "call")
  /\ EndMove(w)
  /\ spoiled' = IF val'[w] = due[w] THEN spoiled ELSE spoiled \cup {due[w]}
  /\ unsure' = IF pos[w] \in hazy THEN unsure \cup {w} ELSE unsure \ {w}
  /\ UNCHANGED <<parkVars, taskVars, dropped>>

SkipEmpty(w) ==
  /\ val[w] = Empty
  /\ TaskStep(w, "call", "compare")
  /\ UNCHANGED <<queueVars, parkVars, taskVars, lossVars>>

CallTask(w) ==
  /\ val[w] \in Tasks \ started
  /\ TaskStep(w, "call", "running")
  /\ started' = started \cup {val[w]}
  /\ UNCHANGED <<queueVars, parkVars, finished, crashed, lossVars>>

(* A packaged_task that is called again throws, and nothing catches it; to *)
(* call a torn function is no better.                                      *)
Terminate(w) ==
  /\ val[w] \in started \cup {Torn}
  /\ TaskStep(w, "call", "running")
  /\ crashed' = TRUE
  /\ UNCHANGED <<queueVars, parkVars, started, finished, lossVars>>

Return(w) ==
  /\ TaskStep(w, "running", "compare")
  /\ finished' = finished \cup {val[w]}
  /\ UNCHANGED <<queueVars, parkVars, started, crashed, lossVars>>

(* rest_size < task_queue.size(): either operand may be read first. *)
ReadRest(w) ==
  /\ TaskStep(w, "compare", "rest_read")
  /\ LoadRest(w)
  /\ UNCHANGED <<queueVars, mtx, taskVars, lossVars>>

ReadSize(w) ==
  /\ TaskStep(w, "compare", "size_read")
  /\ tmp' = [tmp EXCEPT ![w] = impl.cur_size]
  /\ UNCHANGED <<queueVars, rest, mtx, collided, taskVars, lossVars>>

FewRest(w) ==
  \/ At(w, "rest_read") /\ tmp[w] < impl.cur_size
  \/ At(w, "size_read") /\ rest < tmp[w]

(* pop_again, or the end of the scope of f *)
Compare(w) ==
  /\ stage[w] \in {"rest_read", "size_read"}
  /\ TaskStep(w, stage[w], IF FewRest(w) THEN "pop" ELSE "test")
  /\ IF FewRest(w)
     THEN unsure' = unsure \cup {w} /\ UNCHANGED queueVars
     ELSE unsure' = unsure \ {w} /\ Forget(w)
  /\ tmp' = [tmp EXCEPT ![w] = 0]
  /\ UNCHANGED <<rest, mtx, collided, taskVars, dropped, spoiled>>

-----------------------------------------------------------------------------
(* submit, which does not ask whether the pool has been stopped *)

MaySubmit ==
  /\ owner \in IF Caller = "many" THEN {"open", "stopping", "joining", "stopped"}
               ELSE {"open", "stopped"}
  /\ Back
  /\ Caller = "demo" => Parked = Workers \/ \E t \in Tasks : call[t] # "new"

Submit(t) ==
  /\ MaySubmit
  /\ CallStep(t, "new", "push")
  /\ PushClaim(t, t)
  /\ dropped' = IF IsFull(impl) THEN dropped \cup {owed[impl.cur_start]}
                ELSE dropped
  /\ UNCHANGED <<stage, left>>

BeginStore(t) ==
  /\ CallStep(t, "push", "push")
  /\ BeginCopy(t)
  /\ UNCHANGED <<stage, left, dropped>>

EndStore(t) ==
  /\ CallStep(t, "push", "size")
  /\ EndCopy(t)
  /\ UNCHANGED <<stage, left, dropped>>

(* More elements than workers, or none: nobody is notified. *)
SizeCheck(t) ==
  LET qsize == impl.cur_size
      notify == 0 < qsize /\ qsize <= PoolSize
  IN  /\ CallStep(t, "size", IF notify THEN "notify" ELSE "done")
      /\ left' = [left EXCEPT ![t] = IF notify THEN qsize ELSE 0]
      /\ UNCHANGED <<queueVars, stage, dropped>>

Notify(t) ==
  /\ CallStep(t, "notify", IF left[t] = 1 THEN "done" ELSE "notify")
  /\ left' = [left EXCEPT ![t] = @ - 1]
  /\ NotifyOne
  /\ UNCHANGED <<queueVars, dropped>>

-----------------------------------------------------------------------------
WorkerStep(w) ==
  \/ Test(w) \/ Lock(w) \/ Increment(w) \/ Sleep(w)
  \/ Unlock(w) \/ Load(w) \/ Decrement(w)
  \/ FindNothing(w) \/ ClaimTask(w) \/ BeginTake(w) \/ EndTake(w)
  \/ SkipEmpty(w) \/ CallTask(w) \/ Terminate(w) \/ Return(w)
  \/ ReadRest(w) \/ ReadSize(w) \/ Compare(w)

SubmitStep(t) == BeginStore(t) \/ EndStore(t) \/ SizeCheck(t) \/ Notify(t)

Duty == (\E w \in Workers : Spawn(w)) \/ SpinEnds \/ Greet \/ StopNotify \/ Join

PoolNext ==
  /\ ~crashed
  /\ \/ \E w \in Workers : WorkerStep(w) \/ WakeSpuriously(w)
     \/ \E t \in Tasks : Submit(t) \/ SubmitStep(t)
     \/ Duty
     \/ Stop

PoolSpec == PoolInit /\ [][PoolNext]_vars

(***************************************************************************)
(* Every thread that has something to do is eventually scheduled, a task   *)
(* that runs returns.  Nobody has to call submit or stop.                  *)
(***************************************************************************)
FairPoolSpec ==
  /\ PoolSpec
  /\ \A w \in Workers : WF_vars(~crashed /\ WorkerStep(w))
  /\ \A t \in Tasks : WF_vars(~crashed /\ SubmitStep(t))
  /\ WF_vars(~crashed /\ Duty)

-----------------------------------------------------------------------------
Stages == {"unborn", "test", "lock", "inc", "sleep", "waiting", "woken", "load",
           "dec", "pop", "take", "call", "running", "compare", "rest_read",
           "size_read", "exited"}

PoolTypeOK ==
  /\ TypeOK
  /\ owner \in {"spawning", "greeting", "open", "stopping", "joining", "stopped"}
  /\ needStop \in BOOLEAN
  /\ rest \in 0 .. Word - 1
  /\ mtx \in SUBSET Workers
  /\ stage \in [Workers -> Stages]
  /\ tmp \in [Workers -> Nat]
  /\ call \in [Tasks -> {"new", "push", "size", "notify", "done"}]
  /\ left \in [Tasks -> 0 .. PoolSize]
  /\ started \subseteq Tasks
  /\ finished \subseteq started
  /\ crashed \in BOOLEAN
  /\ wakeups \in 0 .. MaxSpurious
  /\ dropped \subseteq Tasks
  /\ spoiled \subseteq Tasks
  /\ unsure \subseteq Workers
  /\ collided \in BOOLEAN

(* The tasks whose push claimed a slot that is still live. *)
Queued == {owed[i] : i \in LiveSlots(impl)}

(* The tasks in the hands of a worker that has not called them yet. *)
InHand == {due[w] : w \in Workers} \cup {val[w] : w \in {v \in Workers : At(v, "call")}}

Submitted == {t \in Tasks : call[t] # "new"}

(***************************************************************************)
(* A submitted task is queued, in the hands of a worker or called, unless  *)
(* a push into the full queue dropped it or overlapping claims of its slot *)
(* spoiled it.  In particular need_stop makes no worker let go of a task.  *)
(***************************************************************************)
TaskAccounted == Submitted \subseteq Queued \cup InHand \cup started \cup dropped \cup spoiled

(***************************************************************************)
(* rest_size is the number of workers between their increment and their    *)
(* decrement, as long as no update of it has overwritten another one.      *)
(***************************************************************************)
Counted == {w \in Workers : stage[w] \in {"sleep", "waiting", "woken", "load", "dec"}}

RestCountsParked == ~collided => rest = Cardinality(Counted)

(***************************************************************************)
(* f, when a worker is about to test and call it, is empty or a task that  *)
(* was never called and is in nobody else's hands, unless the worker has   *)
(* popped again with an f in hand and found nothing, or others had claimed *)
(* the slot too.  Nothing else makes a task be called for a second time,   *)
(* or torn, whoever submits and however full the queue is.                 *)
(***************************************************************************)
CalledTasksAreFresh ==
  \A w \in Workers : At(w, "call") /\ w \notin unsure =>
    /\ val[w] \in {Empty} \cup (Tasks \ started)
    /\ \A v \in Workers \ {w} : val[v] = val[w] => val[w] = Empty

-----------------------------------------------------------------------------
(* Liveness, under FairPoolSpec. *)

(***************************************************************************)
(* The constructor's spin ends although rest_size is no atomic: the mutex  *)
(* keeps the increments apart.  (Without spurious wakeups.)                *)
(***************************************************************************)
ConstructorReturns == owner = "spawning" ~> owner = "open"

(***************************************************************************)
(* stop joins every worker and returns, provided no worker is between its  *)
(* test of need_stop and its wait when stop is about to notify: such a     *)
(* worker misses the notification and is never woken.                      *)
(***************************************************************************)
AboutToPark == {w \in Workers : stage[w] \in {"lock", "inc", "sleep"}}

StopReturns ==
  owner = "stopping" /\ AboutToPark = {} ~> owner = "stopped" \/ crashed

(***************************************************************************)
(* When submit reads a queue size for which there are enough parked        *)
(* workers, its notifications bring enough of them to the queue: the task  *)
(* just submitted, the last in the queue, is claimed too.                  *)
(***************************************************************************)
EnoughParked ==
  \A t \in Tasks :
    call[t] = "size" /\ impl.cur_size <= Cardinality(Parked)
      ~> t \notin Queued \/ crashed

-----------------------------------------------------------------------------
(* Liveness of the demo, which submits two tasks and stops (main.cpp:221). *)

(***************************************************************************)
(* Each of the two is run although stop comes at once, unless a worker     *)
(* that is already done with the first one claims the second before it is  *)
(* copied, or pops again, finds nothing and calls the first one again.     *)
(***************************************************************************)
EveryTaskRuns ==
  \A t \in Tasks : call[t] # "new" ~> t \in finished \cup spoiled \/ crashed
=============================================================================
