------------------------------ MODULE LockfreeQ ------------------------------
(***************************************************************************)
(* SlotQueue with the load / compute / compare-and-swap loops of           *)
(* _atomic_push_pos and _atomic_pop_pos spelled out.  A thread in a loop   *)
(* is idle for SlotQueue; the exchange that succeeds is its claim.         *)
(***************************************************************************)
EXTENDS SlotQueue

VARIABLES
  loop,     (* loop[t]: where thread t is in a CAS loop                    *)
  save,     (* save[t]: save_impl, the cursor it loaded                    *)
  arg       (* arg[t]: the element it wants to push                        *)

loopVars == <<loop, save, arg>>
vars == <<queueVars, loopVars>>

Looping == {"push_load", "push_cas", "pop_load", "pop_cas"}

LoopInit ==
  /\ Init
  /\ loop = [t \in Threads |-> "out"]
  /\ save = [t \in Threads |-> ZeroCursor]
  /\ arg = [t \in Threads |-> Empty]

Idle(t) == loop[t] = "out" /\ qpc[t] = "idle"

-----------------------------------------------------------------------------
(* Faulty variants of the steps below. *)

RetryWithoutLoading(t, from, to) ==
  /\ loop[t] = from
  /\ impl # save[t]
  /\ UNCHANGED vars

ExchangeUnconditionally(t, from, step) ==
  /\ loop[t] = from
  /\ loop' = [loop EXCEPT ![t] = "out"]
  /\ save' = [save EXCEPT ![t] = ZeroCursor]
  /\ arg' = [arg EXCEPT ![t] = Empty]
  /\ impl' = step.next

-----------------------------------------------------------------------------
(* The parts of the loop that push and pop share. *)

Enter(t, v, label) ==
  /\ Idle(t)
  /\ loop' = [loop EXCEPT ![t] = label]
  /\ arg' = [arg EXCEPT ![t] = v]
  /\ UNCHANGED <<queueVars, save>>

Load(t, from, to) ==
  /\ loop[t] = from
  /\ save' = [save EXCEPT ![t] = impl]
  /\ loop' = [loop EXCEPT ![t] = to]
  /\ UNCHANGED <<queueVars, arg>>

(* The exchange fails: another thread moved the cursor since the load. *)
Retry(t, from, to) ==
  /\ loop[t] = from
  /\ impl # save[t]
  /\ save' = [save EXCEPT ![t] = ZeroCursor]
  /\ loop' = [loop EXCEPT ![t] = to]
  /\ UNCHANGED <<queueVars, arg>>

(* The exchange succeeds; the locals of the loop go out of scope. *)
Exchange(t, from, step) ==
  /\ loop[t] = from
  /\ impl = save[t]
  /\ loop' = [loop EXCEPT ![t] = "out"]
  /\ save' = [save EXCEPT ![t] = ZeroCursor]
  /\ arg' = [arg EXCEPT ![t] = Empty]
  /\ impl' = step.next

-----------------------------------------------------------------------------
CallPush(t, v) == Enter(t, v, "push_load")
PushLoad(t) == Load(t, "push_load", "push_cas")
PushRetry(t) == Retry(t, "push_cas", "push_load")

PushExchange(t) ==
  LET step == NextPush(save[t])
  IN  /\ Exchange(t, "push_cas", step)
      /\ pos' = [pos EXCEPT ![t] = step.at]
      /\ val' = [val EXCEPT ![t] = arg[t]]
      /\ owed' = [owed EXCEPT ![step.at] = arg[t]]
      /\ hazy' = IF InFlight(step.at) = {} THEN hazy \ {step.at}
                 ELSE hazy \cup {step.at}
      /\ Goto(t, "push_copy")
      /\ UNCHANGED <<data, raced, due>>

CallPop(t) == Enter(t, Empty, "pop_load")
PopLoad(t) == Load(t, "pop_load", "pop_cas")
PopRetry(t) == Retry(t, "pop_cas", "pop_load")

PopExchange(t) ==
  LET step == NextPop(save[t])
  IN  /\ Exchange(t, "pop_cas", step)
      /\ UNCHANGED <<data, raced>>
      /\ \/ /\ step.at = NoPos
            /\ UNCHANGED <<qpc, pos, val, owed, due, hazy>>
         \/ /\ step.at # NoPos
            /\ pos' = [pos EXCEPT ![t] = step.at]
            /\ due' = [due EXCEPT ![t] = owed[step.at]]
            /\ val' = [val EXCEPT ![t] = Empty]
            /\ owed' = [owed EXCEPT ![step.at] = Empty]
            /\ hazy' = IF InFlight(step.at) = {} THEN hazy
                       ELSE hazy \cup {step.at}
            /\ Goto(t, "pop_got")

(* The second half of an operation, and clear, are those of SlotQueue. *)
Access(t) ==
  /\ BeginCopy(t) \/ EndCopy(t) \/ BeginMove(t) \/ EndMove(t)
  /\ UNCHANGED loopVars

CallForget(t) ==
  /\ Idle(t)
  /\ Forget(t)
  /\ UNCHANGED loopVars

CallClear(t) ==
  /\ Idle(t)
  /\ Clear
  /\ UNCHANGED loopVars

-----------------------------------------------------------------------------
(* What a thread does once it is inside an operation. *)
Running(t) ==
  \/ PushLoad(t)
  \/ PushRetry(t)
  \/ PushExchange(t)
  \/ PopLoad(t)
  \/ PopRetry(t)
  \/ PopExchange(t)
  \/ Access(t)

LoopNext ==
  \E t \in Threads :
    \/ \E v \in Values : CallPush(t, v)
    \/ CallPop(t)
    \/ CallForget(t)
    \/ CallClear(t)
    \/ Running(t)

LoopSpec == LoopInit /\ [][LoopNext]_vars

(***************************************************************************)
(* The scheduler keeps running a thread that is inside an operation.       *)
(* Nobody is obliged to call the queue.                                    *)
(***************************************************************************)
FairLoopSpec == LoopSpec /\ \A t \in Threads : WF_vars(Running(t))

-----------------------------------------------------------------------------
LoopTypeOK ==
  /\ TypeOK
  /\ loop \in [Threads -> {"out"} \cup Looping]
  /\ save \in [Threads -> Cursors]
  /\ arg \in [Threads -> Values \cup {Empty}]

(***************************************************************************)
(* Each operation claims its slot in one indivisible step: the CAS loops   *)
(* implement the single-step claims of SlotQueue, even though the cursor   *)
(* may have changed and changed back between the load and the exchange.    *)
(***************************************************************************)
ClaimsAreAtomic == Spec

(***************************************************************************)
(* Lock freedom: it never happens that from some point on some thread is   *)
(* always inside a CAS loop and yet no exchange ever succeeds again.       *)
(***************************************************************************)
SomebodySucceeds == \E t \in Threads : PushExchange(t) \/ PopExchange(t)
LockFree ==
  \/ []<>(\A t \in Threads : loop[t] \notin Looping)
  \/ []<><<SomebodySucceeds>>_vars
=============================================================================
